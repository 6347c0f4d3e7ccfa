--------------------------- MODULE RavelEvaluator ---------------------------
(***************************************************************************)
(* The independent evaluator of the RAVEL 0.5 study: which raw             *)
(* observations and which preregistration are admissible, the metrics      *)
(* derived from the raw counts, the gates, and the development result.     *)
(*                                                                         *)
(* A JSON object is a record with the fields the evaluator looks into and  *)
(* a field "flaws" that is empty when the remaining requirements on it     *)
(* (exact keys, types, lowercase hexadecimal) are met.  A digest is what   *)
(* was digested, a derived seed what it is derived from: SHA-256 and the   *)
(* 64-bit mixer are taken as collision free.  A ratio is a fraction; a     *)
(* root mean square is kept as its mean square, which orders alike.        *)
(***************************************************************************)
EXTENDS Integers, Sequences, FiniteSets

Rejected == [ok |-> FALSE]

Occurrences(s, P(_)) == Cardinality({i \in DOMAIN s : P(s[i])})

Distinct(s) == \A i, j \in DOMAIN s : s[i] = s[j] => i = j

Q(n, d)     == [n |-> n, d |-> d]
Count(n)    == Q(n, 1)
Truth(b)    == Q(IF b THEN 1 ELSE 0, 1)
Minus(a, b) == Q(a.n * b.d - b.n * a.d, a.d * b.d)
Geq(a, b)   == a.n * b.d >= b.n * a.d
Eq(a, b)    == a.n * b.d = b.n * a.d
OrOne(n)    == IF n > 0 THEN n ELSE 1

----------------------------------------------------------------------------
(* Observed records *)

validate_eval(r) ==
    /\ r.flaws = {}
    /\ r.correct <= r.samples /\ r.prediction_samples <= r.samples
    /\ r.transition_supported <= r.samples
    /\ r.transition_correct <= r.transition_supported
    /\ r.transition_supported + r.transition_unknown = r.samples
    /\ \A k \in DOMAIN r \ {"flaws"} : r[k] >= 0

validate_plan(r) ==
    /\ r.flaws = {}
    /\ {r.path_found, r.exact, r.belief, r.disconnected, r.no_edge} \subseteq 0..r.cases
    /\ r.path_found + r.disconnected + r.no_edge = r.cases

\* Without predictions the error is infinite and not admissible.
Derivable(r) == r.samples > 0 /\ r.prediction_samples > 0

derive_eval(r) ==
    [accuracy       |-> Q(r.correct, r.samples),
     reconstruction |-> Q(r.reconstruction_sse_q20, r.samples),
     prediction     |-> Q(r.prediction_sse_q20, r.prediction_samples),
     transition     |-> IF r.transition_supported = 0 THEN Count(0)
                        ELSE Q(r.transition_correct, r.transition_supported),
     support        |-> Q(r.transition_supported, r.samples),
     mismatches     |-> r.routed_complete_mismatches,
     evaluations    |-> r.expert_evaluations]

derive_plan(r) ==
    [path_found |-> Q(r.path_found, r.cases), exact |-> Q(r.exact, r.cases),
     belief |-> Q(r.belief, r.cases)]

_validate_replay(r) == r.flaws = {} /\ r.unique <= r.selected

_validate_topology(r) ==
    /\ r.flaws = {}
    /\ Len(r.births) = r.accepted_births
    /\ \A i \in DOMAIN r.births : r.births[i] \in 0..7        \* dominant channel
    /\ Len(r.retired_lineages) = r.accepted_retirements
    /\ r.training.births = r.accepted_births
    /\ r.training.retired = r.accepted_retirements

_validate_variant(v) ==
    /\ v.flaws = {} /\ v.expert_count \in 1..80
    /\ validate_eval(v.drift) /\ validate_eval(v.retention) /\ validate_plan(v.planning)

----------------------------------------------------------------------------
(* The preregistration *)

_validate_gate_list(gates) ==
    /\ gates # <<>>
    /\ Distinct([i \in DOMAIN gates |-> gates[i].gate_id])
    /\ \A i \in DOMAIN gates : gates[i].operator \in {"ge", "le", "eq"} /\ gates[i].flaws = {}

_derive_validation_seed(root, regime, index) == <<root, regime, index>>

\* The k-th trial of a regime has the k-th seed of that regime.
RegimeIndex(trials, i) ==
    Occurrences(SubSeq(trials, 1, i - 1), LAMBDA t : t.regime = trials[i].regime)

TrialsAreDerived(p) ==
    /\ p.trials # <<>>
    /\ \A i \in DOMAIN p.trials :
          p.trials[i].seed =
              _derive_validation_seed(p.root_seed, p.trials[i].regime, RegimeIndex(p.trials, i))
    /\ Distinct([i \in DOMAIN p.trials |-> p.trials[i].trial_id])
    /\ Distinct([i \in DOMAIN p.trials |-> p.trials[i].seed])
    /\ {p.trials[i].regime : i \in DOMAIN p.trials} = DOMAIN p.regime_gates
    /\ \A regime \in DOMAIN p.regime_gates :
          Occurrences(p.trials, LAMBDA t : t.regime = regime) = p.per_regime

Dispositions == {"reject", "fall_back", "fail_a_gate", "report_UNKNOWN",
                 "preserve_non_promotion"}

ValidRules(p) ==
    /\ p.variants # <<>> /\ Distinct(p.variants)
    /\ _validate_gate_list(p.common_gates)
    /\ \A regime \in DOMAIN p.regime_gates : _validate_gate_list(p.regime_gates[regime])
    /\ p.minimum_passing_trials \in 0..Len(p.trials)
    /\ p.minimum_passing_trials_per_regime \in 0..p.per_regime
    /\ DOMAIN p.dispositions # {}
    /\ \A name \in DOMAIN p.dispositions : p.dispositions[name].expected_disposition \in Dispositions
    /\ p.formal = [mncs |-> "UNKNOWN", mncds |-> "UNKNOWN", promotion_authorized |-> FALSE]

validate_preregistration(p) ==
    /\ p.flaws = {} /\ p.schema = "ravel-preregistration/0.5"
    /\ p.freeze = "FROZEN" /\ p.frozen_before_final_validation
    /\ p.final_validation_use = "one_shot"
    /\ p.algorithm = "sha256-first-u64-big-endian" /\ p.per_regime >= 1
    /\ \A name \in DOMAIN p.datasets : p.datasets[name] >= 1
    /\ TrialsAreDerived(p) /\ ValidRules(p)

----------------------------------------------------------------------------
(* One trial *)

Views(c) == {c.base_holdout, c.adaptation_training, c.static_model_drift_holdout,
             c.adapted_model_drift_holdout, c.base_holdout_retention}

\* Mutant: only the sizes are compared.
CandidateAgrees_sizes(c, v) ==
    v.expert_count = c.expert_count /\ v.checkpoint_size_bytes = c.checkpoint_size_bytes

\* Everything the candidate reports about itself as a variant has to be what
\* it reports as the candidate; the training evaluations are not compared.
CandidateAgrees(c, v) ==
    /\ v.expert_count = c.expert_count
    /\ v.checkpoint_size_bytes = c.checkpoint_size_bytes
    /\ v.drift = c.adapted_model_drift_holdout
    /\ v.retention = c.base_holdout_retention
    /\ v.planning = c.planning

ValidFormat(format, p) ==
    format = [schema_version |-> p.checkpoint_schema, transition_top_k |-> p.transition_top_k]

ValidCandidate(c) ==
    /\ c.expert_count \in 1..80
    /\ \A r \in Views(c) : validate_eval(r)
    /\ validate_plan(c.planning) /\ _validate_replay(c.replay) /\ _validate_topology(c.topology)

\* Only keys and types: what was observed is for the gates to judge.
ValidIntegrity(r) == r.flaws = {}

\* Looked up by name: without one of them the evaluator ends in a KeyError,
\* which leaves no evidence either.
RequiredVariants ==
    {"ravel_0_5_candidate", "no_adaptation_static", "matched_compute_fixed_topology",
     "ravel_no_birth_same_replay_iterations", "ravel_without_retirement_matched_work",
     "periodic_replay_policy", "flat_64_expert_complete_scan"}

validate_trial(t, expected, p) ==
    /\ t.flaws = {} /\ t.schema = "ravel-raw-trial/0.5"
    /\ t.trial_id = expected.trial_id /\ t.regime = expected.regime /\ t.seed = expected.seed
    /\ t.dataset_seeds = [name \in DOMAIN p.datasets |-> <<t.seed, name>>]   \* _mix64
    /\ t.dataset_sizes = p.datasets
    /\ ValidFormat(t.checkpoint_format, p)
    /\ ValidCandidate(t.candidate) /\ ValidIntegrity(t.integrity)
    /\ DOMAIN t.comparisons = {p.variants[i] : i \in DOMAIN p.variants}
    /\ RequiredVariants \subseteq DOMAIN t.comparisons
    /\ \A name \in DOMAIN t.comparisons : _validate_variant(t.comparisons[name])
    /\ CandidateAgrees(t.candidate, t.comparisons["ravel_0_5_candidate"])

_headroom_improvement(adapted, static) ==
    LET gain == Minus(adapted, static)
        headroom == Minus(Count(1), static)
    IN IF headroom.n > 0 THEN Q(gain.n * headroom.d, gain.d * headroom.n)
       ELSE IF Geq(adapted, static) THEN Count(0) ELSE gain

\* One metric of each kind: rates, their differences, the sum of routing
\* mismatches, counts, facts, and what is relative to a variant.
derive_trial_metrics(t) ==
    LET c         == t.candidate
        base      == derive_eval(c.base_holdout)
        training  == derive_eval(c.adaptation_training)
        static    == derive_eval(c.static_model_drift_holdout)
        adapted   == derive_eval(c.adapted_model_drift_holdout)
        retention == derive_eval(c.base_holdout_retention)
        plan      == derive_plan(c.planning)
        work      == c.base_training_evaluations + c.adaptation_training_evaluations
        drift(v)  == derive_eval(t.comparisons[v].drift)
    IN [adaptation_completed     |-> Truth(c.adaptation_completed),
        base_accuracy            |-> base.accuracy,
        adapted_drift_accuracy   |-> adapted.accuracy,
        retention_accuracy       |-> retention.accuracy,
        retention_accuracy_delta_from_base |-> Minus(retention.accuracy, base.accuracy),
        drift_accuracy_delta     |-> Minus(adapted.accuracy, static.accuracy),
        headroom_normalized_accuracy_improvement |->
            _headroom_improvement(adapted.accuracy, static.accuracy),
        adapted_reconstruction   |-> adapted.reconstruction,
        adapted_prediction       |-> adapted.prediction,
        transition_support_rate  |-> adapted.support,
        transition_accuracy_delta |-> Minus(adapted.transition, static.transition),
        path_found_rate          |-> plan.path_found,
        exact_state_rate         |-> plan.exact,
        belief_set_rate          |-> plan.belief,
        routing_mismatches       |-> Count(base.mismatches + training.mismatches +
                                           static.mismatches + adapted.mismatches +
                                           retention.mismatches),
        expert_count             |-> Count(c.expert_count),
        accepted_retirements     |-> Count(c.topology.accepted_retirements),
        training_evaluations     |-> Count(work),
        inference_expert_evaluations |-> Count(adapted.evaluations),
        checkpoint_size_bytes    |-> Count(c.checkpoint_size_bytes),
        replay_unique            |-> Count(c.replay.unique),
        checkpoint_roundtrip     |-> Truth(t.integrity.checkpoint_roundtrip),
        checkpoint_mutations     |-> Truth(\A m \in DOMAIN t.integrity.checkpoint_mutations :
                                               t.integrity.checkpoint_mutations[m]),
        exact_state_rate_delta   |->
            Minus(plan.exact, derive_plan(t.comparisons["no_adaptation_static"].planning).exact),
        matched_compute_training_evaluation_ratio |->
            Q(work, OrOne(t.comparisons["matched_compute_fixed_topology"].training_evaluations)),
        no_birth_drift_accuracy_delta |->
            Minus(adapted.accuracy, drift("ravel_no_birth_same_replay_iterations").accuracy),
        no_retirement_drift_accuracy_delta |->
            Minus(adapted.accuracy, drift("ravel_without_retirement_matched_work").accuracy),
        balanced_vs_periodic_drift_accuracy_delta |->
            Minus(adapted.accuracy, drift("periodic_replay_policy").accuracy),
        inference_evaluation_ratio_vs_flat64 |->
            Q(adapted.evaluations, OrOne(drift("flat_64_expert_complete_scan").evaluations)),
        topology_objective_gain_q20 |->
            Count(c.topology.objective_after_q20 - c.topology.objective_before_q20)]

TrialDerivable(t) ==
    /\ \A r \in Views(t.candidate) : Derivable(r)
    /\ t.candidate.planning.cases > 0
    /\ \A name \in DOMAIN t.comparisons :
          /\ Derivable(t.comparisons[name].drift) /\ Derivable(t.comparisons[name].retention)
          /\ t.comparisons[name].planning.cases > 0

_apply_gate(gate, metrics) ==
    LET observed == metrics[gate.metric]
    IN CASE gate.operator = "ge" -> Geq(observed, gate.value)
         [] gate.operator = "le" -> Geq(gate.value, observed)
         [] gate.operator = "eq" -> Eq(observed, gate.value)

----------------------------------------------------------------------------
(* Comparisons *)

Quality(drift, retention, plan, work, experts, size) ==
    LET eval == derive_eval(drift)
    IN [drift_accuracy |-> eval.accuracy, retention_accuracy |-> derive_eval(retention).accuracy,
        planning_exact_state_rate |-> derive_plan(plan).exact,
        planning_belief_set_rate |-> derive_plan(plan).belief,
        reconstruction_rmse |-> eval.reconstruction, prediction_rmse |-> eval.prediction,
        expert_evaluations |-> Count(eval.evaluations), training_evaluations |-> Count(work),
        expert_count |-> Count(experts), checkpoint_size_bytes |-> Count(size)]

CandidateQuality(c) ==
    Quality(c.adapted_model_drift_holdout, c.base_holdout_retention, c.planning,
            c.base_training_evaluations + c.adaptation_training_evaluations,
            c.expert_count, c.checkpoint_size_bytes)

VariantQuality(v) ==
    Quality(v.drift, v.retention, v.planning, v.training_evaluations, v.expert_count,
            v.checkpoint_size_bytes)

Maximized == {"drift_accuracy", "retention_accuracy", "planning_exact_state_rate",
              "planning_belief_set_rate"}

_pareto_relation(candidate, variant) ==
    LET better(a, b) == \E m \in DOMAIN variant :
                            IF m \in Maximized THEN ~Geq(b[m], a[m]) ELSE ~Geq(a[m], b[m])
        candidate_better == better(candidate, variant)
        variant_better   == better(variant, candidate)
    IN CASE candidate_better /\ ~variant_better -> "candidate_dominates"
         [] variant_better /\ ~candidate_better -> "variant_dominates"
         [] ~candidate_better /\ ~variant_better -> "equivalent"
         [] candidate_better /\ variant_better -> "mixed"

----------------------------------------------------------------------------
(* evaluate *)

TrialGates(p, regime) == p.common_gates \o p.regime_gates[regime]

TrialEvidence(t, p) ==
    LET metrics == derive_trial_metrics(t)
        gates   == TrialGates(p, t.regime)
        passes  == [i \in DOMAIN gates |-> _apply_gate(gates[i], metrics)]
    IN [trial_id |-> t.trial_id, regime |-> t.regime, metrics |-> metrics, gates |-> passes,
        pass |-> \A i \in DOMAIN passes : passes[i],
        comparisons |-> [name \in DOMAIN t.comparisons |->
                            _pareto_relation(CandidateQuality(t.candidate), VariantQuality(t.comparisons[name]))]]

MetricsKnown(t, p) ==
    LET gates == TrialGates(p, t.regime)
    IN \A g \in DOMAIN gates : gates[g].metric \in DOMAIN derive_trial_metrics(t)

TrialsAdmissible(raw, p) ==
    /\ Len(raw.trials) = Len(p.trials)
    /\ \A i \in DOMAIN p.trials :
          /\ validate_trial(raw.trials[i], p.trials[i], p)
          /\ TrialDerivable(raw.trials[i]) /\ MetricsKnown(raw.trials[i], p)

\* Mutant: the observations are not bound to the preregistration.
Admissible_unbound(raw, p) ==
    validate_preregistration(p) /\ raw.flaws = {} /\ TrialsAdmissible(raw, p)

Admissible(raw, p) ==
    /\ validate_preregistration(p)
    /\ raw.flaws = {} /\ raw.schema = "ravel-raw-observations/0.5"
    /\ raw.preregistration_sha256 = p
    /\ TrialsAdmissible(raw, p)

\* Enough trials pass, and enough of every regime; the declared flag
\* all_integrity_gates_required is not consulted.
GlobalPass(evaluated, p) ==
    /\ Occurrences(evaluated, LAMBDA e : e.pass) >= p.minimum_passing_trials
    /\ \A regime \in DOMAIN p.regime_gates :
          Occurrences(evaluated, LAMBDA e : e.pass /\ e.regime = regime)
              >= p.minimum_passing_trials_per_regime

evaluate(raw, p) ==
    IF ~Admissible(raw, p) THEN Rejected
    ELSE LET evaluated == [i \in DOMAIN p.trials |-> TrialEvidence(raw.trials[i], p)]
         IN [ok |-> TRUE, preregistration_sha256 |-> p, trials |-> evaluated,
             development_result |-> IF GlobalPass(evaluated, p) THEN "PASS" ELSE "FAIL",
             formal_mncs_status |-> "UNKNOWN", promotion_authorized |-> FALSE]
=============================================================================
