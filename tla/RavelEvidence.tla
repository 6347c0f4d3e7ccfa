--------------------------- MODULE RavelEvidence ---------------------------
(***************************************************************************)
(* The RAVEL 0.5 evidence package: six files derived from the sources, the *)
(* preregistration and two runs of a binary for every trial.  generate     *)
(* writes them one after the other, verify derives them again and compares *)
(* them one after the other.  Sources, binary and package are changed by   *)
(* others at any time, and a command may die between any two steps.        *)
(*                                                                         *)
(* A digest of a file or of a record is what was digested.                 *)
(***************************************************************************)
EXTENDS RavelEvaluator, TLC

CONSTANTS
    Paths,           \* the files a manifest may list
    REQUIRED_ROLES,
    ShardPaths,      \* the paths the discovery globs match
    InitTree,        \* [Paths -> content]
    Edits,           \* the <<path, content>> pairs others may write
    MaxEdits,        \* bound on changes of sources and package by others
    MaxCommands,     \* bound on the commands started
    observe(_, _),   \* what a binary built from a code version may report for a
                     \* trial: more than one answer if it is not deterministic,
                     \* Missing for a run that fails
    self_tests(_)    \* and for its self tests: [fixture -> BOOLEAN]

ASSUME EvidenceAssumption ==
    /\ {MaxEdits, MaxCommands} \subseteq Nat
    /\ DOMAIN InitTree = Paths /\ ShardPaths \subseteq Paths
    /\ {"spec", "prereg", "code", "contract", "evaluator"} \subseteq Paths

PACKAGE_PATHS == <<"raw", "trial", "negative", "manifest", "assurance", "results">>

Missing == [missing |-> TRUE]

VARIABLES
    tree,      \* the repository's files
    bin,       \* the code the binary was built from
    pkg,       \* [package path -> content or Missing]
    command, pc,
    prereg, manifest, raw, trial, observations, package,   \* locals of expected_package
    spec,      \* build_manifest: the specification it follows
    first,     \* _repeat_exact: what the first of two runs reported, or Missing
    outputs,   \* collect_raw: the repeated reports so far
    failures,  \* verify: the stale or missing files so far
    next,      \* index of the next file to write or compare
    last,      \* the last command that ended, and whether it returned 0
    quiet,     \* history: nothing was changed by others since the command began
    intact,    \* history: the package was not
    edits, commands

vars == <<tree, bin, pkg, command, pc, prereg, manifest, raw, trial, observations,
          package, spec, first, outputs, failures, next, last, quiet, intact, edits, commands>>
world  == <<tree, bin, edits>>
inputs == <<prereg, manifest, raw>>
runs   == <<first, outputs>>
locals == <<inputs, trial, observations, package, spec, runs, failures, next>>
NoLocals == /\ prereg' = Missing /\ manifest' = Missing /\ raw' = Missing /\ trial' = Missing
            /\ observations' = <<>> /\ package' = Missing /\ failures' = {} /\ next' = 1
            /\ spec' = Missing /\ first' = Missing /\ outputs' = <<>>

----------------------------------------------------------------------------
(* Source manifest *)

Range_(s) == {s[i] : i \in DOMAIN s}

validate_spec(s) ==
    LET roles == [i \in DOMAIN s.ordered_files |-> s.ordered_files[i].role]
        paths == [i \in DOMAIN s.ordered_files |-> s.ordered_files[i].path]
    IN /\ s.flaws = {} /\ s.ordered_files # <<>>
       /\ Distinct(roles) /\ Distinct(paths)
       /\ REQUIRED_ROLES \subseteq Range_(roles)
       /\ s.entrypoint \in Range_(paths)
       /\ s.maintained # {} /\ s.maintained \cup s.generated \subseteq Range_(paths)
       /\ s.canonical_flags # <<>>

Exists(tr, p) == tr[p] # Missing

discover_execution_shards(tr) == {p \in ShardPaths : Exists(tr, p)}

\* A listed file as it is read for its entry: order, role and content.
Entry(f, tr) == [role |-> f.role, path |-> f.path, sha256 |-> tr[f.path]]

\* The same file as framed_source_digest reads it once more.
Frame(f, tr) == <<f.path, tr[f.path]>>

\* What is settled before the first listed file is opened.
Accepts(s, tr) ==
    validate_spec(s) /\ discover_execution_shards(tr) = s.maintained \cup s.generated

ManifestOf(s, entries, frames) ==
    [ok |-> TRUE, entrypoint |-> s.entrypoint, build_configuration |-> s.canonical_flags,
     shards |-> s.maintained \cup s.generated,
     ordered_files |-> entries, source_digest |-> frames]

\* The manifest of a tree that stays as it is.
build_manifest(tr) ==
    LET s == tr["spec"]
        read(Part(_, _)) == [i \in DOMAIN s.ordered_files |-> Part(s.ordered_files[i], tr)]
    IN IF /\ Exists(tr, "spec") /\ Accepts(s, tr)
          /\ \A f \in Range_(s.ordered_files) : Exists(tr, f.path)
       THEN ManifestOf(s, read(Entry), read(Frame))
       ELSE Rejected

verify_manifest_record(expected, actual) == expected.ok /\ actual = expected

verify_assurance_record(assurance, expected, sha256) ==
    /\ assurance.source_digest = expected.source_digest
    /\ assurance.source_manifest_sha256 = sha256

----------------------------------------------------------------------------
(* Negative evidence: each observation says that a mutation was rejected. *)

Rejects(r, p) == ~evaluate(r, p).ok

_reject_changed_derivation(changed, p, canonical) ==
    Rejects(changed, p) \/ evaluate(changed, p) # canonical

Flipped(q) == IF q.n = 0 THEN Count(1) ELSE Count(0)

OtherRegime(r, p) ==
    LET i == CHOOSE i \in DOMAIN p.trials : /\ p.trials[i].regime # r.trials[1].regime
                                            /\ \A j \in 1..i-1 : p.trials[j].regime = r.trials[1].regime
    IN p.trials[i].regime

evaluator_mutation_observations(r, p, canonical) ==
    [raw_metric_mutation |-> _reject_changed_derivation(
        [r EXCEPT !.trials[1].candidate.adapted_model_drift_holdout.correct = @ - 1], p, canonical),
     threshold_mutation |-> Rejects(r, [p EXCEPT !.common_gates[1].value = Flipped(@)]),
     executable_trial_result_injection |-> Rejects([r EXCEPT !.trials[1].flaws = {"trial_result"}], p),
     executable_gate_boolean_injection |-> Rejects([r EXCEPT !.trials[1].flaws = {"hard_gate"}], p),
     seed_mutation |-> Rejects([r EXCEPT !.trials[1].seed = <<"zero">>], p),
     regime_mutation |-> Rejects([r EXCEPT !.trials[1].regime = OtherRegime(r, p)], p),
     aggregate_mutation |-> Rejects([r EXCEPT !.flaws = {"development_result"}], p)]

Appended(tr, p) == [tr EXCEPT ![p] = [kind |-> "appended", to |-> @]]

Swapped(files) == [files EXCEPT ![1] = files[2], ![2] = files[1]]

ListedIn(tr) == {f.path : f \in Range_(tr["spec"].ordered_files)}

\* The files that are copied or rewritten are there; if one is not, the
\* command ends with an OSError, which is not taken for a rejection.
Copyable(tr) ==
    /\ Exists(tr, "spec") /\ \A p \in ListedIn(tr) : Exists(tr, p)
    /\ {"spec", "contract", "code", "evaluator"} \subseteq ListedIn(tr)

copied_recalculation(tr) == [p \in Paths |-> IF p \in ListedIn(tr) THEN tr[p] ELSE Missing]

\* Each mutation is made on a copy of the repository as it is now.
manifest_mutation_observations(m, assurance, copied) ==
    LET caught(mutated) == ~verify_manifest_record(build_manifest(mutated), m)
    IN [stale_manifest     |-> caught(Appended(copied, "contract")),
        substituted_source |-> caught(Appended(copied, "code")),
        reordered_file     |-> caught([copied EXCEPT !["spec"].ordered_files = Swapped(@)]),
        omitted_file       |-> ~build_manifest([copied EXCEPT !["spec"].ordered_files =
                                   SelectSeq(@, LAMBDA f : f.role # "contract")]).ok,
        build_configuration_mutation |-> caught([copied EXCEPT !["spec"].canonical_flags[1] = "-std=c99"]),
        artifact_mutation  |-> caught(Appended(copied, "evaluator")),
        stale_assurance    |-> ~verify_assurance_record([assurance EXCEPT !.source_digest = <<>>], m, m)]

\* Later observations replace earlier ones of the same name.
AllObservations(fixtures, observed) ==
    [evidence_file_mutation |-> TRUE, nondeterministic_output_detection |-> TRUE]
        @@ observed @@ fixtures

derive_negative(raw_observations, p) ==
    LET tests == [name \in DOMAIN raw_observations |->
                    [observed |-> raw_observations[name],
                     pass |-> raw_observations[name] = p.dispositions[name].expected_observation]]
    IN IF DOMAIN raw_observations # DOMAIN p.dispositions THEN Rejected
       ELSE [ok |-> TRUE, tests |-> tests,
             all_negative_tests_pass |-> \A name \in DOMAIN tests : tests[name].pass]

build_assurance(r, t, negative, m) ==
    [execution_integrity |-> IF negative.all_negative_tests_pass THEN "PASS" ELSE "FAIL",
     development_result |-> t.development_result, promotion_authorized |-> FALSE,
     source_manifest_sha256 |-> m, source_digest |-> m.source_digest,
     records |-> <<r, t, negative>>]

results_markdown(t) ==
    [rows |-> [i \in DOMAIN t.trials |->
                  [trial_id |-> t.trials[i].trial_id,
                   failed |-> {g \in DOMAIN t.trials[i].gates : ~t.trials[i].gates[g]}]],
     relations |-> [i \in DOMAIN t.trials |-> t.trials[i].comparisons],
     development_result |-> t.development_result]

----------------------------------------------------------------------------
(* Commands *)

Init ==
    /\ tree = InitTree /\ bin = InitTree["code"]
    /\ pkg = [p \in Range_(PACKAGE_PATHS) |-> Missing]
    /\ command = "none" /\ pc = "idle"
    /\ prereg = Missing /\ manifest = Missing /\ raw = Missing
    /\ trial = Missing /\ observations = <<>> /\ package = Missing /\ failures = {} /\ next = 1
    /\ spec = Missing /\ first = Missing /\ outputs = <<>>
    /\ last = [command |-> "none", ok |-> TRUE]
    /\ quiet = TRUE /\ intact = TRUE /\ edits = 0 /\ commands = 0

Ends(ok) ==
    /\ last' = [command |-> command, ok |-> ok]
    /\ pc' = "idle" /\ command' = "none" /\ NoLocals

Proceed(to) == pc' = to /\ UNCHANGED <<last, command>>

\* generate and verify begin with the preregistration.
start ==
    /\ pc = "idle" /\ commands < MaxCommands
    /\ \E c \in {"generate", "verify", "mutation-tests", "manifest-negative-tests",
                 "development-gates"} : command' = c
    /\ pc' = "begin" /\ commands' = commands + 1 /\ quiet' = TRUE /\ intact' = TRUE
    /\ last' = [command |-> "none", ok |-> TRUE]
    /\ UNCHANGED <<world, pkg, locals>>

\* A preregistration that cannot be read ends the command.
load_preregistration ==
    /\ pc = "begin" /\ command \in {"generate", "verify"}
    /\ IF Exists(tree, "prereg")
       THEN /\ prereg' = tree["prereg"] /\ Proceed("manifest")
            /\ UNCHANGED <<manifest, raw, trial, observations, package, spec, runs, failures, next>>
       ELSE Ends(FALSE)
    /\ UNCHANGED <<world, pkg, quiet, intact, commands>>

load_spec ==
    /\ pc = "manifest"
    /\ IF Exists(tree, "spec") /\ Accepts(tree["spec"], tree)
       THEN /\ spec' = tree["spec"] /\ manifest' = ManifestOf(tree["spec"], <<>>, <<>>)
            /\ Proceed("entries")
            /\ UNCHANGED <<prereg, raw, trial, observations, package, runs, failures, next>>
       ELSE Ends(FALSE)
    /\ UNCHANGED <<world, pkg, quiet, intact, commands>>

\* The next part of the manifest comes from file f, unless it is gone; the
\* file after the last one starts the next phase.
ReadSource(f, field, part, to) ==
    IF Exists(tree, f.path)
    THEN /\ manifest' = [manifest EXCEPT ![field] = Append(@, part)]
         /\ next' = IF next = Len(spec.ordered_files) THEN 1 ELSE next + 1
         /\ Proceed(IF next = Len(spec.ordered_files) THEN to ELSE pc)
         /\ UNCHANGED <<prereg, raw, trial, observations, package, spec, runs, failures>>
    ELSE Ends(FALSE)

\* Each file is opened twice, in two passes: others may write between them.
manifest_entry ==
    /\ pc = "entries"
    /\ LET f == spec.ordered_files[next]
       IN ReadSource(f, "ordered_files", Entry(f, tree), "digest")
    /\ UNCHANGED <<world, pkg, quiet, intact, commands>>

framed_source_digest ==
    /\ pc = "digest"
    /\ LET f == spec.ordered_files[next]
       IN ReadSource(f, "source_digest", Frame(f, tree), "collect")
    /\ UNCHANGED <<world, pkg, quiet, intact, commands>>

\* The first report is of the self tests, then comes one for each trial.
Reports(n) == IF n = 1 THEN self_tests(bin) ELSE observe(bin, prereg.trials[n - 1])

RawOf(reports) ==
    [flaws |-> {}, schema |-> "ravel-raw-observations/0.5", preregistration_sha256 |-> prereg,
     trials |-> Tail(reports), self_tests_sha256 |-> Head(reports)]

\* One process of the binary, as it is built by now: every report is asked
\* for twice, and a run that fails or tells something else is refused.
collect_raw ==
    /\ pc = "collect"
    /\ \E report \in Reports(Len(outputs) + 1) :
          LET collected == Append(outputs, report)
              all == Len(collected) = Len(prereg.trials) + 1
          IN IF report = Missing \/ first \notin {Missing, report} THEN Ends(FALSE)
             ELSE /\ IF first = Missing
                     THEN first' = report /\ Proceed("collect") /\ UNCHANGED <<outputs, raw>>
                     ELSE /\ first' = Missing
                          /\ outputs' = IF all THEN <<>> ELSE collected
                          /\ raw' = IF all THEN RawOf(collected) ELSE raw
                          /\ Proceed(IF all THEN "evaluate" ELSE "collect")
                  /\ UNCHANGED <<prereg, manifest, trial, observations, package, spec,
                                 failures, next>>
    /\ UNCHANGED <<world, pkg, quiet, intact, commands>>

evaluate_raw ==
    /\ pc = "evaluate"
    /\ LET evaluated == evaluate(raw, prereg)
       IN IF evaluated.ok
          THEN /\ trial' = evaluated /\ Proceed("mutate")
               /\ UNCHANGED <<inputs, observations, package, spec, runs, failures, next>>
          ELSE Ends(FALSE)
    /\ UNCHANGED <<world, pkg, quiet, intact, commands>>

mutate_evaluation ==
    /\ pc = "mutate"
    /\ observations' = evaluator_mutation_observations(raw, prereg, trial)
    /\ Proceed("copy")
    /\ UNCHANGED <<world, pkg, quiet, intact, commands, inputs, trial, package, spec, runs, failures, next>>

\* The repository is read again: it may have changed since the manifest.
mutate_manifest ==
    /\ pc = "copy"
    /\ IF Copyable(tree)
       THEN /\ observations' =
                  manifest_mutation_observations(manifest,
                      build_assurance(raw, trial, [all_negative_tests_pass |-> TRUE], manifest),
                      copied_recalculation(tree)) @@ observations
            /\ Proceed("derive") /\ UNCHANGED <<inputs, trial, package, spec, runs, failures, next>>
       ELSE Ends(FALSE)
    /\ UNCHANGED <<world, pkg, quiet, intact, commands>>

expected_package ==
    /\ pc = "derive"
    /\ LET negative == derive_negative(AllObservations(raw.self_tests_sha256, observations), prereg)
       IN IF negative.ok
          THEN /\ package' = [raw |-> raw, trial |-> trial, negative |-> negative,
                              manifest |-> manifest, results |-> results_markdown(trial),
                              assurance |-> build_assurance(raw, trial, negative, manifest)]
               /\ prereg' = Missing /\ manifest' = Missing /\ raw' = Missing   \* not used again
               /\ trial' = Missing /\ observations' = <<>> /\ spec' = Missing
               /\ Proceed(IF command = "generate" THEN "write" ELSE "compare")
               /\ UNCHANGED <<runs, failures, next>>
          ELSE Ends(FALSE)
    /\ UNCHANGED <<world, pkg, quiet, intact, commands>>

generate ==
    /\ pc = "write"
    /\ IF next <= Len(PACKAGE_PATHS)
       THEN /\ pkg' = [pkg EXCEPT ![PACKAGE_PATHS[next]] = package[PACKAGE_PATHS[next]]]
            /\ next' = next + 1 /\ Proceed("write")
            /\ UNCHANGED <<inputs, trial, observations, package, spec, runs, failures>>
       ELSE Ends(TRUE) /\ UNCHANGED pkg
    /\ UNCHANGED <<world, quiet, intact, commands>>

\* Mutant: the report for readers is not compared.
Stale_records(p) == p # "results" /\ pkg[p] # package[p]

Stale(p) == pkg[p] # package[p]

verify ==
    /\ pc = "compare"
    /\ IF next <= Len(PACKAGE_PATHS)
       THEN /\ failures' = failures \cup {p \in {PACKAGE_PATHS[next]} : Stale(p)}
            /\ next' = next + 1 /\ Proceed("compare")
            /\ UNCHANGED <<inputs, trial, observations, package, spec, runs>>
       ELSE Ends(failures = {})
    /\ UNCHANGED <<world, pkg, quiet, intact, commands>>

AllTrue(observed) == \A name \in DOMAIN observed : observed[name]

mutation_tests ==
    /\ pc = "begin" /\ command = "mutation-tests"
    /\ Ends(/\ Missing \notin {pkg["raw"], pkg["trial"], tree["prereg"]}
            /\ AllTrue(evaluator_mutation_observations(pkg["raw"], tree["prereg"], pkg["trial"])))
    /\ UNCHANGED <<world, pkg, quiet, intact, commands>>

manifest_negative_tests ==
    /\ pc = "begin" /\ command = "manifest-negative-tests"
    /\ Ends(/\ Missing \notin {pkg["manifest"], pkg["assurance"]}
            /\ verify_manifest_record(build_manifest(tree), pkg["manifest"])
            /\ Copyable(tree)
            /\ AllTrue(manifest_mutation_observations(pkg["manifest"], pkg["assurance"],
                                                      copied_recalculation(tree))))
    /\ UNCHANGED <<world, pkg, quiet, intact, commands>>

\* Reads the trial evidence alone: whether it is stale is verify's question.
development_gates ==
    /\ pc = "begin" /\ command = "development-gates"
    /\ Ends(pkg["trial"] # Missing /\ pkg["trial"].development_result = "PASS")
    /\ UNCHANGED <<world, pkg, quiet, intact, commands>>

----------------------------------------------------------------------------
(* Others *)

crash ==
    /\ pc # "idle"
    /\ Ends(FALSE)
    /\ UNCHANGED <<world, pkg, quiet, intact, commands>>

edit ==
    /\ edits < MaxEdits /\ edits' = edits + 1
    /\ \E e \in Edits : tree[e[1]] # e[2] /\ tree' = [tree EXCEPT ![e[1]] = e[2]]
    /\ quiet' = FALSE
    /\ UNCHANGED <<bin, pkg, command, pc, locals, last, intact, commands>>

\* make builds the binary; nothing makes the evidence tool ask for it.
build ==
    /\ bin # tree["code"] /\ bin' = tree["code"] /\ quiet' = FALSE
    /\ UNCHANGED <<tree, edits, pkg, command, pc, locals, last, intact, commands>>

remove ==
    /\ edits < MaxEdits /\ edits' = edits + 1
    /\ \E p \in DOMAIN pkg : pkg[p] # Missing /\ pkg' = [pkg EXCEPT ![p] = Missing]
    /\ quiet' = FALSE /\ intact' = FALSE
    /\ UNCHANGED <<tree, bin, command, pc, locals, last, commands>>

Next ==
    \/ start \/ load_preregistration \/ load_spec \/ manifest_entry
    \/ framed_source_digest \/ collect_raw
    \/ evaluate_raw \/ mutate_evaluation \/ mutate_manifest \/ expected_package \/ generate \/ verify
    \/ mutation_tests \/ manifest_negative_tests \/ development_gates
    \/ crash \/ edit \/ build \/ remove

Spec == Init /\ [][Next]_vars

----------------------------------------------------------------------------
(* Properties *)

Coherent(f) ==
    /\ f.assurance.records = <<f.raw, f.trial, f.negative>>
    /\ f.assurance.source_manifest_sha256 = f.manifest
    /\ f.assurance.source_digest = f.manifest.source_digest
    /\ f.trial = evaluate(f.raw, f.raw.preregistration_sha256)
    /\ f.results = results_markdown(f.trial)

\* When verify returns 0 and nobody touched the package meanwhile, the six
\* files belong together (lines 507-559): one collection of trials, evaluated
\* under the preregistration it names, bound by one assurance record.  When
\* nothing else changed either, they are the package of the current sources
\* and the current binary, whatever crashes and edits came before: each source
\* in one version only, each trial reported by this binary.
AcceptedPackageCoherent ==
    last = [command |-> "verify", ok |-> TRUE] /\ intact =>
        /\ Missing \notin {pkg[p] : p \in DOMAIN pkg}
        /\ Coherent(pkg)
        /\ quiet => /\ pkg["manifest"] = build_manifest(tree)
                    /\ pkg["raw"].preregistration_sha256 = tree["prereg"]
                    /\ Len(pkg["raw"].trials) = Len(tree["prereg"].trials)
                    /\ \A i \in DOMAIN tree["prereg"].trials :
                          pkg["raw"].trials[i] \in observe(bin, tree["prereg"].trials[i])

ManifestMutations ==
    {"stale_manifest", "substituted_source", "reordered_file", "omitted_file",
     "build_configuration_mutation", "artifact_mutation", "stale_assurance"}

\* Every package that generate writes or verify expects records all evaluator
\* mutations as rejected (lines 133-184), and, if no source changed meanwhile,
\* all manifest mutations (lines 197-310): the evaluator and the manifest
\* really depend on each thing that a mutation changes.
MutationsCaught ==
    pc \in {"write", "compare"} =>
        \A name \in DOMAIN package.negative.tests \ DOMAIN package.raw.self_tests_sha256 :
            quiet \/ name \notin ManifestMutations => package.negative.tests[name].observed

\* In trial evidence on disk the candidate compared with itself (evaluator
\* lines 845-856 and 1056-1087) neither dominates nor is dominated, unless
\* the run reported another number of training evaluations for it.
CandidateEqualsItself ==
    Missing \notin {pkg["raw"], pkg["trial"]}
    /\ pkg["trial"] = evaluate(pkg["raw"], pkg["raw"].preregistration_sha256) =>
        \A i \in DOMAIN pkg["trial"].trials :
            LET t == pkg["raw"].trials[i]
                own == t.comparisons["ravel_0_5_candidate"]
            IN own.training_evaluations =
                   t.candidate.base_training_evaluations + t.candidate.adaptation_training_evaluations
               => pkg["trial"].trials[i].comparisons["ravel_0_5_candidate"] = "equivalent"
=============================================================================
