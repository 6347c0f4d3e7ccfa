----------------------------- MODULE EdgeStudy -----------------------------
(***************************************************************************)
(* The EdgeStream study: run_study.py builds the reference and the         *)
(* generated candidate, evaluates and benchmarks them and leaves one       *)
(* result file per evaluator; package_evidence.py wraps the results into   *)
(* a graph of identities, gates, index and manifest, and derives every     *)
(* status and binding of it from the results afterwards.  Each command is  *)
(* a list of steps that each write files; it may die between two of them,  *)
(* and what it leaves behind is what the next command finds.               *)
(*                                                                         *)
(* A digest is what was digested.  A source is a record of what the        *)
(* structural checks find in it (defects), whether it compiles, and how    *)
(* its program acts.                                                       *)
(***************************************************************************)
EXTENDS Integers, Sequences, FiniteSets, FiniteSetsExt, TLC

CONSTANTS
    References,           \* the versions of the reference source at the start,
    Revisions,            \*   those others may change it to
    Strays,               \* versions of the candidate others may put in place
    specialize(_),        \* the candidate the generator makes of a reference
    execute(_, _, _, _),  \* [stdout, returncode, metric, diagnostics, checkpoint,
                          \*  temporary] of a binary, an input, a chunk, checkpoint options
    elapsed_ns(_, _, _),  \* of one run: binary, workload, repetition
    WORKLOADS, CHUNKS,
    MUTATIONS,            \* records [input, reason, accepted]
    FewChunks,
    CORRUPTIONS,
    BenchWorkloads,
    Repetitions, TargetNs, MaxBatch,
    Second,               \* unit of throughput, a multiple of every elapsed time
    InitCompilers,        \* the sets of compilers that may be installed
    MaxEdits, MaxCommands \* bounds

ASSUME StudyAssumption ==
    /\ {Repetitions, TargetNs, MaxBatch, Second} \subseteq Nat \ {0}
    /\ {MaxEdits, MaxCommands} \subseteq Nat

Missing == [missing |-> TRUE]
Names == {"reference", "candidate"}
ResultFiles == {"generation", "compiler-matrix", "differential", "mutation",
                "checkpoint-recovery", "sanitizers", "structural", "harness-regression",
                "benchmark", "environment", "test-summary", "benchmark-summary",
                "study-summary"}
Summaries == {"test-summary", "benchmark-summary", "study-summary"}
Indexed == ResultFiles \ ({"harness-regression", "environment"} \cup Summaries)
GATES == <<"differential", "compiler-matrix", "sanitizers", "checkpoint-recovery",
           "mutation", "structural">>
PerformanceGates == {"measurement_valid", "benefit_threshold", "worst_regression"}
\* The gates of which the development record repeats the status.
LedgerGates == {"differential", "sanitizers", "checkpoint-recovery", "benefit_threshold"}
IdentityNames == {"generator", "evaluator", "environment", "compiler", "benchmark",
                  "corpus", "build"}

VARIABLES
    reference, machine,  \* reference/edgestream_reference.c, machine/edgestream_generated.c
    compilers,           \* those found by shutil.which
    binaries,            \* build/: [name, compiler -> source or Missing]
    checkpoints,         \* build/: [name -> checkpoint file or Missing]
    results,             \* evidence/results: [file -> record or Missing]
    identities, gates, invariant, performance, index, manifest, mncds,
    command, todo,       \* the command under way and its remaining steps
    outcomes,            \* the statuses of its results so far
    hashes,              \* [reference, machine] as package_evidence found them
    statuses,            \* derive's list of statuses, as a set
    replacements,        \* derive's old identities and new ones, as pairs
    last,                \* the last command, its exit code, whether it came to its end
    about,               \* history: [result file -> sources it is about, run]
    quiet,               \* history: no change by others since the command began
    edits, commands

sources  == <<reference, machine, compilers, edits>>
build    == <<binaries, checkpoints>>
evidence == <<identities, gates, invariant, performance, index, manifest, mncds>>
locals   == <<outcomes, hashes, statuses, replacements>>
control  == <<command, todo, last, quiet, commands>>
vars == <<sources, build, results, about, evidence, locals, control>>

----------------------------------------------------------------------------
(* Statuses *)

\* FAIL dominates UNKNOWN dominates PASS; nothing at all is UNKNOWN.
aggregate(S) ==
    IF "FAIL" \in S THEN "FAIL"
    ELSE IF "UNKNOWN" \in S \/ S = {} THEN "UNKNOWN" ELSE "PASS"

Verdict(passed) == IF passed THEN "PASS" ELSE "FAIL"
Code(status) == CASE status = "PASS" -> 0 [] status = "UNKNOWN" -> 3 [] status = "FAIL" -> 1

----------------------------------------------------------------------------
(* Evaluators: each takes the binaries it runs and returns its record. *)

\* gcc's binary if there is one, whenever it was built.
program(name) ==
    IF binaries[name, "gcc"] # Missing THEN binaries[name, "gcc"] ELSE binaries[name, "clang"]

Plain == [in |-> Missing, out |-> Missing, fail |-> 0]
Reading(file) == [Plain EXCEPT !.in = file]
Saving(prior, step) == [Plain EXCEPT !.out = prior, !.fail = step]

Same(a, b) == a.stdout = b.stdout /\ a.returncode = b.returncode

\* Both programs repeat the reference's output for every fragmentation.
differential_tests(ref, cand) ==
    LET passed(w, c) == \A b \in {ref, cand} :
                            Same(execute(b, w, c, Plain), execute(ref, w, 4096, Plain))
    IN [status |-> Verdict(\A w \in WORKLOADS, c \in CHUNKS : passed(w, c))]

\* Every damaged frame is rejected for its reason, by both in the same words.
mutation_test(ref, cand) ==
    LET run(b, m, c) == execute(b, m.input, c, Plain)
        passed(m, c) ==
            /\ Same(run(ref, m, c), run(cand, m, c))
            /\ \E i \in DOMAIN run(cand, m, c).stdout : run(cand, m, c).stdout[i].text = m.reason
            /\ \A b \in {ref, cand} : /\ run(b, m, c).metric.accepted = m.accepted
                                      /\ run(b, m, c).metric.rejected >= 1
    IN [status |-> Verdict(\A m \in MUTATIONS, c \in FewChunks : passed(m, c))]

HasMetrics(ref, cand) ==
    \A b \in {ref, cand}, m \in MUTATIONS, c \in FewChunks :
        execute(b, m.input, c, Plain).metric # Missing

filter_control(stdout) == SelectSeq(stdout, LAMBDA r : r.type \notin {"checkpoint", "recovery"})

Continues(b, first, file, chunk) ==
    LET restored == execute(b, "second", chunk, Reading(file))
    IN /\ restored.returncode \in {0, 1}
       /\ filter_control(first.stdout) \o filter_control(restored.stdout)
            = filter_control(execute(b, "steady", 37, Plain).stdout)

FirstHalf(producer, prior) == execute(producer, "first", 11, Saving(prior, 0))

\* The checkpoint after the failures injected so far: each starts from what
\* the one before left.
AfterFaults(producer, prior) ==
    LET file[step \in 0..4] ==
            IF step = 0 THEN FirstHalf(producer, prior).checkpoint
            ELSE execute(producer, "first", 23, Saving(file[step - 1], step)).checkpoint
    IN file

\* Checkpoints pass between the implementations; a failed write leaves the
\* last one and no temporary file; a corrupt one is refused.
checkpoint_tests(bins, prior) ==
    LET cross(p, c) ==
            LET first == FirstHalf(bins[p], prior[p])
            IN /\ first.checkpoint # Missing /\ first.returncode = 0
               /\ Continues(bins[c], first, first.checkpoint, 19)
        fault(p, step) ==
            LET file == AfterFaults(bins[p], prior[p])
                failed == execute(bins[p], "first", 23, Saving(file[step - 1], step))
            IN /\ failed.returncode # 0 /\ file[step] = file[step - 1] /\ ~failed.temporary
               /\ Continues(bins[p], FirstHalf(bins[p], prior[p]), file[step], 29)
        corrupt(p, c, kind) ==
            LET damaged == [kind |-> kind, of |-> FirstHalf(bins[p], prior[p]).checkpoint]
                restored == execute(bins[c], "second", 17, Reading(damaged))
            IN /\ restored.returncode = 3
               /\ \E i \in DOMAIN restored.stdout :
                     restored.stdout[i] = [type |-> "recovery", text |-> "FAIL"]
    IN [status |-> Verdict(/\ \A p, c \in Names : cross(p, c)
                           /\ \A p \in Names, step \in 1..4 : fault(p, step)
                           /\ \A p, c \in Names, kind \in CORRUPTIONS : corrupt(p, c, kind))]

\* Both sources under the sanitizers, with clang if there is one.
sanitizer_tests(srcs) ==
    LET passed(s, w, c) == LET done == execute([source |-> s, compiler |-> "sanitized"], w, c, Plain)
                           IN done.returncode \in {0, 1} /\ done.diagnostics = {} /\ done.metric # Missing
    IN IF compilers = {} THEN [status |-> "UNKNOWN"]
       ELSE [status |-> Verdict(\A s \in srcs : s.compiles /\
                            \A w \in WORKLOADS, c \in FewChunks : passed(s, w, c))]

AST_CHECKS == {"bounded_storage_ast", "no_dynamic_allocation_in_processor_ast",
               "crc_table_shape_ast"}
CHECKS == AST_CHECKS \cup
    {"generated_marker", "frame_length_checked", "checksum_precedes_accept",
     "no_benchmark_workload_branch", "checkpoint_integrity", "candidate_identity_bound"}

_clang_ast(s) == "clang" \in compilers /\ s.compiles

structural_checks(s) ==
    LET check(c) == IF c \in AST_CHECKS /\ ~_clang_ast(s) THEN "UNKNOWN"
                    ELSE Verdict(c \notin s.defects)
    IN [status |-> aggregate({check(c) : c \in CHECKS}),
        check_statuses |-> [c \in CHECKS |-> check(c)],
        candidate_sha256 |-> s]

percentile(values, num, den) ==
    LET ceiling == (num * Len(values) + den - 1) \div den
    IN SortSeq(values, LAMBDA a, b : a < b)[Min({Len(values), ceiling})]

HARNESS_MUTATIONS == CHECKS \ {"bounded_storage_ast", "crc_table_shape_ast",
                               "candidate_identity_bound"}

\* The structural checks pass the candidate and fail each of six copies
\* with one defect; three percentiles are as computed by hand.
run_harness_regression(s) ==
    LET fixture(c) == LET observed == structural_checks([s EXCEPT !.defects = @ \cup {c}])
                      IN observed.status = "FAIL" /\ observed.check_statuses[c] = "FAIL"
    IN [status |-> Verdict(/\ structural_checks(s).status = "PASS"
                           /\ \A c \in HARNESS_MUTATIONS : fixture(c)
                           /\ percentile(<<1, 2, 3, 4>>, 50, 100) = 2
                           /\ percentile(<<1, 2, 3, 4>>, 95, 100) = 4
                           /\ percentile(<<1, 2, 3, 4>>, 99, 100) = 4)]

----------------------------------------------------------------------------
(* Benchmark.  Ratios of means are compared crosswise, in hundredths. *)

fastest(ref, cand, w) == Min({elapsed_ns(ref, w, 0), elapsed_ns(cand, w, 0)})

\* As many runs per sample as make it a fifth longer than the target.
batch_iterations(ref, cand, w) ==
    Min({Max({1, (120 * TargetNs + 100 * fastest(ref, cand, w) - 1)
                    \div (100 * fastest(ref, cand, w))}), MaxBatch})

Throughput(bytes, elapsed) == (bytes * Second) \div elapsed
Throughputs(b, name) ==
    MapThenSumSet(LAMBDA k : Throughput(b.samples[k].runs, b.samples[k][name]), DOMAIN b.samples)
Latencies(b, w, name) == [r \in 1..Repetitions |-> b.samples[<<w, r>>][name]]
MeanRatioAtLeast(b, hundredths) ==
    100 * Throughputs(b, "candidate") >= hundredths * Throughputs(b, "reference")
LatencyRatioAtMost(b, hundredths) ==
    \A w \in BenchWorkloads :
        100 * percentile(Latencies(b, w, "candidate"), 99, 100)
            <= hundredths * percentile(Latencies(b, w, "reference"), 99, 100)

\* Defect: the latency limit is forgotten.
benchmark_unlimited(ref, cand) ==
    LET sample(w, r) == LET n == batch_iterations(ref, cand, w)
                        IN [runs |-> n, reference |-> n * elapsed_ns(ref, w, r),
                            candidate |-> n * elapsed_ns(cand, w, r)]
        b == [samples |-> [k \in BenchWorkloads \X (1..Repetitions) |-> sample(k[1], k[2])]]
    IN [status |-> Verdict(MeanRatioAtLeast(b, 115)),
        samples |-> b.samples]

benchmark(ref, cand) ==
    LET sample(w, r) == LET n == batch_iterations(ref, cand, w)
                        IN [runs |-> n, reference |-> n * elapsed_ns(ref, w, r),
                            candidate |-> n * elapsed_ns(cand, w, r)]
        b == [samples |-> [k \in BenchWorkloads \X (1..Repetitions) |-> sample(k[1], k[2])]]
    IN [status |-> Verdict(MeanRatioAtLeast(b, 115) /\ LatencyRatioAtMost(b, 110)),
        samples |-> b.samples]

BenchRuns(ref, cand) ==
    \A b \in {ref, cand}, w \in BenchWorkloads :
        execute(b, w, 4096, Plain).returncode \in {0, 1} /\ execute(b, w, 4096, Plain).metric # Missing

semantic_failure == [status |-> "FAIL", samples |-> <<>>]

SlowestSample(b, name) ==
    Min({Throughput(b.samples[k].runs, b.samples[k][name]) : k \in DOMAIN b.samples})

\* The three performance gates, from the samples.
derive_performance(b, differential, harness) ==
    LET recorded == b.samples # <<>>
        valid == /\ differential.status = "PASS" /\ harness.status = "PASS" /\ recorded
                 /\ \A k \in DOMAIN b.samples, name \in Names : b.samples[k][name] >= TargetNs
    IN [measurement_valid |-> Verdict(valid),
        benefit_threshold |-> Verdict(recorded /\ MeanRatioAtLeast(b, 115)),
        worst_regression  |-> Verdict(recorded /\ 100 * SlowestSample(b, "reference")
                                                     <= 110 * SlowestSample(b, "candidate"))]

----------------------------------------------------------------------------
(* Commands *)

run_generation == <<"generation">>
run_build      == run_generation \o <<"build">>
run_tests      == run_build \o <<"differential_tests", "mutation_test", "checkpoint_tests",
                    "sanitizer_tests", "structural_checks", "harness", "test-summary">>
run_benchmark  == run_build \o <<"differential_tests", "benchmark", "benchmark-summary">>
run_all        == run_tests \o <<"benchmark", "benchmark-summary", "environment_record",
                    "study-summary">>
derive         == GATES \o <<"derive_invariant", "derive_performance", "refresh_identities",
                    "rebind_documents", "derive_mncds", "refresh_index_and_manifest">>
package        == <<"identities", "gates", "invariant", "performance", "index", "manifest",
                    "mncds">> \o derive

\* run_study.py clears the results first; the other programs do not.
Steps(c) ==
    CASE c = "generate"  -> <<"clear">> \o run_generation
      [] c = "build"     -> <<"clear">> \o run_build
      [] c = "test"      -> <<"clear">> \o run_tests
      [] c = "benchmark" -> <<"clear">> \o run_benchmark
      [] c = "harness-regression" -> <<"clear">> \o run_generation \o <<"harness">>
      [] c = "all"       -> <<"clear">> \o run_all
      [] c = "evidence"  -> <<"clear">> \o run_all \o <<"make">>
      [] c = "smoke"     -> run_build \o <<"smoke", "harness">>
      [] c = "package"   -> package
      [] c = "derive"    -> derive
Commands == {"generate", "build", "test", "benchmark", "harness-regression", "all",
             "evidence", "smoke", "package", "derive"}

Init ==
    /\ reference \in References /\ machine = specialize(reference)
    /\ compilers \in InitCompilers
    /\ binaries = [b \in Names \X {"gcc", "clang"} |-> Missing]
    /\ checkpoints = [n \in Names |-> Missing]
    /\ results = [f \in ResultFiles |-> Missing] /\ about = results
    /\ identities = [i \in IdentityNames |-> Missing]
    /\ gates = [g \in {GATES[i] : i \in DOMAIN GATES} |-> Missing]
    /\ invariant = Missing /\ performance = Missing /\ index = Missing /\ manifest = Missing
    /\ mncds = [benefit_met |-> TRUE, harness |-> Missing, results |-> [g \in LedgerGates |-> "PASS"]]
    /\ command = "none" /\ todo = <<>> /\ last = [command |-> "none", code |-> 0, ended |-> TRUE]
    /\ outcomes = {} /\ hashes = Missing /\ statuses = {} /\ replacements = {}
    /\ quiet = TRUE /\ edits = 0 /\ commands = 0

start ==
    /\ command = "none" /\ commands < MaxCommands
    /\ \E c \in Commands : command' = c /\ todo' = Steps(c)
    /\ commands' = commands + 1 /\ quiet' = TRUE /\ last' = [command |-> "none", code |-> 0, ended |-> TRUE]
    /\ UNCHANGED <<sources, build, results, about, evidence, locals>>

Step(name) == todo # <<>> /\ Head(todo) = name

Proceed == todo' = Tail(todo) /\ UNCHANGED <<command, last, quiet, commands>>

Leaves(code, ended) ==
    /\ last' = [command |-> command, code |-> code, ended |-> ended]
    /\ command' = "none" /\ todo' = <<>>
    /\ outcomes' = {} /\ hashes' = Missing /\ statuses' = {} /\ replacements' = {}
    /\ UNCHANGED <<quiet, commands>>

Ends(code) == Leaves(code, TRUE)

\* An exception that nothing catches.
Raises == Leaves(1, FALSE)

clear_results ==
    /\ Step("clear") /\ Proceed
    /\ results' = [f \in ResultFiles |-> Missing]
    /\ UNCHANGED <<sources, build, about, evidence, locals>>

\* A result is written once it is complete; the sources it is about and the
\* command it belongs to are history.
Write(file, value, ref, cand) ==
    /\ results' = [results EXCEPT ![file] = value]
    /\ about' = [about EXCEPT ![file] = [reference |-> ref, machine |-> cand, run |-> commands]]
    /\ outcomes' = outcomes \cup {value.status}
    /\ Proceed /\ UNCHANGED <<evidence, hashes, statuses, replacements>>

generate_candidate ==
    /\ Step("generation")
    /\ machine' = specialize(reference)
    /\ Write("generation",
             [status |-> Verdict(reference.stable), candidate_sha256 |-> machine',
              reference_sha256 |-> reference], reference, machine')
    /\ UNCHANGED <<reference, compilers, edits, build>>

\* A source that does not compile leaves the binary that was there.
build_all ==
    LET source == [n \in Names |-> IF n = "reference" THEN reference ELSE machine]
        built  == {n \in Names : source[n].compiles}
    IN /\ Step("build")
       /\ binaries' = [b \in Names \X {"gcc", "clang"} |->
              IF b[2] \in compilers /\ b[1] \in built
              THEN [source |-> source[b[1]], compiler |-> b[2]] ELSE binaries[b]]
       /\ Write("compiler-matrix",
                [status |-> IF compilers = {} THEN "UNKNOWN" ELSE Verdict(built = Names),
                 compilers |-> compilers], reference, machine)
       /\ UNCHANGED <<sources, checkpoints>>

Bins == [n \in Names |-> program(n)]
Runnable == \A n \in Names : Bins[n] # Missing

\* An evaluator runs the programs it finds, or ends the command.
Evaluate(step, file, defined, value) ==
    /\ Step(step)
    /\ IF Runnable /\ defined
       THEN Write(file, value, Bins["reference"].source, Bins["candidate"].source)
       ELSE Raises /\ UNCHANGED <<results, about, evidence>>
    /\ UNCHANGED sources

differential ==
    /\ Evaluate("differential_tests", "differential", TRUE,
                differential_tests(Bins["reference"], Bins["candidate"]))
    /\ UNCHANGED build

mutation ==
    /\ Evaluate("mutation_test", "mutation", HasMetrics(Bins["reference"], Bins["candidate"]),
                mutation_test(Bins["reference"], Bins["candidate"]))
    /\ UNCHANGED build

checkpoint_recovery ==
    LET left(n) == AfterFaults(Bins[n], checkpoints[n])
        saves   == \A n \in Names : FirstHalf(Bins[n], checkpoints[n]).checkpoint # Missing
    IN /\ Evaluate("checkpoint_tests", "checkpoint-recovery", saves,
                   checkpoint_tests(Bins, checkpoints))
       /\ checkpoints' = [n \in Names |-> IF Runnable THEN left(n)[4] ELSE checkpoints[n]]
       /\ UNCHANGED binaries

sanitizers ==
    /\ Step("sanitizer_tests")
    /\ Write("sanitizers", sanitizer_tests({reference, machine}), reference, machine)
    /\ UNCHANGED <<sources, build>>

structural ==
    /\ Step("structural_checks")
    /\ Write("structural", structural_checks(machine), reference, machine)
    /\ UNCHANGED <<sources, build>>

harness_regression ==
    /\ Step("harness")
    /\ Write("harness-regression", run_harness_regression(machine), reference, machine)
    /\ UNCHANGED <<sources, build>>

\* No measurement once the outputs differ.
measure ==
    LET ref == Bins["reference"]
        cand == Bins["candidate"]
        identical == results["differential"].status = "PASS"
    IN /\ Evaluate("benchmark", "benchmark", identical => BenchRuns(ref, cand),
                   IF identical THEN benchmark(ref, cand) ELSE semantic_failure)
       /\ UNCHANGED build

environment_record ==
    /\ Step("environment_record")
    /\ Write("environment", [status |-> "PASS", compilers |-> compilers, captured_at |-> commands],
             reference, machine)
    /\ UNCHANGED <<sources, build>>

\* Nothing reads the summaries; each repeats what its command found so far.
summary(file) ==
    /\ Step(file)
    /\ Write(file, [status |-> IF file = "benchmark-summary" THEN results["benchmark"].status
                               ELSE aggregate(outcomes)], reference, machine)
    /\ UNCHANGED <<sources, build>>

\* The candidate repeats the reference's output before the harness is run.
smoke ==
    /\ Step("smoke")
    /\ IF /\ outcomes = {"PASS"} /\ Runnable
          /\ \A w \in {"edge-cases", "hostile"}, c \in FewChunks :
                Same(execute(Bins["reference"], w, 3, Plain),
                     execute(Bins["candidate"], w, c, Plain))
       THEN Proceed /\ UNCHANGED locals
       ELSE Ends(1)
    /\ UNCHANGED <<sources, build, results, about, evidence>>

\* make runs package_evidence.py only if run_study.py returned 0.
make ==
    /\ Step("make")
    /\ IF aggregate(outcomes) = "PASS"
       THEN todo' = package /\ UNCHANGED <<command, last, quiet, commands, locals>>
       ELSE Ends(Code(aggregate(outcomes)))
    /\ UNCHANGED <<sources, build, results, about, evidence>>

exit_code == IF command \in {"package", "derive", "evidence"} THEN Code(aggregate(statuses))
             ELSE IF command = "smoke" THEN IF outcomes = {"PASS"} THEN 0 ELSE 1
             ELSE Code(aggregate(outcomes))

exit ==
    /\ command # "none" /\ todo = <<>>
    /\ Ends(exit_code)
    /\ UNCHANGED <<sources, build, results, about, evidence>>

----------------------------------------------------------------------------
(* evidence_bundle.py: the graph, every gate of it PASS for now. *)

Present(files) == \A f \in files : results[f] # Missing
unchanged_study == UNCHANGED <<sources, build, results, about>>
Original(name, of)  == [first |-> <<name, of>>]
Revised(name, of) == [second |-> <<name, of>>]

create_identities ==
    /\ Step("identities")
    /\ IF Present({"benchmark", "environment"})
       THEN /\ identities' = [i \in IdentityNames |->
                  Original(i, IF i \in {"environment", "compiler"}
                           THEN results["environment"].compilers ELSE {})]
            /\ hashes' = [reference |-> reference, machine |-> machine]
            /\ Proceed /\ UNCHANGED <<outcomes, statuses, replacements>>
       ELSE Raises /\ UNCHANGED identities
    /\ unchanged_study /\ UNCHANGED <<gates, invariant, performance, index, manifest, mncds>>

Bound(status) ==
    [status |-> status, machine |-> hashes.machine, reference |-> hashes.reference,
     evaluator |-> identities["evaluator"], environment |-> identities["environment"]]

create_gate_results ==
    /\ Step("gates") /\ Proceed
    /\ gates' = [g \in DOMAIN gates |-> Bound("PASS")]
    /\ unchanged_study
    /\ UNCHANGED <<identities, invariant, performance, index, manifest, mncds, locals>>

create_invariant ==
    /\ Step("invariant") /\ Proceed
    /\ invariant' = Bound("PASS")
    /\ unchanged_study
    /\ UNCHANGED <<identities, gates, performance, index, manifest, mncds, locals>>

\* A benchmark without samples, because the outputs differed, ends the command.
create_performance_result ==
    LET b == results["benchmark"]
    IN /\ Step("performance")
       /\ IF b # Missing /\ b.samples # <<>>
          THEN /\ performance' = [Bound(b.status) EXCEPT !.status =
                     [gate \in PerformanceGates |-> b.status]]
                  @@ [i \in {"benchmark", "compiler", "build", "corpus"} |-> identities[i]]
                  @@ [samples |-> b.samples]
               /\ Proceed /\ UNCHANGED locals
          ELSE Raises /\ UNCHANGED performance
       /\ unchanged_study
       /\ UNCHANGED <<identities, gates, invariant, index, manifest, mncds>>

\* The digests of everything the graph consists of.
Digests(files) ==
    [reference |-> reference, machine |-> machine, identities |-> identities, gates |-> gates,
     invariant |-> invariant, performance |-> performance, raw |-> [f \in files |-> results[f]]]

create_evidence_index ==
    /\ Step("index")
    /\ IF Present(Indexed)
       THEN index' = Digests(Indexed) /\ Proceed /\ UNCHANGED locals
       ELSE Raises /\ UNCHANGED index
    /\ unchanged_study /\ UNCHANGED <<identities, gates, invariant, performance, manifest, mncds>>

create_manifest ==
    /\ Step("manifest") /\ Proceed
    /\ manifest' = [machine |-> machine, reference |-> reference,
                    generator |-> identities["generator"], environment |-> identities["environment"],
                    evidence_index |-> index, final_status |-> "PASS"]
    /\ unchanged_study
    /\ UNCHANGED <<identities, gates, invariant, performance, index, mncds, locals>>

update_mncds_record ==
    /\ Step("mncds") /\ Proceed
    /\ mncds' = [mncds EXCEPT !.benefit_met = MeanRatioAtLeast(performance, 115)]
    /\ unchanged_study
    /\ UNCHANGED <<identities, gates, invariant, performance, index, manifest, locals>>

----------------------------------------------------------------------------
(* derive_evidence.py *)

derive_gate(g) ==
    /\ Step(g)
    /\ IF Present({g, "environment"}) /\ gates[g] # Missing
       THEN /\ gates' = [gates EXCEPT ![g].status = results[g].status]
            /\ statuses' = statuses \cup {results[g].status}
            /\ Proceed /\ UNCHANGED <<outcomes, hashes, replacements>>
       ELSE Raises /\ UNCHANGED gates
    /\ unchanged_study
    /\ UNCHANGED <<identities, invariant, performance, index, manifest, mncds>>

derive_invariant ==
    /\ Step("derive_invariant")
    /\ IF invariant # Missing
       THEN /\ invariant' = [invariant EXCEPT !.status = gates["structural"].status]
            /\ Proceed /\ UNCHANGED locals
       ELSE Raises /\ UNCHANGED invariant
    /\ unchanged_study /\ UNCHANGED <<identities, gates, performance, index, manifest, mncds>>

derive_performance_record ==
    LET derived == derive_performance(results["benchmark"], results["differential"],
                                      results["harness-regression"])
    IN /\ Step("derive_performance")
       /\ IF Present({"benchmark", "differential", "harness-regression"}) /\ performance # Missing
          THEN /\ performance' = [performance EXCEPT !.status = derived]
               /\ statuses' = statuses \cup {derived[g] : g \in DOMAIN derived}
                                     \cup {results["harness-regression"].status}
               /\ Proceed /\ UNCHANGED <<outcomes, hashes, replacements>>
          ELSE Raises /\ UNCHANGED performance
       /\ unchanged_study /\ UNCHANGED <<identities, gates, invariant, index, manifest, mncds>>

Refreshed == {"evaluator", "benchmark", "environment", "compiler", "build"}

\* Five identities get new contents; what was bound to the old ones is to be
\* rebound.
refresh_identities ==
    LET of == [evaluator |-> results["benchmark"], benchmark |-> results["benchmark"],
               environment |-> results["environment"], compiler |-> results["environment"].compilers,
               build |-> results["compiler-matrix"]]
        new == [i \in IdentityNames |-> IF i \in Refreshed THEN Revised(i, of[i]) ELSE identities[i]]
    IN /\ Step("refresh_identities")
       /\ IF Present({"benchmark", "environment", "compiler-matrix"})
              /\ \A i \in Refreshed : identities[i] # Missing
          THEN /\ identities' = new
               /\ replacements' = {<<identities[i], new[i]>> : i \in Refreshed}
               /\ Proceed /\ UNCHANGED <<outcomes, hashes, statuses>>
          ELSE Raises /\ UNCHANGED identities
       /\ unchanged_study /\ UNCHANGED <<gates, invariant, performance, index, manifest, mncds>>

\* _replace_values: every value that is an old identity becomes the new one.
_replace_values(document) ==
    [field \in DOMAIN document |->
        IF field \in IdentityNames /\ \E r \in replacements : r[1] = document[field]
        THEN (CHOOSE r \in replacements : r[1] = document[field])[2] ELSE document[field]]

\* Defect: the performance record is forgotten.
rebind_documents_partly ==
    /\ Step("rebind_documents")
    /\ IF manifest # Missing
       THEN /\ gates' = [g \in DOMAIN gates |-> _replace_values(gates[g])]
            /\ invariant' = _replace_values(invariant) /\ UNCHANGED performance
            /\ manifest' = _replace_values(manifest)
            /\ Proceed /\ UNCHANGED locals
       ELSE Raises /\ UNCHANGED <<gates, invariant, performance, manifest>>
    /\ unchanged_study /\ UNCHANGED <<identities, index, mncds>>

rebind_documents ==
    /\ Step("rebind_documents")
    /\ IF manifest # Missing
       THEN /\ gates' = [g \in DOMAIN gates |-> _replace_values(gates[g])]
            /\ invariant' = _replace_values(invariant)
            /\ performance' = _replace_values(performance)
            /\ manifest' = _replace_values(manifest)
            /\ Proceed /\ UNCHANGED locals
       ELSE Raises /\ UNCHANGED <<gates, invariant, performance, manifest>>
    /\ unchanged_study /\ UNCHANGED <<identities, index, mncds>>

derive_mncds ==
    /\ Step("derive_mncds") /\ Proceed
    /\ mncds' = [benefit_met |-> performance.status.benefit_threshold = "PASS",
                 harness |-> results["harness-regression"].status,
                 results |-> [g \in LedgerGates |-> IF g \in DOMAIN gates THEN gates[g].status
                                                   ELSE performance.status[g]]]
    /\ unchanged_study
    /\ UNCHANGED <<identities, gates, invariant, performance, index, manifest, locals>>

refresh_index_and_manifest ==
    /\ Step("refresh_index_and_manifest")
    /\ IF index # Missing /\ Present(Indexed \cup {"harness-regression"})
       THEN /\ index' = Digests(Indexed \cup {"harness-regression"})
            /\ manifest' = [manifest EXCEPT !.evidence_index = index',
                                            !.final_status = aggregate(statuses)]
            /\ Proceed /\ UNCHANGED locals
       ELSE Raises /\ UNCHANGED <<index, manifest>>
    /\ unchanged_study /\ UNCHANGED <<identities, gates, invariant, performance, mncds>>

----------------------------------------------------------------------------
(* Others: a command is killed, a source or the set of compilers changes. *)

crash ==
    /\ command # "none"
    /\ Leaves(137, FALSE)
    /\ unchanged_study /\ UNCHANGED evidence

edit ==
    /\ edits < MaxEdits /\ edits' = edits + 1 /\ quiet' = FALSE
    /\ \/ reference' \in Revisions \ {reference} /\ UNCHANGED <<machine, compilers>>
       \/ machine' \in Strays \ {machine} /\ UNCHANGED <<reference, compilers>>
       \/ compilers' \in InitCompilers \ {compilers} /\ UNCHANGED <<reference, machine>>
    /\ UNCHANGED <<build, results, about, evidence, locals, command, todo, last, commands>>

Next ==
    \/ start \/ clear_results \/ generate_candidate \/ build_all \/ differential \/ mutation
    \/ checkpoint_recovery \/ sanitizers \/ structural \/ harness_regression \/ measure
    \/ environment_record \/ (\E f \in Summaries : summary(f)) \/ smoke \/ make \/ exit
    \/ create_identities \/ create_gate_results \/ create_invariant \/ create_performance_result
    \/ create_evidence_index \/ create_manifest \/ update_mncds_record
    \/ (\E g \in DOMAIN gates : derive_gate(g)) \/ derive_invariant \/ derive_performance_record
    \/ refresh_identities \/ rebind_documents \/ derive_mncds \/ refresh_index_and_manifest
    \/ crash \/ edit

Spec == Init /\ [][Next]_vars

----------------------------------------------------------------------------
(* Properties *)

BoundTo(document) ==
    \A i \in DOMAIN document \cap IdentityNames : document[i] = identities[i]

Packaged ==
    last.ended /\ (last.command = "package" \/ (last.command = "evidence" /\ last.code = 0))

\* When package_evidence.py comes to its end, with whatever code, and nobody
\* changed the sources meanwhile, the graph on disk is whole (derive_evidence
\* lines 382-471): every gate has the status of its result, no document is
\* bound to an identity that was refreshed, the index digests the files as
\* they are, the manifest digests the index and the development record repeats
\* the gates, whatever an earlier command that was killed left behind.
BundleWhole ==
    Packaged /\ quiet =>
        /\ \A g \in DOMAIN gates : gates[g].status = results[g].status /\ BoundTo(gates[g])
        /\ BoundTo(invariant) /\ BoundTo(performance) /\ BoundTo(manifest)
        /\ index = Digests(DOMAIN index.raw) /\ manifest.evidence_index = index
        /\ \A g \in LedgerGates \cap DOMAIN gates : mncds.results[g] = results[g].status
        /\ last.code = Code(manifest.final_status)
        /\ last.code = 0 => \A f \in ResultFiles \ ({"benchmark", "generation"} \cup Summaries) :
                               results[f].status = "PASS"

\* What make evidence calls a pass was earned by this candidate (run_study
\* lines 45-48 and 127-184): every result is of this one run and about the
\* sources in the manifest, and the latency limit, which the gates do not look
\* at, was kept.  gcc must not have gone while its binaries are still there.
EvidencePassEarned ==
    last = [command |-> "evidence", code |-> 0, ended |-> TRUE] /\ quiet
    /\ ("gcc" \in compilers \/ binaries["candidate", "gcc"] = Missing) =>
        /\ \A f \in ResultFiles : /\ results[f].status = "PASS"
                                  /\ about[f] = [reference |-> manifest.reference,
                                                 machine |-> manifest.machine, run |-> commands]
        /\ LatencyRatioAtMost(results["benchmark"], 110)
        /\ manifest.machine = machine /\ manifest.final_status = "PASS"
=============================================================================
