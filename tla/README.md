# Verification of the MNCS reference studies

TLA+ models of the programs in `src/`, the TLC runs that check them on small
instances, and TLAPS proofs of the results that matter most. `PROJECT.json` lists
components, runs, mutants, the map from definitions to source lines, findings,
hazards and theorems.

## 1. The system

The repository is a collection of case studies. Each is a small program with a
readable authority, a generated or replaceable part, and a claim that the whole stays
within a contract whatever the replaceable part does. They share few lines of code;
one study feeds another (EdgeStream into remote water), the Forge wrapper runs them all
as child processes and the project provider answers questions about their records. Two
studies also have programs that build, measure and evaluate them and pack the results
into records others rely on; these keep their state in files.

| Component | State | Operations | What is hard |
|---|---|---|---|
| Water safety kernel (`safety.py`) | none; reads `ControllerState` | `authorize`, `_apply_dwell`, `_hold` | order of the early returns; two pumps adjudicated separately |
| Water controller (`controller.py`, `journal.py`, `checkpoint.py`) | state, hash-chained journal, counters, checkpoint file | `decide`, `append`, `write_checkpoint`, `restore` | crash in or between the steps of a save; a journal that survives only as a tail hash |
| Water twin (`simulator.py`, `planner.py`, `machine/generated_planner.py`) | plant, last good telemetry | one loop step, restart | stale telemetry with a moving plant; dwell across a restart |
| Go gateway (`gateway.go`) | channels, wait group, context | `ParseTrace`, `Order`, `Run` | goroutines, cancellation, closing channels |
| Forge wrapper (`forge_workflow.py`) | child, pipes, selector, deadline | `run_workflow`, `_terminate` | exit, EOF, deadline and cap in any order; a grandchild holding the pipes |
| Composed host (`wave-three/go-host/main.go`, Rust authority) | checkpoint in memory and on disk, authority process | `execute`, `runAuthority`, `processReadable`, `writeCheckpoint` | crash and resume, partial answers, replacement in mid-run |
| EdgeStream (`edgestream_reference.c`, `edgestream_cli.c`) | parser buffer, device table, rolling windows, alarms, checkpoint file | `es_process_bytes`, `es_finish`, `es_checkpoint`, `es_restore` | fragments, duplicates, rollover, restart flag, ring buffers, 32-bit values |
| CacheForge (`simulator.py`, `authority.py`, `policies.py`, `machine/generated_policy.py`) | block table, key index, owners, sliding windows, checkpoint | `process`, `_access`, `authorize_eviction`, `checkpoint`, `restore_state` | a full cache, proposals that cannot be trusted, ownership kept in three places |
| EdgeStream to water adapter (`edgestream-remote-water-integration/tools/run_study.py`) | last sequence, values waiting for their partner | `accept` | a stricter sequence rule than the stream it reads; pairs by time |
| Forge project provider (`project_provider.py`, `project_provider_hardened.py`) | none but the files it reads | `handle` and its four methods, `emit` | files that change between a check, a `stat` and a read; one bounded answer whatever fails |
| RAVEL 0.5 evidence (`ravel_0_5_evaluator.py`, `_evidence.py`, `_source_digest.py`) | the six files of a package, the binary, the sources | `generate`, `verify`, `mutation-tests`, `manifest-negative-tests`, `development-gates` | a package written file by file; sources read one by one; self-tests that must really test |
| EdgeStream study (`run_study.py`, `study_evaluation.py`, `evidence_*.py`, `derive_evidence.py`, `smoke.py`) | sources, binaries, result files, the evidence graph | ten commands, each a list of files it writes | killed commands, binaries older than their sources, a graph first written as PASS and corrected afterwards |
| RAVEL itself, multilingual stream, wave-four and wave-five hosts, recursive studies, validators | see `PROJECT.json` | | not modelled, see section 8 |

What makes each one correct is in section 3, with the runs.

## 2. Modules

| Module | Models | Extends |
|---|---|---|
| `WaterSafety` | the types of `model.py`, `SafetyKernel`, `_classify_intervention`, `_apply_intent`, as operators | |
| `WaterControl` | `Controller`, `IntentJournal` and the checkpoint file under crashes | `WaterSafety` |
| `WaterTwin` | `run_scenario`: plant, telemetry, planners, restart | `WaterSafety` |
| `Gateway`, `GatewayContract` | `Gateway.Run` with all its goroutines; what a caller sees of it | |
| `ForgeWorkflow` | the supervisor and, as its environment, child and helper | |
| `ComposedHost` | one host process at a time over one checkpoint file | |
| `EdgeStream` | processor and command-line driver over one checkpoint file | |
| `EdgeWater` | the water adapter over the events `EdgeStream` puts out | `EdgeStream` |
| `CacheForge` | `CacheSimulator` with its policies and the authority | |
| `ForgeProvider` | one request to the project provider, either entry point, in a tree of files that others change | |
| `RavelEvaluator` | the independent evaluator, as operators: admissibility, metrics, gates, comparisons | |
| `RavelEvidence` | the commands that make and check the package, over sources, binary and files | `RavelEvaluator` |
| `EdgeStudy` | the commands of the EdgeStream study and its packaging, over sources, binaries and files | |
| `WaterControlProofs`, `WaterTwinProofs`, `CacheForgeProofs`, `GatewayProofs`, `ForgeWorkflowProofs`, `ComposedHostProofs`, `ForgeProviderProofs` | lemmas and theorems | the module each is named after |
| `EdgeStreamProofs` | the same, for processor and adapter | `EdgeWater` |
| `MCWaterControl`, `MCGateway`, `MCComposedHost`, `MCCacheForge`, `MCForgeProvider`, `MCRavelEvidence`, `MCEdgeStudy` | values of the constants for TLC | the module each is named after |
| `MCEdgeStream` | the same, for processor and adapter together | `EdgeWater` |

Actions carry the names of the functions they model; a function with a blocking or
crashable point in its middle is several actions (`write_temporary` and `replace` for
`write_checkpoint`). Definitions preceded by a comment that begins "Defect" or "Mutant" are
deliberately wrong variants: the mutants listed in `PROJECT.json` substitute them to
show that each property can fail.

Correspondence of the state, where it is not the variable of the same name:

* **WaterControl.** `file` and `temporary` are the two paths of `write_checkpoint`.
  `saving` says that the call is between its two steps. `chain` is a history variable:
  all entries of the chain that the running journal continues. A clock of single units
  replaces seconds; `Hash` is a constant operator.
* **WaterTwin.** Volumes are percent points per step, integers. `planner = "any"`
  stands for every planner, including broken ones, since the kernel claims to be safe
  for all. `duty_since` and `supplied` are history variables.
* **Gateway.** Requests keep an id and a delay class. `in`, `queue`, `job` and `out`
  are the slice, what the feeder still has to send, what each worker holds, and the
  collected results. A timer may fire at any moment: delays order requests, they do
  not measure time.
* **ForgeWorkflow.** Output is counted in units of one read (64 KiB, also the size of
  a pipe). `writers` says who holds each pipe's write end; `expired` is the deadline,
  which passes at any moment after the child was started. `killpg` may fail with an
  OSError, which the code answers in two ways.
* **ComposedHost.** A digest is the tuple of what is hashed. A frame the C parser
  refuses is a negative number. `build` stands for the three binding identities.
* **EdgeStream.** A frame is four symbols (two magic bytes, the length, the rest), so
  every cut of the real 32-byte frame that the parser can tell apart is a cut of the
  model's. `history` keeps all accepted values per metric, `origin` the state a run
  started from.
* **CacheForge.** One action is one `_access` with `_advance_sliding` behind it;
  `accesses` says how far the two nested loops of `process` are. A key carries what its
  text tells the code (kind, shared). `raised` is the RuntimeError that ended
  `process`. The 64 ranks of the generated table are the generator's sum of weights.
  The policy `"arbitrary"` proposes anything.
* **EdgeWater.** The adapter has no variable: what it has delivered and whether it
  refused is a fold of `accept` over the events of the run (`Adapted`), which is how
  `run_study.py` calls it, on the finished output of the processor. Timestamps are
  brought down to whole seconds as in the code (`Second` is 1000 there); levels and demands
  stay in thousandths, since the division by 1000.0 only changes their unit.
* **ForgeProvider.** A path is a sequence of names, a file a record of its bytes, size
  and parsed content. `pc` stops at every point where the code goes back to the file
  system, and only there may others `edit`. `seen` is history: all nodes a path has had
  since the record was loaded; `linked` where a link was put since the last check of a
  path; `reads` each read of the answer, with the path that was asked for and the file
  that was really opened. `stat`, `open` and the validator follow a link at the file or
  at a directory above it (`Real`); a link leads to no other link, which is the same as
  one to the end of the chain. A digest is what was digested; the validator library is a
  constant operator that has a category for every file it can open.
* **RavelEvidence.** `pkg` are the files of `PACKAGE_PATHS`, `tree` the sources, `bin`
  what `make` built from some version of them. `locals` are the values a command
  carries from one step to the next. A step is one source file opened (each is opened
  twice, for its entry and for the framed digest) or one process of the binary (two for
  each trial and for the self tests), so that edits and rebuilds come between them; the
  temporary copies for the manifest mutations and the whole of a self-test command are
  one step each. A JSON object keeps the fields the evaluator looks
  into and a set `flaws` that stands for everything the schema checks could find. Rates
  are fractions; a root mean square is kept as its mean square. Of the metrics that are
  formed alike, `derive_trial_metrics` has one of each kind.
* **EdgeStudy.** A command is the list of its steps (`todo`), one per file or group of
  files it writes, so that `crash` may come between any two. `outcomes`, `hashes`,
  `statuses` and `replacements` are its local values. `about` is history: of which
  sources and which command each result is. The files of one group (the gates while
  they are first written, the five identities, the documents that are rebound) are
  written in one step; a kill inside a group leaves what a kill next to it leaves as
  far as the next `package` is concerned, because that writes all of them anew. The
  bindings inside the development record are left out, its statuses are not.

## 3. Runs

| Run | Question | Result |
|---|---|---|
| `water_control` | Do decisions, saves, crashes and restores keep lead-lag, chain, checkpoint and counters consistent? | holds |
| `water_twin` | With the plant in the loop and any planner: supply, spilling, dwell across restart, order of the planners' requests | holds |
| `water_power` | Does loss of power always give an all-off intent, as the contract profile says? | violated |
| `gateway` | Every interleaving of `Run`: no send on a closed channel, no leak, implements `GatewayContract` | holds |
| `forge_workflow` | PASS means exit code 0 and the whole output, within the cap; no child left; output bounded; returns unless a helper holds a pipe | holds |
| `composed_host` | Does every sequence of failing, replaced, crashed and resumed runs end with the output of an undisturbed one? | holds |
| `edgestream` | Independence of fragmentation, windows and alarms against the history, checkpoints, and what the water adapter delivers and refuses | holds |
| `edge_overflow` | Does a metric retain the normalized values it accepted, as the contract says? | violated |
| `cacheforge` | Under every policy, good or bad: is the cache valid at every step, is nothing in use evicted, does no owner stay behind, do only requests that fill the cache fail? | holds |
| `forge_provider` | While files change under its hands: is every PASS one that the files justified, does a complete envelope name what was opened, does a deletion count, is every request answered once? | holds |
| `ravel_evidence` | After kills and edits: does `verify` accept only a package that belongs together and, if all is quiet, is of one version, and do the recorded mutations really fail? | holds |
| `edge_study` | After kills, edits and failed builds: is a finished bundle whole, and was a PASS earned by the candidate it names? | holds |

**The two violated statements.**
`water_power`: stale or conflicting telemetry is held before power is looked at, so a
pump stays authorized through a power loss (the plant model itself does not run a pump
without power). `edge_overflow`: a version 2 measurement is multiplied by ten in 64 bits
and stored in the window in 32 (`edgestream_reference.c` lines 107 and 159), so that
beyond the range it is reported as one number and retained, averaged and compared with
the alarm limits as another. `PROJECT.json` quotes the line each contradicts.

**Seen while modelling, without a run of their own.**

* After the child's exit `forge_workflow.py` reads its pipes with a blocking `os.read`
  (line 268): a grandchild that inherited one keeps the wrapper there past the deadline.
  `ReturnsUnlessHelper` is liveness with this one exception, and TLC finds the hang when
  the exception is left out.
* The wrapper's loop is complete when both pipes have ended. A child that closes them and
  works on is sent SIGTERM by the `finally` clause (lines 282-283), and if it then exits
  with 0 the status is PASS. `PassHasWholeOutput` states this case, and that no other
  signal goes with a PASS.
* The kernel drops standby with duty without asking for standby's own minimum on-time
  (`safety.py` line 72), so `DutyDwellHonoured` is about duty only.
* The provider checks a path for links and then opens it by name: a link put there in
  between is followed, also to a protected file, and the envelope names the path asked
  for. `EnvelopeWhole` states this exception; TLC reaches it.
* Four inputs of the provider raise what nobody catches and get a traceback in place of a
  line: a method or kind that is a list or an object (`TypeError`), a request with an
  integer beyond Python's digit limit (a plain `ValueError`) or with deep nesting
  (`RecursionError`), and a record with deep nesting. `AnswersOnce` names them.
* The RAVEL evaluator never consults `all_integrity_gates_required`, and nothing binds
  the RAVEL binary to the listed sources.
* `program` in the EdgeStream study prefers gcc's binaries even when gcc is gone and they
  are old; `EvidencePassEarned` excludes that case. A bundle whose packaging was killed
  says PASS in every gate until the next one.

**Properties, by component.**
*Water control*: `StandbyRequiresDuty` (in memory and in the checkpoint),
`JournalContinuity` (the chain is unbroken from genesis and of one planner, the entries
kept in memory are its end, and a checkpoint restores to a place on it),
`CheckpointRestorable`, `EveryDecisionCounted`.
*Twin*: `SupplyHeld`, `OverflowOnlyWhenBlind`, `DutyDwellHonoured`,
`PlannersKeepLeadLag`.
*Gateway*: `NoSendOnClosed`, `KeepsContract` (refinement), `NoGoroutineLeak` (liveness).
*Forge wrapper*: `PassHasWholeOutput`, `NoChildLeft`, `OutputBounded`, `ReturnsUnlessHelper`
(liveness).
*Composed host*: `CheckpointResumable`, `SameOutput` (also: at every step the state is
that of a prefix of the input), `ResumeKeepsProgress`, `RunsEnd` (liveness).
*EdgeStream*: `FragmentationIndependent`, `WindowIsHistory` and
`HighAlarmFollowsHistory` (over the true normalized values: the first for each value that
fits 32 bits, the second for histories of such values), `NormalizedRetained` (without that
proviso, violated), `SilenceReportsAlternate`, `CheckpointKept`,
`RestoredWasSaved`; with the adapter: `AdapterDelivers` (a clean sender's samples
arrive as they were sent, with the second of their time) and `AdapterRefusesOnly` (the adapter's sequence rule fails
only after a restart, a rollover or a sequence 0, never because of the network).
*CacheForge*: `CacheValid`, `OwnersAreRunning`, `LiveBlocksStay`,
`RaisesOnlyWhenTooBig`.
*Forge provider*: `PassWasTrue`, `EnvelopeWhole` (record and artifacts in their order,
each read by one of these names and of the file of that name unless linked since its
check), `DeletedPathsCount`, `AnswersOnce` (liveness, and that the answer is bounded).
*RAVEL evidence*: `AcceptedPackageCoherent`, `MutationsCaught`,
`CandidateEqualsItself`.
*EdgeStream study*: `BundleWhole`, `EvidencePassEarned`.

## 4. Bounds

* `WaterControl`: `MaxTime` 3, more than both minimum times (2 and 1), so that dwell is
  both pending and over; samples on both sides of every threshold; two planners, so
  that a foreign checkpoint exists. Decisions, saves and crashes are bounded by time
  only.
* `WaterTwin`: four steps from levels next to each trip level; one demand below and
  one above the duty pump's flow. Both trips, a dwell, a stale window longer than a
  step and a restart at any place fit in.
* `Gateway`: up to three requests and three workers (more than the requests in one
  case, fewer in another), the limits themselves, and a trace for each refusal.
* `ForgeWorkflow`: four units written, caps of one and two units, so that the cap is
  missed, met and passed; one helper.
* `ComposedHost`: two values, so that there is a failure before, between and after
  them; two builds; runs without limit.
* `EdgeStream`: two devices and a third that finds the table full, a window of two,
  streams of up to three frames and four kinds of damage, three runs. The 32-bit range
  is scaled to `Int32Limit` and the alarm limits with it. The streams include clean
  ones of whole samples, which the adapter must deliver, and ones it must refuse.
* `CacheForge`: four blocks, a full and a sliding group with a window of one, three
  requests out of five: with a shared prefix, a repeated block, a cancellation,
  generated blocks, and one larger than the cache. So hits, evictions, windows that
  move and exhaustion all happen under each of the seven policies.

* `ForgeProvider`: two artifacts, two edits (one before and one after a read, or two
  between two reads) to any of some thirty new contents, among them links of a file and of
  a directory to visible and to protected places; every framing error, every method, JSON
  that `json.loads` gives up on in a request and in a record, nine spellings of a path; each size bound is met and passed.
* `RavelEvidence`: three commands, so that a package is generated, generated again in
  part and verified; one edit at any moment out of seventeen, and a build at any moment: binaries that are weak,
  inconsistent, flaky or incomplete, preregistrations that are invalid or laxer. Two
  regimes with one trial each and all seven variants the evaluator names.
* `EdgeStudy`: two commands and one edit, from ten references (good, and one for each
  thing an evaluator looks for) and three sets of compilers. One command leaves the
  files, the second finds them, and the edit may come before, between or inside them.

`CHECK_DEADLOCK FALSE` is set where the program, or the bound on commands, ends the
behaviour: in all runs but `cacheforge` and `forge_provider`.

## 5. Fairness

* `Gateway`: weak fairness of every goroutine that can act (the Go scheduler), none of
  cancellation.
* `ForgeWorkflow`: weak fairness of the supervisor and of the passing of time; the
  kernel delivers SIGKILL. Neither the child nor the helper is assumed to do anything
  of itself.
* `ComposedHost`: weak fairness of the host's own steps, which include the context's
  deadline; none of crashes, which may or may not happen.

* `ForgeProvider`: weak fairness of the provider's own steps, which never wait for
  anything but the file system; none of edits.

The safety-only modules (`WaterControl`, `WaterTwin`, `EdgeStream`, `CacheForge`,
`RavelEvidence`, `EdgeStudy`) state no fairness: their commands and calls run to their
end or die, and nothing is promised of what does not end.

## 6. Proofs

TLAPS checks the following for every value of the constants that satisfies the named
assumptions (`ASSUME` in the modules). Where a theorem has the name of a property of a
run behind an arrow, it states that property.

* **WaterControlProofs**: `Invariance`, and from it `TypeCorrect`, `StandbySafe`,
  `JournalSafe`, `CheckpointSafe` and `CountsSafe`. The properties are not inductive
  alone: a restored process takes everything from the file, and the file from the
  temporary file, so `IInv` states the same facts (`PayloadOK`) of every whole envelope
  on disk. No property of `Hash` is assumed. The module begins with the lemmas on
  `authorize`, `_apply_dwell`, `_apply_intent` and `_classify_intervention` (types,
  lead-lag, what a hold keeps); `WaterTwinProofs` has those it needs of its own (when an
  emergency trips).
* **WaterTwinProofs**: `TwinInvariance`, and from it `SupplyTheorem`,
  `OverflowTheorem` and `DutyDwellTheorem`. The assumptions are the margins: the low-low
  level covers one step of the largest demand and the high-high level leaves room for
  one step of both pumps. The invariant adds that the stored time of the last duty
  change is the true one, also across a restart. `TableTheorem`: the generated table,
  looked up with its index arithmetic, decides by `TablePolicy`, which is stated in percent,
  demand and quality without bands or index, for every sample and state; its lemma
  `TableLookup` (the index finds the entry that was generated) also carries
  `LeadLagTheorem` -> `PlannersKeepLeadLag`.
* **CacheForgeProofs**: `CacheInvariance`, and from it `CacheValidTheorem`,
  `OwnersTheorem` and `LiveBlocksTheorem`. `IInv` adds types, finiteness of the table
  (for the capacity) and, for `restore_state`, that a checkpoint's blocks are a valid
  table from which the index can be rebuilt and that nobody owns them. The policies are
  not looked into at all: the argument rests on `AuthorityIsSafe`, which says that the
  authority returns nothing or one resident block without owners, for any proposal.
  `RaisesTheorem` -> `RaisesOnlyWhenTooBig`: when no victim exists every resident block
  is owned, hence by the running request, hence still demanded by it; so what it demands
  fills the cache.
* **ForgeWorkflowProofs**: `WorkflowInvariance`, and from it `PassTheorem` ->
  `PassHasWholeOutput`, `NoChildTheorem` -> `NoChildLeft` and `OutputTheorem` ->
  `OutputBounded` (at most one read of 64 KiB above the cap). The invariant relates what
  was written to what is in the pipes and what was collected, says in which phases the
  child may still be unreaped, and after which outcomes it can have been signalled
  (`Signals`).
* **ComposedHostProofs**: `HostInvariance`, and from it `ResumableTheorem` ->
  `CheckpointResumable`, `OutputTheorem` -> `SameOutput` and, as an action property,
  `ProgressTheorem` -> `ResumeKeepsProgress`. The inductive part is that the checkpoint
  in memory and the one on disk are each the state of a prefix of the input under the
  bindings they name, that memory is never behind the disk, and what the authority still
  owes.
* **GatewayProofs**: `OrderTheorem` (the generated insertion sort returns a sorted
  permutation of any input), `GatewayInvariance` (every request is in exactly one place,
  only a cancellation loses one, channels close in order), `NoSendTheorem` ->
  `NoSendOnClosed`, and `ContractTheorem`: every step of `Gateway.Run` is a step of
  `GatewayContract` or a stutter. The contract is split into `CSafety` and its fairness
  (`CSpec`); the theorem is about the first, the run checks the whole.
* **EdgeStreamProofs**: two invariants, and the adapter on top of them.
  `RunnerInvariance`, and from it `FragmentationTheorem` -> `FragmentationIndependent`,
  `CheckpointTheorem` -> `CheckpointKept` and `RestoredTheorem` -> `RestoredWasSaved`.
  Its core is `ParseTwice`: to parse, keep the rest, append and parse again is to parse
  once. The argument has three parts: no operation on a frame looks at the parser buffer
  (the `...Blind` lemmas); an iteration of the loop decides by the symbols behind the
  offset only (`DecideSame`), so the two loops go in step; and the loop ends with less
  than a frame left (`ParseBufferIs`), which is also why half the buffer is always free
  and a delivery is never refused.
  `ProcessorInvariance`, and from it `WindowTheorem` -> `WindowIsHistory`,
  `HighAlarmTheorem` -> `HighAlarmFollowsHistory` and `SilenceTheorem` ->
  `SilenceReportsAlternate`. It says (`Fine`) of the processor, of the state the run
  started from and of what was saved last: each ring is the end of its history, in 32
  bits (`Holds`), which is the value itself where it fits; each sum over the ring is the difference of two running sums of the history
  (`Totals`, which makes the average independent of where the ring starts); the alarm is
  what the hysteresis rule makes of the history (`High`); no two slots have one device;
  and the records of the run, read from the alarms it started with, end with the alarms
  held (`Reports`). A delivery is, by `FragmentationTheorem`, one parse from the start of
  the run, so the invariant has to be shown for one loop only.
  `FinishedTheorem` says the same of a run that ended: its processor is `es_finish` of
  one parse of the whole input. So the adapter's properties, which are about the records
  of a finished run, are shown for one loop over one buffer, with `Fed`, the fold of
  `accept`, carried along record by record.
  `RefusesTheorem` -> `AdapterRefusesOnly`: supposing that no valid frame of the input
  restarts, has sequence 0 or is near the rollover (`Tame`), the processor's invariant
  together with `Sane` is kept by every frame, watermark and dropped symbol. `Sane` says
  that the sequence the adapter took last is the one its device's slot holds; so what
  `accept_frame` lets through is larger, and `accept` does not refuse.
  `DeliversTheorem` -> `AdapterDelivers`: after `i` frames of a clean sender the device's
  slot holds the sequence of the `i`-th frame, and the adapter (`Joined`) holds the
  samples of the first `i \div ES_MAX_METRICS` groups and, alone among the pending ones,
  the part of the group that is begun. `JoinStep` goes from `i` to `i + 1`; the few facts
  on quotients and remainders it needs are lemmas of their own. `ES_MAX_METRICS` is any
  positive number.
* **ForgeProviderProofs**: `ProviderInvariance`, and from it `PassTheorem` ->
  `PassWasTrue`, `EnvelopeTheorem` -> `EnvelopeWhole` and `DeletedTheorem` ->
  `DeletedPathsCount`. The properties speak of the answer only; `IInv` says what the
  provider knows at each of its stops: that what it holds of a file is something the file
  has held since the load (`TreeOK`, `RecordHeld`), that the reads so far went
  by the paths in the envelope, all visible, and opened the files of these names but where
  `linked` says otherwise (`Envelope`, with `Collected`), that the path about to be opened
  was free of links when it was checked (`Checked`), that the envelope is the record and
  the artifacts up to `index` (`Route`), and that the loop has found the artifacts
  before `index` under their supplied names, measured and digested (`Loop`). An edit
  between two stops changes the tree but only adds to `seen`, and that is why size and
  digest may come from two different versions of a file: the property does not say
  otherwise. `ImpactClosed` is the lemma behind the covered scope:
  `material_change_impact` runs as many rounds as there are dependencies, and as long as
  its set is not closed each round takes in one more, so it ends closed.

The recursive functions in these modules (the insertion sort, the loop over the buffer,
sums, the walk over the device table, the reading of the records) are reasoned about
with the least-number principle for sets of naturals, which follows from the library's
theorem that `<` is well-founded on `Nat`: a least index at which a claim fails is shown
not to exist. The library's induction theorems themselves take an operator, which the
installed provers cannot instantiate.

Assumptions on constants that the proofs added, all of them types of what the code can
be given: the streams are sequences of symbols whose frames have natural or integer
fields (`StreamsAssumption`), the alarm limits are integers (`SizesAssumption`), the
number that marks a watermark is no metric's (`WatermarkAssumption`; 0xffff against four
metrics in `edgestream.h`), the inputs of the host and the traces of the gateway are
sequences of the right kind. For the provider: a node is one of four kinds, the
validator's report one of three, a link leads to a path of the tree and the dependencies
of a JSON record are finitely many (`NodesAssumption`); what a request supplies are lists
of paths (`RequestsAssumption`); and no visible root lies inside a protected one or around
it (`RootsAssumption`, which is true of the two lists in `project_provider.py` and without
which the hardened entry point would answer differently from the names). Some
properties were restated in a form that can be reasoned about, without losing a case:
`SilenceReportsAlternate` reads the records with a recursive function, `OutputBounded`
says what it bounds for every supported policy, and `CleanSender` takes the frames of the
input by their place in it.

Only model-checked:

* liveness (`NoGoroutineLeak`, `ReturnsUnlessHelper`, `RunsEnd`, `AnswersOnce`) and the
  fairness part of `KeepsContract`: outside this prover;
* `AcceptedPackageCoherent`, `MutationsCaught` and `CandidateEqualsItself` of
  `RavelEvidence`, `BundleWhole` and `EvidencePassEarned` of `EdgeStudy`. These compare
  what long pure evaluations say of fixed tables of cases (seven variants, six files,
  the gates by name), in records that are built, merged and searched in many ways; what
  grows with a parameter is little (commands, edits), so a proof would repeat the
  tables case by case, which the runs do already.

## 7. Abstractions to keep in mind

Hashes do not collide in the runs. Files are written atomically by a rename and
durable once renamed. Floating-point levels are integers. Formatting, digests of
outputs, wording of reasons and timing figures are left out, except where a property
reads them (the records EdgeStream emits are kept, as kind, device and text).

## 8. Not modelled, and the plan

Not modelled, with the reason:

* RAVEL itself (`ravel_0_5.c` and its predecessors): numerical training, routing and
  planning. Its evidence tools are modelled with what the binary reports as a constant
  operator. The life of its experts (splits, births, retirements) and its checkpoint
  would be modules of their own, with distances as small integers.
* The RAVEL 0.4 tools, which the 0.5 tools supersede; the runtime observation and the
  aggregates of 0.5, which nothing reads back.
* Workload generation, bootstrap intervals, CPU pinning and the walk over the syntax
  tree in the EdgeStream study: pure computation or machine state that no status
  depends on in another way than `elapsed_ns` and `defects` already express.
* Wave four (a loopback service), waves one and two (a pipeline that wave three
  supersedes), wave five, and the other study tools of the composed gateway: see below.
* The multilingual stream: pure parsers that would be compared as operators.
* Validators of records, of the repository's layout and the recursive studies: one pass
  over files that keeps no state.

Next:

1. The wave-four service host, composed with `ComposedHost`.
2. RAVEL's topology and checkpoint.
3. Proofs about `RavelEvidence`: that a package `verify` accepts is of one run, for any
   number of regimes and trials.
