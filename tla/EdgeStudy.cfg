\* Two commands and one change by others, in any order; every reference
\* variant and every set of compilers at the start.
CONSTANTS
    References <- MCReferences
    Revisions <- MCRevisions
    Strays <- MCStrays
    specialize <- MCSpecialize
    execute <- MCExecute
    elapsed_ns <- MCElapsed
    WORKLOADS = {"steady", "hostile", "edge-cases"}
    CHUNKS = {1, 3}
    MUTATIONS <- MCMutations
    FewChunks = {1}
    CORRUPTIONS = {"bad-magic", "truncated-payload"}
    BenchWorkloads = {"steady", "high-cardinality"}
    Repetitions = 2
    TargetNs = 20
    MaxBatch = 4
    Second = 120
    InitCompilers = {{"gcc", "clang"}, {"clang"}, {}}
    MaxEdits = 1
    MaxCommands = 2
SPECIFICATION Spec
\* the bounds on commands and changes end every behaviour
CHECK_DEADLOCK FALSE
INVARIANTS BundleWhole EvidencePassEarned
