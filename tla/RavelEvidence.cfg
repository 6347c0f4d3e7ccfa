\* Three commands and one change: a package is generated, something changes,
\* it is generated in part or again, and verified.
CONSTANTS
    Paths <- MCPaths
    REQUIRED_ROLES <- MCRoles
    ShardPaths = {"code", "stray"}
    InitTree <- MCTree
    Edits <- MCEdits
    MaxEdits = 1
    MaxCommands = 3
    observe <- MCObserve
    self_tests <- MCSelfTests
SPECIFICATION Spec
\* the bounds on commands and changes end every behaviour
CHECK_DEADLOCK FALSE
INVARIANTS AcceptedPackageCoherent MutationsCaught CandidateEqualsItself
