\* Two edits: one before and one after any read, or two between two reads.
CONSTANTS
    Files <- MCFiles
    ALLOWED_ROOTS <- MCAllowed
    PROTECTED_ROOTS <- MCProtected
    Requests <- MCRequests
    InitTree <- MCTree
    Edits <- MCEdits
    MaxEdits = 2
    MAX_REQUEST_BYTES = 4
    MAX_OUTPUT_BYTES = 4
    MAX_JSON_BYTES = 4
    MAX_FILES = 3
    MAX_TOTAL_FILE_BYTES = 4
    report_category <- Category
SPECIFICATION Spec
INVARIANTS PassWasTrue EnvelopeWhole DeletedPathsCount
PROPERTY AnswersOnce
