SPECIFICATION Spec
CONSTANTS
    devnet = devnet
    other = other
    Contexts <- MCContexts
    Home = devnet
    MaxRuns = 2
    MaxMoves = 1
    RETRY_ATTEMPTS = 2
    None = None
INVARIANTS
    TypeOK
    LocalFailureIsUnsent
    HiddenOutcomeSurfaces
PROPERTIES
    OnlyReviewedContext
    NoDeadEntries
