SPECIFICATION FairSpec
CONSTANTS
    Programs = {1, 2, 3}
    Namespace <- MCNamespace
    Shapes <- MCShapes
    ShapesAt <- MCShapesAt
    SignaturesPerPoll = 2
    HistoryPagesPerPoll = 2
    MaxTxs = 3
    MaxFaults = 1
    None = None
INVARIANTS
    TypeOK
    AttestedIsDiscovered
    FinishedIsApplied
PROPERTIES
    EffectsInOrder
    EventuallyApplied
CHECK_DEADLOCK FALSE
