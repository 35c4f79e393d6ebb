SPECIFICATION Spec
CONSTANTS
    NChunks = 2
    MaxSlot = 4
    MaxSubs = 8
    MaxFaults = 3
INVARIANTS
    TypeOK
    PaidTwiceOnlyBlind
    ReturnedIsCovered
    ReceiptIsResumable
PROPERTIES
    EventuallyReady
CHECK_DEADLOCK FALSE
