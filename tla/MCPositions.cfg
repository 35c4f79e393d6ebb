SPECIFICATION FairSpec
CONSTANTS
    creator = creator  treasury = treasury
    Users <- MCUsers
    Traders = {creator}
    Creator = creator
    Treasury = treasury
    None = None
    GENESIS = 2
    MintedShares = {1}
    BurnedShares = {1}
    EntryFees = {0}
    ExitFees = {0, 1}
    ManagementFees = {0, 1}
    MaxTxs = 2
    MaxSlot = 2
    MaxCrashes = 1
CHECK_DEADLOCK FALSE
INVARIANTS
    TypeOK
    ExactlyOnce
    NothingSkipped
    InChainOrder
    OnlyExitFeesDiffer
PROPERTY
    EventuallyProjected
