SPECIFICATION Spec
CONSTANTS
    creator = creator  treasury = treasury
    Users <- MCUsers
    Traders = {creator}
    Creator = creator
    Treasury = treasury
    None = None
    GENESIS = 4
    MintedShares = {1}
    BurnedShares = {2}
    EntryFees = {0}
    ExitFees = {1}
    ManagementFees = {0}
    MaxTxs = 2
    MaxSlot = 3
    MaxCrashes = 0
CHECK_DEADLOCK FALSE
INVARIANT
    EventSupplyReconciles
