SPECIFICATION Spec
CONSTANTS
    aapl = aapl
    nvda = nvda
    alice = alice
    creator = creator
    Mints <- MCMints
    Holders <- MCHolders
    Creator = creator
    Treasury = alice
    Seed <- MCSeed
    Funds <- MCFunds
    BPS_DENOM = 4
    SECONDS_PER_YEAR = 1
    CREATOR_FEE_SPLIT_BPS = 2
    GENESIS_SHARES = 4
    TOLERANCE_SCALE = 2
    U64_MAX = 6
    ENTRY_FEE_BPS = 1
    EXIT_FEE_BPS = 1
    MANAGEMENT_FEE_BPS = 1
    Freezable <- MCIssuerControlled
    Delegated <- MCIssuerControlled
    DepositSizes = {1, 2}
    TransferSizes = {2}
    MaxTime = 2
INVARIANTS
    FeeStreamExact
    TypeOK
    ExitsOpen
    NoRoundTripProfit
    Conserved
PROPERTIES
    NoDilution
    NothingStranded
