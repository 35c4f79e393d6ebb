SPECIFICATION Spec
CONSTANTS
    usdc = usdc
    spy = spy
    alice = alice
    creator = creator
    guardian = guardian
    outsider = outsider
    None = None
    Assets <- MCAssets
    Holders <- MCHolders
    Creator = creator
    Actors <- MCActors
    Manager = creator
    Guardian = guardian
    InitialVault <- MCVault
    InitialShares = 2
    InitialWeights <- MCWeights
    WEIGHTS_DENOMINATOR = 3
    TOLERANCE_SCALE = 2
    U64_MAX = 3
    APPROVAL_TTL = 1
    NOTICE_DURATION = 1
    EXECUTION_WINDOW = 1
    MaxNonce = 2
    MaxSlot = 3
    Amounts = {1}
INVARIANTS
    TypeOK
    TradesAreSerial
    ExitsOpen
PROPERTIES
    TradesAsAnnounced
    ImplementsCore
    NoDilution
