SPECIFICATION Spec
CONSTANTS
    TxIds = {r1}
    Accounts = {a1}
    Amounts = {3}
    Opening <- MCOpening
    PricingTables <- MCTables
    MaxVersions = 2
    ProvidersAgree = TRUE
    NoTxn = NoTxn
    Keys = {k1}
    RequestKinds = {"pix_in", "transfer"}
    Callbacks = {c1, c2}
    Reconcilers = {p1}
    MaxFaults = 2
    NoKey = NoKey
INVARIANTS
    GatewayTypeOK
    LedgerFollowsProvider
    ProcessedMeansApplied
PROPERTIES
    LedgerSpec
CHECK_DEADLOCK FALSE
