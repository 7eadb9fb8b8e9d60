SPECIFICATION Spec
CONSTANTS
    TxIds = {r1}
    Accounts = {a1}
    Amounts = {3}
    Opening <- MCOpening
    PricingTables = {}
    MaxVersions = 1
    ProvidersAgree = FALSE
    NoTxn = NoTxn
    Keys = {k1}
    RequestKinds = {"pix_in", "transfer"}
    Callbacks = {c1}
    Reconcilers = {p1}
    MaxFaults = 0
    NoKey = NoKey
INVARIANTS
    JournalsMatchStatus
CHECK_DEADLOCK FALSE
