SPECIFICATION Spec
CONSTANTS
    TxIds = {r1, r2}
    Accounts = {a1}
    Amounts <- MCAmounts
    Opening <- MCOpening
    PricingTables = {}
    MaxVersions = 1
    ProvidersAgree = TRUE
    NoTxn = NoTxn
    Keys = {k1, k2}
    RequestKinds = {"pix_in", "transfer"}
    Callbacks = {}
    Reconcilers = {}
    MaxFaults = 2
    NoKey = NoKey
INVARIANTS
    OneOrderPerKey
    AnswersAreTrue
CHECK_DEADLOCK FALSE
