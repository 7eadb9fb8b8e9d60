SPECIFICATION ReconciledSpec
CONSTANTS
    TxIds = {r1}
    Accounts = {a1}
    Amounts = {3}
    Opening <- MCOpening
    PricingTables = {}
    MaxVersions = 1
    ProvidersAgree = TRUE
    NoTxn = NoTxn
    Keys = {k1}
    RequestKinds = {"pix_in", "transfer"}
    Callbacks = {c1}
    Reconcilers = {p1}
    MaxFaults = 1
    NoKey = NoKey
PROPERTIES
    AmbiguousPaymentsEnd
CHECK_DEADLOCK FALSE
