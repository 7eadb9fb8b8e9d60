CONSTANTS
    t1 = t1
    t2 = t2
    a1 = a1
    s1 = s1
    s2 = s2
    NoTxn = NoTxn
    NoCall = NoCall
    TxIds <- MCTxIds
    Accounts <- MCAccounts
    Sessions <- MCSessions
    Amounts = {3}
    Opening <- MCOpening
    PricingTables <- MCTables
    MaxVersions = 2
    ProvidersAgree = TRUE
SPECIFICATION Spec

INVARIANTS
    TypeOK
    NoOverdraft
    LocksProtectReads
    JournalsMatchStatus
    ReservedIsOpenDebit
    RevenueIsRealizedFees
    BooksBalance
PROPERTIES
    FinishedIsFinal
    LedgerSpec
