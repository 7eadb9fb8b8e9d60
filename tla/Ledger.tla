------------------------------- MODULE Ledger --------------------------------
(***************************************************************************)
(* The transactional core of Flash Pag: the transactions table and the     *)
(* double-entry ledger of one merchant, as the Postgres functions of       *)
(* migrations/0001_init.sql and 0007_merchant_pricing.sql leave them, one  *)
(* atomic action per committed call.  LedgerSessions refines the calls     *)
(* into lock, read and commit; Gateway makes them from the HTTP handlers.  *)
(*                                                                         *)
(* Besides the functions, the Go handlers write the transactions table     *)
(* with plain PATCH requests.  Those writes have no guard in the code;     *)
(* the conditions under which the handlers send them are stated apart, in  *)
(* the "Environment" section, and Gateway is checked to respect them.      *)
(***************************************************************************)
EXTENDS Pricing, Sequences, FiniteSetsExt

CONSTANTS
    TxIds,           \* transaction ids (UUIDs drawn by the handlers)
    Accounts,        \* active accounts of the merchant
    Amounts,         \* amounts that requests ask for
    Opening,         \* available balance of each account when we start to look
    PricingTables,   \* the pricing versions an administrator may publish
    MaxVersions,     \* bound on published versions
    ProvidersAgree,  \* do all final reports of a provider on one payment agree?
    NoTxn            \* the absent row

Statuses == {"pending", "ambiguous", "succeeded", "failed"}
Terminal == {"succeeded", "failed"}
JournalKinds == {"reserve_outbound", "complete_outbound", "release_outbound", "settle_pix_in"}

\* A row of the transactions table; ext says that provider_external_id is set.
Txn == [kind: Kinds, account: Accounts, amount: Nat, fee: Nat, version: Nat,
        status: Statuses, ext: BOOLEAN]

ASSUME LedgerAssumption ==
    /\ Amounts \subseteq Nat \ {0}
    /\ IsFiniteSet(Accounts)
    /\ Opening \in [Accounts -> Nat]
    /\ \A table \in PricingTables : ValidTable(table)
    /\ MaxVersions \in Nat
    /\ ProvidersAgree \in BOOLEAN
    /\ NoTxn \notin Txn

VARIABLES
    txn,         \* the transactions table
    journals,    \* ledger_journals: how many of each kind a transaction posted
    available,   \* sum of the entries of each account's available bucket
    reserved,    \* sum of the entries of each account's reserved bucket
    clearing,    \* sum of the entries of the provider clearing bucket
    revenue,     \* sum of the entries of the platform_revenue bucket
    pricing      \* the pricing versions published so far, the last one current

books == <<journals, available, reserved, clearing, revenue>>
ledgerVars == <<txn, books, pricing>>

-----------------------------------------------------------------------------
(* Entries of the journals *)

\* What a journal adds to each bucket.  The entries are append-only
\* (ledger_entries_immutable), so a balance is the sum of those posted.
Bucket(av, re, cl, rv) == [available |-> av, reserved |-> re, clearing |-> cl, revenue |-> rv]

\* Mutants: the provider gets the fee; a release keeps the fee reserved; a
\* settled charge credits the gross amount and books the fee as well.
CompleteEntries_FeeToProvider(amount, fee) == Bucket(0, -(amount + fee), amount + fee, 0)
ReleaseEntries_WithoutFee(amount, fee) == Bucket(amount, -amount, 0, 0)
SettleEntries_Gross(amount, fee) == Bucket(amount, 0, -amount, fee)

\* The entries of each function's journal.
ReserveEntries(amount, fee) == Bucket(-(amount + fee), amount + fee, 0, 0)
CompleteEntries(amount, fee) == Bucket(0, -(amount + fee), amount, fee)
ReleaseEntries(amount, fee) == Bucket(amount + fee, -(amount + fee), 0, 0)
SettleEntries(amount, fee) == Bucket(amount - fee, 0, -amount, fee)

Entries(kind, amount, fee) ==
    CASE kind = "reserve_outbound"  -> ReserveEntries(amount, fee)
      [] kind = "complete_outbound" -> CompleteEntries(amount, fee)
      [] kind = "release_outbound"  -> ReleaseEntries(amount, fee)
      [] kind = "settle_pix_in"     -> SettleEntries(amount, fee)

\* Insert a journal of this kind for transaction t, whose row reads row.
Post(t, row, kind) ==
    LET e == Entries(kind, row.amount, row.fee)
    IN  /\ journals'  = [journals EXCEPT ![t][kind] = @ + 1]
        /\ available' = [available EXCEPT ![row.account] = @ + e.available]
        /\ reserved'  = [reserved EXCEPT ![row.account] = @ + e.reserved]
        /\ clearing'  = clearing + e.clearing
        /\ revenue'   = revenue + e.revenue

-----------------------------------------------------------------------------
(* The Postgres functions *)

\* A new row with the fee of pricing version v frozen in it.
NewTxn(kind, a, amount, v) ==
    [kind |-> kind, account |-> a, amount |-> amount,
     fee |-> QuoteFee(pricing[v][kind], amount), version |-> v,
     status |-> "pending", ext |-> FALSE]

Exists(t) == txn[t] # NoTxn

\* begin_pix_in refuses a fee that would eat the whole amount.
CanBeginPixIn(t, a, amount, v) ==
    ~Exists(t) /\ NewTxn("pix_in", a, amount, v).fee < amount

\* Open an inbound charge: nothing is posted before the provider is paid.
BeginPixIn(t, a, amount, v) ==
    /\ CanBeginPixIn(t, a, amount, v)
    /\ txn' = [txn EXCEPT ![t] = NewTxn("pix_in", a, amount, v)]
    /\ UNCHANGED <<books, pricing>>

CanBeginOutbound(t, a, kind, amount, v) ==
    ~Exists(t) /\ available[a] >= amount + NewTxn(kind, a, amount, v).fee

\* Open a transfer or withdrawal: amount and fee move from available to
\* reserved in the transaction that inserts the row.
BeginOutbound(t, a, kind, amount, v) ==
    LET row == NewTxn(kind, a, amount, v)
    IN  /\ CanBeginOutbound(t, a, kind, amount, v)
        /\ txn' = [txn EXCEPT ![t] = row]
        /\ Post(t, row, "reserve_outbound")
        /\ UNCHANGED pricing

\* Post a journal for a row that exists and give it its final status.
Finalize(t, kind, status) ==
    /\ txn' = [txn EXCEPT ![t].status = status]
    /\ Post(t, txn[t], kind)
    /\ UNCHANGED pricing

\* Mutant: a failed payment may be finished again.
CanFinishOutbound_AfterFailure(row) == row.kind \in OutboundKinds /\ row.status # "succeeded"

\* settle_pix_in, complete_outbound and fail_outbound return without effect
\* when the row already has the status they would give it, and raise on the
\* other final status: neither changes the database, so only the calls that
\* post something are steps here.
CanSettlePixIn(row) == row.kind = "pix_in" /\ row.status \notin Terminal /\ row.amount > row.fee
CanFinishOutbound(row) == row.kind \in OutboundKinds /\ row.status \notin Terminal

SettlePixIn(t) ==
    Exists(t) /\ CanSettlePixIn(txn[t]) /\ Finalize(t, "settle_pix_in", "succeeded")

CompleteOutbound(t) ==
    Exists(t) /\ CanFinishOutbound(txn[t]) /\ Finalize(t, "complete_outbound", "succeeded")

FailOutbound(t) ==
    Exists(t) /\ CanFinishOutbound(txn[t]) /\ Finalize(t, "release_outbound", "failed")

\* Mutant: the last rule of the version is not inserted.
SetMerchantPricing_RuleMissing(table) ==
    /\ Len(pricing) < MaxVersions
    /\ pricing' = Append(pricing, [k \in Kinds \ {"withdrawal"} |-> table[k]])
    /\ UNCHANGED <<txn, books>>

\* set_merchant_pricing appends a version and makes it current.
SetMerchantPricing(table) ==
    /\ Len(pricing) < MaxVersions
    /\ pricing' = Append(pricing, table)
    /\ UNCHANGED <<txn, books>>

-----------------------------------------------------------------------------
(* Plain updates of a transactions row (patchTransaction) *)

PatchStatus(t, status) ==
    /\ txn' = [txn EXCEPT ![t].status = status]
    /\ UNCHANGED <<books, pricing>>

\* The handler that created the payment stores the provider's id.
PatchExternalId(t) ==
    /\ txn' = [txn EXCEPT ![t].ext = TRUE]
    /\ UNCHANGED <<books, pricing>>

-----------------------------------------------------------------------------
(* Environment: when the handlers send those updates *)

\* The id is stored once, by the handler that made the payment, before any
\* callback or reconciliation can find the row.
MayRecordId(row) == row.status = "pending" /\ ~row.ext

\* A handler that lost the provider's answer knows no external id.
MayBecomeAmbiguous(row) == row.status = "pending" /\ ~row.ext

\* A charge is marked failed on the provider's word.  Only providers that
\* contradict themselves do so after the charge was paid.
MayFailCharge(row) ==
    row.kind = "pix_in" /\ (ProvidersAgree => row.status # "succeeded")

-----------------------------------------------------------------------------
LedgerInit ==
    /\ txn = [t \in TxIds |-> NoTxn]
    /\ journals = [t \in TxIds |-> [k \in JournalKinds |-> 0]]
    /\ available = Opening
    /\ reserved = [a \in Accounts |-> 0]
    /\ clearing = 0
    /\ revenue = 0
    /\ pricing = <<ZeroTable>>

Begin(t) ==
    \E a \in Accounts, amount \in Amounts, v \in 1..Len(pricing) :
        \/ BeginPixIn(t, a, amount, v)
        \/ \E kind \in OutboundKinds : BeginOutbound(t, a, kind, amount, v)

Patch(t) ==
    /\ Exists(t)
    /\ \/ MayRecordId(txn[t]) /\ PatchExternalId(t)
       \/ MayBecomeAmbiguous(txn[t]) /\ PatchStatus(t, "ambiguous")
       \/ MayFailCharge(txn[t]) /\ PatchStatus(t, "failed")

LedgerNext ==
    \/ \E t \in TxIds : Begin(t) \/ SettlePixIn(t) \/ CompleteOutbound(t) \/ FailOutbound(t) \/ Patch(t)
    \/ \E table \in PricingTables : SetMerchantPricing(table)

LedgerSpec == LedgerInit /\ [][LedgerNext]_ledgerVars

-----------------------------------------------------------------------------
(* Properties *)

\* Every row, journal count, balance and pricing version has its type.
LedgerTypeOK ==
    /\ txn \in [TxIds -> Txn \cup {NoTxn}]
    /\ journals \in [TxIds -> [JournalKinds -> Nat]]
    /\ available \in [Accounts -> Int]
    /\ reserved \in [Accounts -> Int]
    /\ clearing \in Int
    /\ revenue \in Int
    /\ pricing \in Seq([Kinds -> Rule])

\* begin_outbound never reserves more than an account has, however calls
\* interleave: the available balance of an account is never negative.
NoOverdraft == \A a \in Accounts : available[a] >= 0

Rows == {t \in TxIds : Exists(t)}
OpenOutbound(a) ==
    {t \in Rows : txn[t].kind \in OutboundKinds /\ txn[t].account = a /\ txn[t].status \notin Terminal}
Debit(t) == txn[t].amount + txn[t].fee
Succeeded == {t \in Rows : txn[t].status = "succeeded"}

\* README.md: available moves to reserved before the provider call, and an
\* ambiguous outcome keeps funds reserved.  What an account has reserved is
\* exactly what its unfinished outbound payments will debit: no payment's
\* funds are released early, twice, or never after its end.
ReservedIsOpenDebit ==
    \A a \in Accounts : reserved[a] = SumFunction([t \in OpenOutbound(a) |-> Debit(t)])

\* The journals a row's kind and status stand for.
JournalsDue(row) ==
    IF row.kind = "pix_in"
    THEN IF row.status = "succeeded" THEN {"settle_pix_in"} ELSE {}
    ELSE {"reserve_outbound"} \cup
         CASE row.status = "succeeded" -> {"complete_outbound"}
           [] row.status = "failed"    -> {"release_outbound"}
           [] OTHER                    -> {}

\* The journals a transaction has posted are those its status stands for,
\* each once: a redelivered callback, a reconciliation and the creating
\* handler never settle, complete or release one payment twice, and never
\* both complete and release it.
JournalsMatchStatus ==
    \A t \in TxIds :
        LET due == IF Exists(t) THEN JournalsDue(txn[t]) ELSE {}
        IN  journals[t] = [k \in JournalKinds |-> IF k \in due THEN 1 ELSE 0]

\* docs/DECISIONS.md: a frozen fee on a pending, failed or ambiguous
\* transaction is not realized revenue.  The revenue booked is the sum of the
\* fees of the transactions that succeeded.
RevenueIsRealizedFees ==
    revenue = SumFunction([t \in Succeeded |-> txn[t].fee])

\* Money is neither made nor lost: merchant balances, provider clearing and
\* platform revenue always add up to what there was at the start.
BooksBalance ==
    SumFunction([a \in Accounts |-> available[a] + reserved[a]]) + clearing + revenue
        = SumFunction(Opening)

\* A finished transaction keeps its status, and no transaction ever changes
\* the pricing evidence frozen at its creation (transactions_pricing_immutable).
KeepsFinished ==
    \A t \in TxIds : Exists(t) =>
        /\ Exists(t)'
        /\ txn[t].status \in Terminal => txn'[t].status = txn[t].status
        /\ txn'[t].amount = txn[t].amount /\ txn'[t].fee = txn[t].fee /\ txn'[t].version = txn[t].version

FinishedIsFinal == [][KeepsFinished]_ledgerVars
=============================================================================
