------------------------ MODULE LedgerSessionsProofs -------------------------
(***************************************************************************)
(* The Postgres functions, interleaved under the row locks they take,      *)
(* implement the atomic calls of Ledger for every instance; so what        *)
(* LedgerProofs shows of Ledger holds of them too.                         *)
(***************************************************************************)
EXTENDS LedgerSessions, LedgerProofs

\* The inductive invariant: types, valid price lists, and reads that stay true
\* as long as the lock they were made under is held.
Inv == TypeInv /\ CallsTypeOK /\ LocksProtectReads

LEMMA InitInv == Init => Inv
<1> SUFFICES ASSUME Init PROVE Inv
  OBVIOUS
<1>1. TypeInv
  BY TypeInitial DEF Init
<1>2. CallsTypeOK /\ LocksProtectReads
  BY DEF Init, CallsTypeOK, LocksProtectReads
<1>3. QED
  BY <1>1, <1>2 DEF Inv

\* Each step that ends a call is the atomic call; every other step leaves the
\* tables alone.
LEMMA InsertRefines ==
    ASSUME Inv, NEW s \in Sessions, InsertPixIn(s)
    PROVE  LedgerNext
<1> DEFINE c == inbound[s]
<1>1. c \in InboundCall /\ c.version \in 1..Len(pricing)
  BY DEF Inv, CallsTypeOK, InsertPixIn
<1>2. BeginPixIn(c.tx, c.account, c.amount, c.version)
  BY DEF InsertPixIn
<1>3. c.tx \in TxIds /\ c.account \in Accounts /\ c.amount \in Amounts
  BY <1>1 DEF InboundCall
<1> HIDE DEF c
<1>4. Begin(c.tx)
  BY <1>1, <1>2, <1>3 DEF Begin
<1>5. QED
  BY <1>3, <1>4 DEF LedgerNext

LEMMA ReserveRefines ==
    ASSUME Inv, NEW s \in Sessions, ReserveOutbound(s)
    PROVE  LedgerNext
<1> DEFINE c == outbound[s]
<1>1. c \in OutboundCall /\ c.version \in 1..Len(pricing) /\ c.seen <= available[c.account]
  BY DEF Inv, CallsTypeOK, LocksProtectReads, ReserveOutbound
<1>2. c.tx \in TxIds /\ c.account \in Accounts /\ c.amount \in Amounts /\ c.kind \in OutboundKinds /\ c.seen \in Int
  BY <1>1 DEF OutboundCall
<1> DEFINE row == NewTxn(c.kind, c.account, c.amount, c.version)
<1>3. row.amount = c.amount
  BY DEF NewTxn
<1>4. /\ c.seen >= row.amount + row.fee /\ ~Exists(c.tx)
      /\ txn' = [txn EXCEPT ![c.tx] = row] /\ Post(c.tx, row, "reserve_outbound") /\ pricing' = pricing
  BY DEF ReserveOutbound
<1>5. row \in Txn /\ available[c.account] \in Int
  BY <1>1, <1>2, NewTxnType, LedgerAssumption DEF Inv, TypeInv, PricingOK, LedgerTypeOK, Kinds, OutboundKinds
<1>6. row.fee \in Nat /\ row.amount \in Nat
  BY <1>5 DEF Txn
<1>7. available[c.account] >= c.amount + row.fee
  <2> HIDE DEF c, row
  <2>1. QED
    BY <1>1, <1>2, <1>3, <1>4, <1>5, <1>6
<1>8. BeginOutbound(c.tx, c.account, c.kind, c.amount, c.version)
  BY <1>4, <1>7 DEF BeginOutbound, CanBeginOutbound
<1> HIDE DEF c, row
<1>9. Begin(c.tx)
  BY <1>1, <1>2, <1>8 DEF Begin
<1>10. QED
  BY <1>2, <1>9 DEF LedgerNext

LEMMA CommitRefines ==
    ASSUME Inv, NEW s \in Sessions, CommitRow(s)
    PROVE  LedgerNext
<1> DEFINE c == rowcall[s]
<1>1. c \in RowCall /\ c.row = txn[c.tx]
  BY DEF Inv, CallsTypeOK, LocksProtectReads, CommitRow
<1>2. c.tx \in TxIds /\ c.op \in FinishOps /\ c.row \in Txn
  BY <1>1 DEF RowCall
<1>3. Exists(c.tx)
  BY <1>1, <1>2, LedgerAssumption DEF Exists
<1>4. /\ Accepts(c.op, c.row) /\ Post(c.tx, c.row, Outcome[c.op].journal)
      /\ txn' = [txn EXCEPT ![c.tx].status = Outcome[c.op].status] /\ pricing' = pricing
  BY DEF CommitRow
<1>5. Accepts(c.op, txn[c.tx]) /\ Finalize(c.tx, Outcome[c.op].journal, Outcome[c.op].status)
  BY <1>1, <1>4 DEF Finalize
<1> HIDE DEF c
<1>6. SettlePixIn(c.tx) \/ CompleteOutbound(c.tx) \/ FailOutbound(c.tx)
  BY <1>2, <1>3, <1>5
  DEF FinishOps, Outcome, Accepts, SettlePixIn, CompleteOutbound, FailOutbound
<1>7. QED
  BY <1>2, <1>6 DEF LedgerNext

LEMMA StepRefines == Inv /\ [Next]_vars => [LedgerNext]_ledgerVars
<1> SUFFICES ASSUME Inv, Next PROVE LedgerNext \/ UNCHANGED ledgerVars
  BY DEF vars
<1>1. ASSUME NEW s \in Sessions, Start(s) \/ SumAvailable(s) \/ Rollback(s) PROVE UNCHANGED ledgerVars
  BY <1>1 DEF Start, QuotePixIn, LockAccount, LockRow, SumAvailable, Rollback
<1>2. ASSUME NEW t \in TxIds, UpdateRow(t) PROVE LedgerNext
  BY <1>2 DEF UpdateRow, LedgerNext
<1>3. ASSUME PublishPricing PROVE LedgerNext
  BY <1>3 DEF PublishPricing, LedgerNext
<1>4. QED
  BY <1>1, <1>2, <1>3, InsertRefines, ReserveRefines, CommitRefines DEF Next

-----------------------------------------------------------------------------
(* The invariant *)

LEMMA TypeStep == Inv /\ [Next]_vars => TypeInv'
BY StepRefines, TypeInductive DEF Inv

\* Pricing versions are only ever added.
LEMMA PricingGrows ==
    ASSUME Inv, [Next]_vars
    PROVE  1 <= Len(pricing) /\ Len(pricing) <= Len(pricing') /\ Len(pricing) \in Nat /\ Len(pricing') \in Nat
<1>1. pricing \in Seq([Kinds -> Rule]) /\ Len(pricing) >= 1
  BY DEF Inv, TypeInv, LedgerTypeOK, PricingOK
<1>2. pricing' = pricing \/ \E table \in PricingTables : pricing' = Append(pricing, table)
  <2>1. ASSUME NEW t \in TxIds, UpdateRow(t) PROVE pricing' = pricing
    BY <2>1 DEF UpdateRow, Patch, PatchExternalId, PatchStatus
  <2>2. ASSUME NEW s \in Sessions,
               Start(s) \/ InsertPixIn(s) \/ SumAvailable(s) \/ ReserveOutbound(s) \/ CommitRow(s) \/ Rollback(s)
        PROVE  pricing' = pricing
    BY <2>2 DEF Start, QuotePixIn, LockAccount, LockRow, InsertPixIn, BeginPixIn, SumAvailable,
                ReserveOutbound, CommitRow, Rollback, ledgerVars
  <2>3. QED
    BY <2>1, <2>2 DEF Next, PublishPricing, SetMerchantPricing, vars, ledgerVars
<1>3. \A table \in PricingTables : table \in [Kinds -> Rule]
  BY LedgerAssumption DEF ValidTable
<1>4. QED
  BY <1>1, <1>2, <1>3

LEMMA CallsTypeStep == Inv /\ [Next]_vars => CallsTypeOK'
<1> SUFFICES ASSUME Inv, [Next]_vars PROVE CallsTypeOK'
  OBVIOUS
<1>1. CallsTypeOK /\ \A t \in TxIds : Exists(t) => txn[t] \in Txn
  BY DEF Inv, TypeInv, LedgerTypeOK, Exists
<1>2. 1 <= Len(pricing) /\ Len(pricing) <= Len(pricing') /\ Len(pricing) \in Nat /\ Len(pricing') \in Nat
  BY PricingGrows
<1>3. ASSUME UNCHANGED calls PROVE CallsTypeOK'
  BY <1>1, <1>2, <1>3 DEF calls, CallsTypeOK
<1>4. ASSUME NEW s \in Sessions, NEW t \in TxIds, NEW a \in Accounts, NEW amount \in Amounts,
             QuotePixIn(s, t, a, amount)
      PROVE  CallsTypeOK'
  <2>1. [tx |-> t, account |-> a, amount |-> amount, version |-> Len(pricing)] \in InboundCall
    BY <1>2 DEF InboundCall
  <2>2. QED
    BY <1>1, <1>2, <1>4, <2>1 DEF CallsTypeOK, QuotePixIn
<1>5. ASSUME NEW s \in Sessions, NEW t \in TxIds, NEW a \in Accounts, NEW kind \in OutboundKinds,
             NEW amount \in Amounts, LockAccount(s, t, a, kind, amount)
      PROVE  CallsTypeOK'
  <2>1. [tx |-> t, account |-> a, kind |-> kind, amount |-> amount, version |-> Len(pricing),
         summed |-> FALSE, seen |-> 0] \in OutboundCall
    BY <1>2 DEF OutboundCall
  <2>2. QED
    BY <1>1, <1>2, <1>5, <2>1 DEF CallsTypeOK, LockAccount
<1>6. ASSUME NEW s \in Sessions, NEW op \in FinishOps, NEW t \in TxIds, LockRow(s, op, t)
      PROVE  CallsTypeOK'
  <2>1. [op |-> op, tx |-> t, row |-> txn[t]] \in RowCall
    BY <1>1, <1>6 DEF RowCall, LockRow
  <2>2. QED
    BY <1>1, <1>2, <1>6, <2>1 DEF CallsTypeOK, LockRow
<1>7. ASSUME NEW s \in Sessions, InsertPixIn(s) \/ ReserveOutbound(s) \/ CommitRow(s) \/ Rollback(s)
      PROVE  CallsTypeOK'
  BY <1>1, <1>2, <1>7 DEF CallsTypeOK, InsertPixIn, ReserveOutbound, CommitRow, Rollback
<1>8. ASSUME NEW s \in Sessions, SumAvailable(s) PROVE CallsTypeOK'
  <2>1. outbound[s] \in OutboundCall /\ available[outbound[s].account] \in Int
    BY <1>1, <1>8 DEF SumAvailable, CallsTypeOK, OutboundCall, Inv, TypeInv, LedgerTypeOK
  <2>2. [outbound[s] EXCEPT !.summed = TRUE, !.seen = available[outbound[s].account]] \in OutboundCall
    BY <2>1 DEF OutboundCall
  <2>3. outbound' = [outbound EXCEPT ![s] = [outbound[s] EXCEPT !.summed = TRUE, !.seen = available[outbound[s].account]]]
    BY <1>1, <1>8 DEF SumAvailable, CallsTypeOK
  <2>4. QED
    BY <1>1, <1>2, <1>8, <2>1, <2>2, <2>3 DEF CallsTypeOK, SumAvailable, OutboundCall, ledgerVars
<1>9. QED
  BY <1>3, <1>4, <1>5, <1>6, <1>7, <1>8 DEF Next, Start, UpdateRow, PublishPricing, vars

-----------------------------------------------------------------------------
(* Locks *)

\* A new journal changes the available balance of one account only, and only
\* reserve_outbound lowers it.
LEMMA PostAvailable ==
    ASSUME LedgerTypeOK, NEW t \in TxIds, NEW row \in Txn, NEW kind \in JournalKinds, Post(t, row, kind)
    PROVE  /\ \A a \in Accounts : a # row.account => available'[a] = available[a]
           /\ available'[row.account] = available[row.account] + Entries(kind, row.amount, row.fee).available
<1> DEFINE d == Entries(kind, row.amount, row.fee).available
<1>1. available' = [available EXCEPT ![row.account] = available[row.account] + d]
  BY DEF Post
<1>2. row.account \in Accounts
  BY DEF Txn
<1> HIDE DEF d
<1>3. available'[row.account] = available[row.account] + d /\ \A a \in Accounts : a # row.account => available'[a] = available[a]
  BY <1>1, <1>2 DEF LedgerTypeOK
<1>4. QED
  BY <1>3 DEF d

\* Releasing calls, while rows under a row lock and the balances under an
\* account lock keep what was read of them, keeps the invariant.
LEMMA ReleaseKeepsLocks ==
    ASSUME LocksProtectReads,
           \A s \in Sessions : outbound'[s] \in {outbound[s], NoCall},
           \A s \in Sessions : rowcall'[s] \in {rowcall[s], NoCall},
           \A s \in Sessions : outbound'[s] # NoCall /\ outbound[s].summed =>
               outbound[s].seen <= available'[outbound[s].account],
           \A s \in Sessions : rowcall'[s] # NoCall => txn'[rowcall[s].tx] = txn[rowcall[s].tx]
    PROVE  LocksProtectReads'
<1>1. \A s \in Sessions : outbound'[s] # NoCall => outbound'[s] = outbound[s] /\ outbound[s] # NoCall
  OBVIOUS
<1>2. \A s \in Sessions : rowcall'[s] # NoCall => rowcall'[s] = rowcall[s] /\ rowcall[s] # NoCall
  OBVIOUS
<1>3. QED
  BY <1>1, <1>2 DEF LocksProtectReads

LEMMA LocksStep == Inv /\ [Next]_vars => LocksProtectReads'
<1> SUFFICES ASSUME Inv, [Next]_vars PROVE LocksProtectReads'
  OBVIOUS
<1>1. /\ LocksProtectReads /\ LedgerTypeOK
      /\ \A t \in TxIds : Exists(t) => txn[t] \in Txn
  BY DEF Inv, TypeInv, LedgerTypeOK, Exists
<1>2. \A s \in Sessions : outbound[s] # NoCall => outbound[s] \in OutboundCall
  BY DEF Inv, CallsTypeOK
<1>3. \A s \in Sessions : rowcall[s] # NoCall => rowcall[s].tx \in TxIds /\ rowcall[s].row \in Txn
  BY DEF Inv, CallsTypeOK, RowCall
<1>4. /\ DOMAIN outbound = Sessions /\ DOMAIN rowcall = Sessions
      /\ outbound = [s \in Sessions |-> outbound[s]] /\ rowcall = [s \in Sessions |-> rowcall[s]]
  BY DEF Inv, CallsTypeOK
<1>5. \A s \in Sessions : outbound[s] # NoCall => outbound[s].account \in Accounts /\ outbound[s].seen \in Int
  BY <1>2 DEF OutboundCall
<1>6. \A s \in Sessions : rowcall[s] # NoCall => Exists(rowcall[s].tx)
  BY <1>1, <1>3, LedgerAssumption DEF LocksProtectReads, Exists
<1>7. CASE UNCHANGED <<txn, available, outbound, rowcall>>
  BY <1>1, <1>7 DEF LocksProtectReads
<1>8. ASSUME NEW s \in Sessions, InsertPixIn(s) PROVE LocksProtectReads'
  <2> DEFINE c == inbound[s]
  <2>1. c.tx \in TxIds
    BY <1>8 DEF InsertPixIn, Inv, CallsTypeOK, InboundCall
  <2>2. /\ ~Exists(c.tx) /\ available' = available /\ outbound' = outbound /\ rowcall' = rowcall
        /\ \A t \in TxIds : t # c.tx => txn'[t] = txn[t]
    BY <1>1, <1>8 DEF InsertPixIn, BeginPixIn, CanBeginPixIn, books, LedgerTypeOK
  <2> HIDE DEF c
  <2>3. \A u \in Sessions : rowcall[u] # NoCall => rowcall[u].tx # c.tx
    BY <1>6, <2>2
  <2>4. QED
    BY <1>1, <1>3, <2>2, <2>3, ReleaseKeepsLocks DEF LocksProtectReads
<1>9. ASSUME NEW s \in Sessions, NEW t \in TxIds, NEW a \in Accounts, NEW kind \in OutboundKinds,
             NEW amount \in Amounts, LockAccount(s, t, a, kind, amount)
      PROVE  LocksProtectReads'
  <2>1. /\ txn' = txn /\ available' = available /\ rowcall' = rowcall
        /\ outbound'[s].account = a /\ ~outbound'[s].summed
        /\ \A u \in Sessions : u # s => outbound'[u] = outbound[u]
        /\ \A u \in Sessions : outbound[u] # NoCall => outbound[u].account # a
    BY <1>4, <1>9 DEF LockAccount, AccountLocked, ledgerVars, books
  <2>2. QED
    BY <1>1, <2>1 DEF LocksProtectReads
<1>10. ASSUME NEW s \in Sessions, ReserveOutbound(s) PROVE LocksProtectReads'
  <2> DEFINE c == outbound[s]
             row == NewTxn(c.kind, c.account, c.amount, c.version)
  <2>1. c # NoCall /\ c.tx \in TxIds /\ c.account \in Accounts /\ c.amount \in Nat
        /\ c.kind \in Kinds /\ c.version \in 1..Len(pricing)
    BY <1>2, <1>10, LedgerAssumption DEF ReserveOutbound, Inv, CallsTypeOK, OutboundCall, OutboundKinds, Kinds
  <2>2. row \in Txn /\ row.account = c.account
    BY <1>1, <2>1, NewTxnType DEF Inv, TypeInv, PricingOK, NewTxn
  <2>3. /\ ~Exists(c.tx) /\ Post(c.tx, row, "reserve_outbound") /\ rowcall' = rowcall
        /\ txn' = [txn EXCEPT ![c.tx] = row] /\ outbound' = [outbound EXCEPT ![s] = NoCall]
    BY <1>10 DEF ReserveOutbound
  <2> HIDE DEF row, c
  <2>4. \A a \in Accounts : a # c.account => available'[a] = available[a]
    BY <1>1, <2>1, <2>2, <2>3, PostAvailable DEF JournalKinds
  <2>5. \A u \in Sessions : u # s /\ outbound[u] # NoCall => outbound[u].account # c.account
    BY <1>1, <2>1 DEF LocksProtectReads, c
  <2>6. \A u \in Sessions : outbound'[u] # NoCall => u # s /\ outbound'[u] = outbound[u]
    BY <1>4, <2>3
  <2>7. \A u \in Sessions : rowcall[u] # NoCall => rowcall[u].tx # c.tx
    BY <1>6, <2>3
  <2>8. \A u \in Sessions : rowcall[u] # NoCall => txn'[rowcall[u].tx] = txn[rowcall[u].tx]
    BY <1>1, <1>3, <2>3, <2>7 DEF LedgerTypeOK
  <2>9. \A u \in Sessions : outbound'[u] \in {outbound[u], NoCall}
    BY <2>6
  <2>10. \A u \in Sessions : outbound'[u] # NoCall /\ outbound[u].summed => outbound[u].seen <= available'[outbound[u].account]
    BY <1>1, <1>5, <2>4, <2>5, <2>6 DEF LocksProtectReads
  <2>11. QED
    BY <1>1, <2>3, <2>8, <2>9, <2>10, ReleaseKeepsLocks
<1>11. ASSUME NEW s \in Sessions, NEW op \in FinishOps, NEW t \in TxIds, LockRow(s, op, t)
       PROVE  LocksProtectReads'
  <2>1. /\ txn' = txn /\ available' = available /\ outbound' = outbound
        /\ rowcall'[s].tx = t /\ rowcall'[s].row = txn[t]
        /\ \A u \in Sessions : u # s => rowcall'[u] = rowcall[u]
        /\ \A u \in Sessions : rowcall[u] # NoCall => rowcall[u].tx # t
    BY <1>4, <1>11 DEF LockRow, RowLocked, ledgerVars, books
  <2>2. QED
    BY <1>1, <2>1 DEF LocksProtectReads
<1>12. ASSUME NEW s \in Sessions, CommitRow(s) PROVE LocksProtectReads'
  <2> DEFINE c == rowcall[s]
  <2>1. c # NoCall /\ c.tx \in TxIds /\ c.row \in Txn /\ c.op \in FinishOps
    BY <1>3, <1>12 DEF CommitRow, Inv, CallsTypeOK, RowCall
  <2>2. /\ Accepts(c.op, c.row) /\ Post(c.tx, c.row, Outcome[c.op].journal) /\ outbound' = outbound
        /\ txn' = [txn EXCEPT ![c.tx].status = Outcome[c.op].status]
        /\ rowcall' = [rowcall EXCEPT ![s] = NoCall]
    BY <1>12 DEF CommitRow
  <2>3. \A u \in Sessions : u # s /\ rowcall[u] # NoCall => rowcall[u].tx # c.tx
    BY <1>1, <2>1 DEF LocksProtectReads
  <2> HIDE DEF c
  <2>4. c.row.amount \in Nat /\ c.row.fee \in Nat /\ c.row.account \in Accounts
    BY <2>1 DEF Txn
  <2>5. /\ Outcome[c.op].journal \in JournalKinds
        /\ Entries(Outcome[c.op].journal, c.row.amount, c.row.fee).available \in Nat
    BY <2>1, <2>2, <2>4 DEF FinishOps, Outcome, JournalKinds, Entries, Bucket, ReserveEntries, CompleteEntries, ReleaseEntries, SettleEntries, Accepts, CanSettlePixIn
  <2>6. \A a \in Accounts : available[a] <= available'[a]
    <3>1. \A a \in Accounts : available[a] \in Int
      BY <1>1 DEF LedgerTypeOK
    <3>2. QED
      BY <1>1, <2>1, <2>2, <2>4, <2>5, <3>1, PostAvailable
  <2>7. \A u \in Sessions : rowcall'[u] # NoCall => u # s /\ rowcall'[u] = rowcall[u]
    BY <1>4, <2>2
  <2>8. \A u \in Sessions : rowcall'[u] # NoCall => txn'[rowcall[u].tx] = txn[rowcall[u].tx]
    BY <1>1, <1>3, <2>2, <2>3, <2>7 DEF LedgerTypeOK
  <2>9. \A a \in Accounts : available[a] \in Int /\ available'[a] \in Int
    BY <1>1, TypeStep DEF TypeInv, LedgerTypeOK
  <2>10. \A u \in Sessions : outbound'[u] # NoCall /\ outbound[u].summed => outbound[u].seen <= available'[outbound[u].account]
    BY <1>1, <1>5, <2>2, <2>6, <2>9 DEF LocksProtectReads
  <2>11. QED
    BY <1>1, <2>2, <2>7, <2>8, <2>10, ReleaseKeepsLocks
<1>13. ASSUME NEW s \in Sessions, Rollback(s) PROVE LocksProtectReads'
  <2>1. /\ txn' = txn /\ available' = available
        /\ \A u \in Sessions : outbound'[u] \in {outbound[u], NoCall} /\ rowcall'[u] \in {rowcall[u], NoCall}
    BY <1>4, <1>13 DEF Rollback, ledgerVars, books
  <2>2. QED
    BY <1>1, <2>1, ReleaseKeepsLocks DEF LocksProtectReads
<1>14. ASSUME NEW t \in TxIds, UpdateRow(t) PROVE LocksProtectReads'
  <2>1. /\ available' = available /\ outbound' = outbound /\ rowcall' = rowcall
        /\ \A u \in TxIds : u # t => txn'[u] = txn[u]
        /\ \A u \in Sessions : rowcall[u] # NoCall => rowcall[u].tx # t
    BY <1>1, <1>14 DEF UpdateRow, RowLocked, Patch, PatchExternalId, PatchStatus, books, calls, LedgerTypeOK
  <2>2. QED
    BY <1>1, <1>3, <2>1, ReleaseKeepsLocks DEF LocksProtectReads
<1>15. ASSUME PublishPricing \/ \E s \in Sessions, t \in TxIds, a \in Accounts, amount \in Amounts : QuotePixIn(s, t, a, amount)
       PROVE  LocksProtectReads'
  BY <1>7, <1>15 DEF PublishPricing, SetMerchantPricing, QuotePixIn, ledgerVars, books, calls
<1>16. ASSUME NEW s \in Sessions, SumAvailable(s) PROVE LocksProtectReads'
  <2>1. /\ txn' = txn /\ available' = available /\ rowcall' = rowcall /\ outbound[s] # NoCall
        /\ outbound'[s].account = outbound[s].account /\ outbound'[s].seen = available[outbound[s].account]
        /\ \A u \in Sessions : u # s => outbound'[u] = outbound[u]
    BY <1>2, <1>4, <1>16 DEF SumAvailable, OutboundCall, ledgerVars, books
  <2>2. available[outbound[s].account] \in Int
    BY <1>1, <1>5, <2>1 DEF LedgerTypeOK
  <2>3. QED
    BY <1>1, <2>1, <2>2 DEF LocksProtectReads
<1>17. QED
  BY <1>7, <1>8, <1>9, <1>10, <1>11, <1>12, <1>13, <1>14, <1>15, <1>16
  DEF Next, Start, vars, ledgerVars, books, calls

\* What a session read under a lock is still so when it posts.
THEOREM ReadsHold == Spec => []Inv
<1>1. Inv /\ [Next]_vars => Inv'
  BY TypeStep, CallsTypeStep, LocksStep DEF Inv
<1>2. QED
  BY InitInv, <1>1, PTL DEF Spec

\* Types of the tables and of the calls in progress.
THEOREM TypeCorrect == Spec => []TypeOK
<1>1. Inv => TypeOK
  BY DEF Inv, TypeInv, TypeOK
<1>2. QED
  BY <1>1, ReadsHold, PTL

\* The locks protect what was read under them.
THEOREM LocksHold == Spec => []LocksProtectReads
<1>1. Inv => LocksProtectReads
  BY DEF Inv
<1>2. QED
  BY <1>1, ReadsHold, PTL

\* The functions under their locks implement the atomic calls of Ledger.
THEOREM Refinement == Spec => LedgerSpec
<1>1. Init => LedgerInit
  BY DEF Init
<1>2. QED
  BY <1>1, ReadsHold, StepRefines, PTL DEF Spec, LedgerSpec

\* Hence no interleaving of the functions overdraws an account,
THEOREM SessionSolvency == Spec => []NoOverdraft
BY Refinement, Solvency, PTL

\* posts a payment twice,
THEOREM SessionPostedOnce == ASSUME ProvidersAgree PROVE Spec => []JournalsMatchStatus
BY Refinement, PostedOnce, PTL

\* reopens a finished one,
THEOREM SessionFinality == ASSUME ProvidersAgree PROVE Spec => FinishedIsFinal
BY Refinement, Finality, PTL

\* keeps more or less reserved than the open payments will debit,
THEOREM SessionReserved == Spec => []ReservedIsOpenDebit
BY Refinement, ReservedCovers, PTL

\* books a fee that no payment earned,
THEOREM SessionRevenue == ASSUME ProvidersAgree PROVE Spec => []RevenueIsRealizedFees
BY Refinement, RevenueRealized, PTL

\* or makes or loses money.
THEOREM SessionMoney == Spec => []BooksBalance
BY Refinement, MoneyConserved, PTL
=============================================================================
