--------------------------- MODULE LedgerSessions ----------------------------
(***************************************************************************)
(* The Postgres functions of Ledger as the database runs them: a session   *)
(* takes the row lock the function asks for, reads, and later posts and    *)
(* commits, with the steps of other sessions in between.  begin_outbound   *)
(* locks the account row; settle_pix_in, complete_outbound and             *)
(* fail_outbound lock the transaction row, which every UPDATE of that row  *)
(* has to wait for as well; begin_pix_in locks nothing.  The sum of the    *)
(* available entries, the pricing version and the transaction row are read *)
(* once and used at the commit.  A session may roll back at any time.      *)
(***************************************************************************)
EXTENDS Ledger

CONSTANTS
    Sessions,   \* database connections that run these functions
    NoCall      \* the session is not inside such a function

\* What each kind of call has read and holds.
InboundCall == [tx: TxIds, account: Accounts, amount: Amounts, version: Nat]
OutboundCall == [tx: TxIds, account: Accounts, kind: OutboundKinds, amount: Amounts,
                 version: Nat, summed: BOOLEAN, seen: Int]
FinishOps == {"settle", "complete", "fail"}
RowCall == [op: FinishOps, tx: TxIds, row: Txn]

ASSUME SessionsAssumption ==
    NoCall \notin InboundCall /\ NoCall \notin OutboundCall /\ NoCall \notin RowCall

VARIABLES
    inbound,    \* begin_pix_in calls in progress
    outbound,   \* begin_outbound calls in progress, each holding an account lock
    rowcall     \* settle / complete / fail calls, each holding a row lock

calls == <<inbound, outbound, rowcall>>
vars == <<ledgerVars, calls>>

AccountLocked(a) == \E s \in Sessions : outbound[s] # NoCall /\ outbound[s].account = a
RowLocked(t) == \E s \in Sessions : rowcall[s] # NoCall /\ rowcall[s].tx = t
Idle(s) == inbound[s] = NoCall /\ outbound[s] = NoCall /\ rowcall[s] = NoCall

Init ==
    /\ LedgerInit
    /\ inbound = [s \in Sessions |-> NoCall]
    /\ outbound = [s \in Sessions |-> NoCall]
    /\ rowcall = [s \in Sessions |-> NoCall]

-----------------------------------------------------------------------------
\* begin_pix_in: check the account and quote the fee, then insert the row.
QuotePixIn(s, t, a, amount) ==
    /\ Idle(s)
    /\ inbound' = [inbound EXCEPT ![s] =
          [tx |-> t, account |-> a, amount |-> amount, version |-> Len(pricing)]]
    /\ UNCHANGED <<ledgerVars, outbound, rowcall>>

InsertPixIn(s) ==
    LET c == inbound[s]
    IN  /\ c # NoCall
        /\ BeginPixIn(c.tx, c.account, c.amount, c.version)
        /\ inbound' = [inbound EXCEPT ![s] = NoCall]
        /\ UNCHANGED <<outbound, rowcall>>

\* Mutant: the account row is read without "for update".
LockAccount_Unlocked(s, t, a, kind, amount) ==
    /\ Idle(s)
    /\ outbound' = [outbound EXCEPT ![s] =
          [tx |-> t, account |-> a, kind |-> kind, amount |-> amount,
           version |-> Len(pricing), summed |-> FALSE, seen |-> 0]]
    /\ UNCHANGED <<ledgerVars, inbound, rowcall>>

\* begin_outbound: lock the account and quote the fee, sum the available
\* entries, then reserve what the sum allows.
LockAccount(s, t, a, kind, amount) ==
    /\ Idle(s)
    /\ ~AccountLocked(a)
    /\ outbound' = [outbound EXCEPT ![s] =
          [tx |-> t, account |-> a, kind |-> kind, amount |-> amount,
           version |-> Len(pricing), summed |-> FALSE, seen |-> 0]]
    /\ UNCHANGED <<ledgerVars, inbound, rowcall>>

SumAvailable(s) ==
    /\ outbound[s] # NoCall /\ ~outbound[s].summed
    /\ outbound' = [outbound EXCEPT ![s].summed = TRUE, ![s].seen = available[outbound[s].account]]
    /\ UNCHANGED <<ledgerVars, inbound, rowcall>>

ReserveOutbound(s) ==
    LET c   == outbound[s]
        row == NewTxn(c.kind, c.account, c.amount, c.version)
    IN  /\ c # NoCall /\ c.summed
        /\ c.seen >= row.amount + row.fee
        /\ ~Exists(c.tx)
        /\ txn' = [txn EXCEPT ![c.tx] = row]
        /\ Post(c.tx, row, "reserve_outbound")
        /\ outbound' = [outbound EXCEPT ![s] = NoCall]
        /\ UNCHANGED <<pricing, inbound, rowcall>>

\* Mutant: the transaction row is read without "for update".
LockRow_Unlocked(s, op, t) ==
    /\ Idle(s)
    /\ Exists(t)
    /\ rowcall' = [rowcall EXCEPT ![s] = [op |-> op, tx |-> t, row |-> txn[t]]]
    /\ UNCHANGED <<ledgerVars, inbound, outbound>>

\* settle_pix_in, complete_outbound, fail_outbound: lock and read the row.
LockRow(s, op, t) ==
    /\ Idle(s)
    /\ Exists(t) /\ ~RowLocked(t)
    /\ rowcall' = [rowcall EXCEPT ![s] = [op |-> op, tx |-> t, row |-> txn[t]]]
    /\ UNCHANGED <<ledgerVars, inbound, outbound>>

\* The final status a call gives, the journal it posts, and the rows it
\* accepts; for any other row it returns or raises, and the session ends as
\* in Rollback.
Outcome == [settle   |-> [journal |-> "settle_pix_in",     status |-> "succeeded"],
            complete |-> [journal |-> "complete_outbound", status |-> "succeeded"],
            fail     |-> [journal |-> "release_outbound",  status |-> "failed"]]
Accepts(op, row) == IF op = "settle" THEN CanSettlePixIn(row) ELSE CanFinishOutbound(row)

\* Mutant: a call that finds a finished row goes on.
CommitRow_AnyStatus(s) ==
    LET c == rowcall[s]
    IN  /\ c # NoCall
        /\ Post(c.tx, c.row, Outcome[c.op].journal)
        /\ txn' = [txn EXCEPT ![c.tx].status = Outcome[c.op].status]
        /\ rowcall' = [rowcall EXCEPT ![s] = NoCall]
        /\ UNCHANGED <<pricing, inbound, outbound>>

CommitRow(s) ==
    LET c == rowcall[s]
    IN  /\ c # NoCall
        /\ Accepts(c.op, c.row)
        /\ Post(c.tx, c.row, Outcome[c.op].journal)
        /\ txn' = [txn EXCEPT ![c.tx].status = Outcome[c.op].status]
        /\ rowcall' = [rowcall EXCEPT ![s] = NoCall]
        /\ UNCHANGED <<pricing, inbound, outbound>>

\* The call raises, finds nothing to do, or its client is gone.
Rollback(s) ==
    /\ ~Idle(s)
    /\ inbound' = [inbound EXCEPT ![s] = NoCall]
    /\ outbound' = [outbound EXCEPT ![s] = NoCall]
    /\ rowcall' = [rowcall EXCEPT ![s] = NoCall]
    /\ UNCHANGED ledgerVars

\* Mutant: an UPDATE goes past the lock.
UpdateRow_PastLock(t) == Patch(t) /\ UNCHANGED calls

\* An UPDATE from the handlers waits for the row lock.
UpdateRow(t) == ~RowLocked(t) /\ Patch(t) /\ UNCHANGED calls

PublishPricing == (\E table \in PricingTables : SetMerchantPricing(table)) /\ UNCHANGED calls

Start(s) ==
    \E t \in TxIds :
        \/ \E a \in Accounts, amount \in Amounts :
              \/ QuotePixIn(s, t, a, amount)
              \/ \E kind \in OutboundKinds : LockAccount(s, t, a, kind, amount)
        \/ \E op \in FinishOps : LockRow(s, op, t)

Next ==
    \/ \E s \in Sessions : Start(s) \/ InsertPixIn(s) \/ SumAvailable(s) \/ ReserveOutbound(s) \/ CommitRow(s)
                       \/ Rollback(s)
    \/ \E t \in TxIds : UpdateRow(t)
    \/ PublishPricing

Spec == Init /\ [][Next]_vars

-----------------------------------------------------------------------------
(* Properties *)

\* Every call in progress has the type of its kind, and quotes a pricing
\* version that has been published.
CallsTypeOK ==
    /\ inbound \in [Sessions -> InboundCall \cup {NoCall}]
    /\ outbound \in [Sessions -> OutboundCall \cup {NoCall}]
    /\ rowcall \in [Sessions -> RowCall \cup {NoCall}]
    /\ \A s \in Sessions :
        /\ inbound[s] # NoCall => inbound[s].version \in 1..Len(pricing)
        /\ outbound[s] # NoCall => outbound[s].version \in 1..Len(pricing)

TypeOK == LedgerTypeOK /\ CallsTypeOK

\* What a session holds under a lock is still true: no two sessions hold the
\* same account or row, the balance begin_outbound summed is still there,
\* and the row a final call read has not changed since.
LocksProtectReads ==
    /\ \A s \in Sessions :
        outbound[s] # NoCall /\ outbound[s].summed => outbound[s].seen <= available[outbound[s].account]
    /\ \A s \in Sessions : rowcall[s] # NoCall => rowcall[s].row = txn[rowcall[s].tx]
    /\ \A s1, s2 \in Sessions : s1 # s2 =>
        /\ outbound[s1] # NoCall /\ outbound[s2] # NoCall => outbound[s1].account # outbound[s2].account
        /\ rowcall[s1] # NoCall /\ rowcall[s2] # NoCall => rowcall[s1].tx # rowcall[s2].tx
=============================================================================
