-------------------------- MODULE MCLedgerSessions ---------------------------
(* A small instance of LedgerSessions for TLC. *)
EXTENDS LedgerSessions

CONSTANTS t1, t2, a1, s1, s2

MCTxIds == {t1, t2}
MCAccounts == {a1}
MCSessions == {s1, s2}

\* One opening balance that pays for one of two competing transfers, not both.
MCOpening == [a \in MCAccounts |-> 4]

\* A price list with a fee for every operation: fixed, percentage and bounds.
MCFees ==
    [k \in Kinds |->
        IF k = "pix_in" THEN [fixed |-> 0, bps |-> 3333, min |-> 1, max |-> NoMax]
                        ELSE [fixed |-> 1, bps |-> 5000, min |-> 0, max |-> 1]]
MCTables == {MCFees}
=============================================================================
