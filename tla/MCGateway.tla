------------------------------ MODULE MCGateway ------------------------------
(* Small instances of Gateway for TLC. *)
EXTENDS Gateway

\* Two amounts, so that one key may come back with another body; the balance
\* pays for one payment of the larger amount, not for two.
MCAmounts == {2, 3}
MCOpening == [a \in Accounts |-> 4]

\* A price list with a fixed fee for payments out and a percentage of those in.
MCFees ==
    [k \in Kinds |->
        IF k = "pix_in" THEN [fixed |-> 0, bps |-> 3333, min |-> 1, max |-> NoMax]
                        ELSE [fixed |-> 1, bps |-> 0, min |-> 0, max |-> NoMax]]
MCTables == {MCFees}
=============================================================================
