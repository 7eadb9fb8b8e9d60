--------------------------- MODULE MCLegacyConsole ---------------------------
(* One instance of LegacyConsole for TLC; organizations are interchangeable. *)
EXTENDS LegacyConsole, TLC

OrgSymmetry == Permutations(Orgs)

\* Two requests are under way at once only if one of them is the order of a review.
OrdersOverlap ==
    \/ \E k \in Slots : sends[k] = Unsent
    \/ \E k \in Slots : sends[k].form = "review"
=============================================================================
