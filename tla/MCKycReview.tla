---------------------------- MODULE MCKycReview ----------------------------
(***************************************************************************)
(* One instance of KycReview for TLC.  Two reviewers and busy forms meet   *)
(* only in the row, so a behaviour has one or the other.                   *)
(***************************************************************************)
EXTENDS KycReview, TLC

Alike == Permutations(Reviewers)

\* A reviewer who has not looked at anything.
Absent(r) ==
    /\ console[r] = [selected |-> NoMerchant, panel |-> NoPanel, decide |-> Idle, start |-> Idle]
    /\ \A m \in Merchants : detail[r][m] = Unfetched

OneReviewer == \E r \in Reviewers : \A s \in Reviewers \ {r} : Absent(s)

\* The merchant has filled in its form, and submits again as it is what is handed back.
FormsAreQuiet ==
    \A m \in Merchants :
        /\ page[m].save = Idle /\ page[m].upload = Idle
        /\ Complete(profile[m]) /\ profile[m].doc = 1 /\ m \notin overtaken

\* Nobody starts a review formally: a submission can be judged without.
NobodyStarts == \A r \in Reviewers : console[r].start = Idle

OneOrTwoReviewers == OneReviewer \/ (FormsAreQuiet /\ NobodyStarts)

=============================================================================
