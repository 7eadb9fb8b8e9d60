---------------------------- MODULE KycLifecycle ----------------------------
(***************************************************************************)
(* What the verification of a merchant promises, whoever asks for what and *)
(* in whatever order: a merchant submits, a reviewer may open a review,    *)
(* and each submission is judged at most once.  An approval is final.      *)
(***************************************************************************)
EXTENDS Naturals

CONSTANTS
    Merchants,
    Refusals    \* the decisions that hand a submission back

VARIABLES
    status,     \* merchant_kyc_profiles.status
    round,      \* submissions so far
    judged      \* the last submission that was judged

lifecycleVars == <<status, round, judged>>

Decisions == Refusals \cup {"approved"}
Editable == Refusals \cup {"draft"}
Reviewable == {"submitted", "under_review"}

LifecycleInit ==
    /\ status = [m \in Merchants |-> "draft"]
    /\ round = [m \in Merchants |-> 0]
    /\ judged = [m \in Merchants |-> 0]

Submitted(m) ==
    /\ status[m] \in Editable
    /\ status' = [status EXCEPT ![m] = "submitted"]
    /\ round' = [round EXCEPT ![m] = @ + 1]
    /\ UNCHANGED judged

ReviewStarted(m) ==
    /\ status[m] \in Reviewable
    /\ status' = [status EXCEPT ![m] = "under_review"]
    /\ UNCHANGED <<round, judged>>

Judged(m) ==
    /\ status[m] \in Reviewable
    /\ judged[m] < round[m]
    /\ \E decision \in Decisions : status' = [status EXCEPT ![m] = decision]
    /\ judged' = [judged EXCEPT ![m] = round[m]]
    /\ UNCHANGED round

LifecycleNext == \E m \in Merchants : Submitted(m) \/ ReviewStarted(m) \/ Judged(m)

LifecycleSpec == LifecycleInit /\ [][LifecycleNext]_lifecycleVars

=============================================================================
