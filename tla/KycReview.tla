------------------------------ MODULE KycReview ------------------------------
(***************************************************************************)
(* Verification of merchants: the merchant's page and the pages of several *)
(* reviewers of the React application over the KYC handlers and the        *)
(* database functions of migration 0004.                                   *)
(*                                                                         *)
(* Saving and uploading are admitted by a handler that reads the status    *)
(* and writes in a later call, without a condition on it.  Submitting      *)
(* checks the stored profile, not what is on the screen, and then calls a  *)
(* function that locks the row.  Each screen shows what it last fetched,   *)
(* and need not fetch again: a lost answer is one that no fetch follows.   *)
(***************************************************************************)
EXTENDS Naturals

CONSTANTS
    Merchants,
    Data,           \* contents of the profile form
    Incomplete,     \* those with a required field missing or not valid
    Blank,          \* the contents of a new profile
    NoMerchant,     \* no drawer open
    Reviewers,      \* the open reviewing pages, of one administrator or of several
    NoReviewer,     \* a submission nobody has judged
    Refusals,       \* the decisions that hand a submission back: needs_changes, rejected
    MaxRounds,      \* bound on submissions per merchant
    MaxUploads      \* bound on document versions per merchant

ASSUME KycAssumption ==
    /\ Incomplete \subseteq Data
    /\ Blank \in Incomplete
    /\ NoMerchant \notin Merchants
    /\ NoReviewer \notin Reviewers
    /\ Refusals \subseteq {"needs_changes", "rejected"}
    /\ {MaxRounds, MaxUploads} \subseteq Nat

VARIABLES
    profile,    \* the row and the current document of each merchant
    page,       \* the KYC page of each merchant: what it shows, what it sent
    console,    \* the drawer of each reviewer and what it sent
    detail,     \* the details each reviewer's browser holds, by merchant
    verdict,    \* how each merchant was last judged, and by whom before
    overtaken,  \* merchants with a write after the check of a submission
    astray      \* merchants whose drawer is older than the reviewer's own last decision

merchantVars == <<profile, page, overtaken>>
reviewerVars == <<console, detail, verdict, astray>>
vars == <<merchantVars, reviewerVars>>

Decisions == Refusals \cup {"approved"}
Statuses == {"draft", "submitted", "under_review"} \cup Decisions
Editable == Refusals \cup {"draft"}
Reviewable == {"submitted", "under_review"}

Row == [status: Statuses, data: Data, doc: 0..MaxUploads, round: 0..MaxRounds]
Shown == [status: Statuses, round: 0..MaxRounds]
Unfetched == [status |-> "unfetched"]
Detail == Shown \cup {Unfetched}

Idle == [pc |-> "idle"]
Page == [editable: BOOLEAN, ready: BOOLEAN,
         save: {Idle} \cup [pc: {"write"}, data: Data, round: 0..MaxRounds],
         upload: {Idle} \cup [pc: {"write"}, round: 0..MaxRounds],
         submit: {Idle} \cup [pc: {"write"}]]

\* A panel with a decision remembers the detail it was opened on.
NoPanel == [value |-> "none"]
Panel == {NoPanel} \cup [value: Decisions, merchant: Merchants, on: 0..MaxRounds]
Decide == {Idle} \cup [pc: {"sent", "answer", "settle"}, merchant: Merchants, value: Decisions,
                       seen: 0..MaxRounds, carried: BOOLEAN]
Console == [selected: Merchants \cup {NoMerchant}, panel: Panel, decide: Decide,
            start: {Idle} \cup [pc: {"sent"}, merchant: Merchants]]

\* Who judged each submission; the last one judged, and what its drawer showed.
Verdict == [seen: 0..MaxRounds, round: 0..MaxRounds, carried: BOOLEAN,
            by: [1..MaxRounds -> Reviewers \cup {NoReviewer}]]

Complete(row) == row.data \notin Incomplete /\ row.doc > 0
Locked(row) == row.status \notin Editable
ShownOf(m) == [status |-> profile[m].status, round |-> profile[m].round]

Init ==
    /\ profile = [m \in Merchants |-> [status |-> "draft", data |-> Blank, doc |-> 0, round |-> 0]]
    /\ page = [m \in Merchants |-> [editable |-> TRUE, ready |-> FALSE,
                                    save |-> Idle, upload |-> Idle, submit |-> Idle]]
    /\ console = [r \in Reviewers |-> [selected |-> NoMerchant, panel |-> NoPanel,
                                       decide |-> Idle, start |-> Idle]]
    /\ detail = [r \in Reviewers |-> [m \in Merchants |-> Unfetched]]
    /\ verdict = [m \in Merchants |-> [seen |-> 0, round |-> 0, carried |-> FALSE,
                                       by |-> [k \in 1..MaxRounds |-> NoReviewer]]]
    /\ overtaken = {}
    /\ astray = [r \in Reviewers |-> {}]

(***************************************************************************)
(* The merchant's page.  Each of its three mutations disables only its own *)
(* controls, so they run side by side.  A screen that is not fetched again *)
(* stands for the time a request takes: the click and the check it meets   *)
(* in the handler are one step.                                            *)
(***************************************************************************)
SaveEnabled(m) == page[m].editable /\ page[m].save = Idle
UploadEnabled(m) == page[m].editable /\ page[m].upload = Idle
\* The button needs every required document on the screen, and no field.
SubmitEnabled(m) == page[m].editable /\ page[m].ready /\ page[m].submit = Idle

Put(m, form, request) == page' = [page EXCEPT ![m][form] = request]

\* The query is fetched: the page opens, its data are stale, or a mutation succeeded.
Refetch(m) ==
    /\ page' = [page EXCEPT ![m].editable = ~Locked(profile[m]), ![m].ready = profile[m].doc > 0]
    /\ UNCHANGED <<profile, overtaken, reviewerVars>>

\* Mutant: the handler leaves the status to the page.
SaveAdmit_Unchecked(m) ==
    /\ SaveEnabled(m)
    /\ \E data \in Data :
          Put(m, "save", [pc |-> "write", data |-> data, round |-> profile[m].round])
    /\ UNCHANGED <<profile, overtaken, reviewerVars>>

\* consoleUpdateKYC reads the status before the body: the PATCH comes in a later
\* call.  When the row is locked the request is refused and nothing changes.
SaveAdmit(m) ==
    /\ SaveEnabled(m)
    /\ profile[m].status \in Editable
    /\ \E data \in Data :
          Put(m, "save", [pc |-> "write", data |-> data, round |-> profile[m].round])
    /\ UNCHANGED <<profile, overtaken, reviewerVars>>

\* consoleUploadKYCDocument reads the status before the file.
UploadAdmit(m) ==
    /\ UploadEnabled(m)
    /\ profile[m].status \in Editable
    /\ Put(m, "upload", [pc |-> "write", round |-> profile[m].round])
    /\ UNCHANGED <<profile, overtaken, reviewerVars>>

\* A write overtakes a submission that was checked before it and is not judged yet.
Overtake(m) ==
    overtaken' = IF Locked(profile[m]) \/ page[m].submit.pc = "write"
                 THEN overtaken \cup {m} ELSE overtaken

SaveWrite(m) ==
    /\ page[m].save.pc = "write"
    /\ profile' = [profile EXCEPT ![m].data = page[m].save.data]
    /\ Put(m, "save", Idle)
    /\ Overtake(m)
    /\ UNCHANGED reviewerVars

\* register_merchant_kyc_document
UploadWrite(m) ==
    /\ page[m].upload.pc = "write"
    /\ profile[m].doc < MaxUploads
    /\ profile' = [profile EXCEPT ![m].doc = @ + 1]
    /\ Put(m, "upload", Idle)
    /\ Overtake(m)
    /\ UNCHANGED reviewerVars

\* Mutant: what the page shows as ready is submitted.
SubmitCheck_AsShown(m) ==
    /\ SubmitEnabled(m)
    /\ Put(m, "submit", [pc |-> "write"])
    /\ overtaken' = overtaken \ {m}
    /\ UNCHANGED <<profile, reviewerVars>>

\* The request carries nothing: missingKYCRequirements looks at what is stored.
SubmitCheck(m) ==
    /\ SubmitEnabled(m)
    /\ Complete(profile[m])
    /\ Put(m, "submit", [pc |-> "write"])
    /\ overtaken' = overtaken \ {m}
    /\ UNCHANGED <<profile, reviewerVars>>

\* submit_merchant_kyc
SubmitWrite(m) ==
    /\ page[m].submit.pc = "write"
    /\ IF profile[m].status \in Editable
       THEN /\ profile[m].round < MaxRounds
            /\ profile' = [profile EXCEPT ![m].status = "submitted", ![m].round = @ + 1]
       ELSE UNCHANGED profile
    /\ Put(m, "submit", Idle)
    /\ UNCHANGED <<overtaken, reviewerVars>>

(***************************************************************************)
(* The reviewers' pages.  Each works on what it fetched itself, and a page *)
(* that gets the focus back does not fetch again: nothing tells one        *)
(* reviewer what another did.                                              *)
(***************************************************************************)
Open(r, m) ==
    /\ console[r].selected = NoMerchant
    /\ console' = [console EXCEPT ![r].selected = m]
    /\ UNCHANGED <<merchantVars, detail, verdict, astray>>

\* The cross leaves the decision panel open for the next drawer, the backdrop does not.
Close(r) ==
    /\ console[r].selected # NoMerchant
    /\ \E panel \in {console[r].panel, NoPanel} :
          console' = [console EXCEPT ![r].selected = NoMerchant, ![r].panel = panel]
    /\ UNCHANGED <<merchantVars, detail, verdict, astray>>

FetchDetail(r, m) ==
    /\ console[r].selected = m
    /\ detail' = [detail EXCEPT ![r][m] = ShownOf(m)]
    /\ astray' = [astray EXCEPT ![r] = @ \ {m}]
    /\ UNCHANGED <<merchantVars, console, verdict>>

PickDecision(r, m) ==
    /\ console[r].selected = m
    /\ detail[r][m].status \in Reviewable
    /\ \E value \in Decisions :
          console' = [console EXCEPT ![r].panel =
                         [value |-> value, merchant |-> m, on |-> detail[r][m].round]]
    /\ UNCHANGED <<merchantVars, detail, verdict, astray>>

\* The panel is shown over any fetched detail, whatever its status.
PanelOpen(r, m) ==
    console[r].selected = m /\ console[r].panel # NoPanel /\ detail[r][m] # Unfetched

CancelDecision(r, m) ==
    /\ PanelOpen(r, m)
    /\ console' = [console EXCEPT ![r].panel = NoPanel]
    /\ UNCHANGED <<merchantVars, detail, verdict, astray>>

\* The notes that a refusal needs are whatever the reviewer typed, for whichever merchant.
ConfirmDecision(r, m) ==
    /\ PanelOpen(r, m)
    /\ console[r].decide = Idle
    /\ console' = [console EXCEPT ![r].decide =
                      [pc |-> "sent", merchant |-> m, value |-> console[r].panel.value,
                       seen |-> detail[r][m].round,
                       carried |-> \/ console[r].panel.merchant # m
                                   \/ console[r].panel.on # detail[r][m].round
                                   \/ detail[r][m].status \notin Reviewable
                                   \/ m \in astray[r]]]
    /\ UNCHANGED <<merchantVars, detail, verdict, astray>>

\* The verdict on the submission of m there is, by what r sent.
VerdictOf(r, m) ==
    [seen |-> console[r].decide.seen, round |-> profile[m].round,
     carried |-> console[r].decide.carried,
     by |-> [verdict[m].by EXCEPT ![profile[m].round] = r]]

\* Mutant: the function decides whatever the status.
DecideApply_AnyStatus(r, m) ==
    /\ console[r].decide.pc = "sent"
    /\ console[r].decide.merchant = m
    /\ profile' = [profile EXCEPT ![m].status = console[r].decide.value]
    /\ verdict' = [verdict EXCEPT ![m] = VerdictOf(r, m)]
    /\ console' = [console EXCEPT ![r].decide.pc = "answer"]
    /\ UNCHANGED <<page, overtaken, detail, astray>>

\* decide_merchant_kyc: the call names the merchant, not the submission.
DecideApply(r, m) ==
    /\ console[r].decide.pc = "sent"
    /\ console[r].decide.merchant = m
    /\ IF profile[m].status \in Reviewable
       THEN /\ profile' = [profile EXCEPT ![m].status = console[r].decide.value]
            /\ verdict' = [verdict EXCEPT ![m] = VerdictOf(r, m)]
            /\ console' = [console EXCEPT ![r].decide.pc = "answer"]
       ELSE /\ console' = [console EXCEPT ![r].decide = Idle]
            /\ UNCHANGED <<profile, verdict>>
    /\ UNCHANGED <<page, overtaken, detail, astray>>

\* onSuccess clears the panel, then waits for the refetches.
DecideAnswered(r) ==
    /\ console[r].decide.pc = "answer"
    /\ console' = [console EXCEPT ![r].decide.pc = "settle", ![r].panel = NoPanel]
    /\ UNCHANGED <<merchantVars, detail, verdict, astray>>

\* Mutant: only the queue is invalidated.
DecideSettled_QueueOnly(r) ==
    /\ console[r].decide.pc = "settle"
    /\ console' = [console EXCEPT ![r].decide = Idle]
    /\ UNCHANGED <<merchantVars, detail, verdict, astray>>

\* What is refetched is the drawer open now, not the merchant that was judged.
DecideSettled(r) ==
    /\ console[r].decide.pc = "settle"
    /\ console' = [console EXCEPT ![r].decide = Idle]
    /\ detail' = [detail EXCEPT ![r] =
                     [m \in Merchants |-> IF m = console[r].selected THEN ShownOf(m) ELSE @[m]]]
    /\ LET judged == console[r].decide.merchant IN
       astray' = [astray EXCEPT ![r] =
                     IF console[r].selected = judged THEN @ \ {judged} ELSE @ \cup {judged}]
    /\ UNCHANGED <<merchantVars, verdict>>

StartClick(r, m) ==
    /\ console[r].selected = m
    /\ detail[r][m].status = "submitted"
    /\ console[r].start = Idle
    /\ console' = [console EXCEPT ![r].start = [pc |-> "sent", merchant |-> m]]
    /\ UNCHANGED <<merchantVars, detail, verdict, astray>>

\* Mutant: a status that the type of the column does not know.
StartApply_Renamed(r, m) ==
    /\ console[r].start.pc = "sent"
    /\ console[r].start.merchant = m
    /\ profile' = [profile EXCEPT ![m].status = IF @ \in Reviewable THEN "in_review" ELSE @]
    /\ console' = [console EXCEPT ![r].start = Idle]
    /\ UNCHANGED <<page, overtaken, detail, verdict, astray>>

\* start_merchant_kyc_review
StartApply(r, m) ==
    /\ console[r].start.pc = "sent"
    /\ console[r].start.merchant = m
    /\ IF profile[m].status \in Reviewable
       THEN /\ profile' = [profile EXCEPT ![m].status = "under_review"]
       ELSE UNCHANGED profile
    /\ console' = [console EXCEPT ![r].start = Idle]
    /\ UNCHANGED <<page, overtaken, detail, verdict, astray>>

\* The answer, or the refetch after it, is lost; the panel may stay open.
DecideLost(r) ==
    /\ console[r].decide.pc \in {"answer", "settle"}
    /\ console' = [console EXCEPT ![r].decide = Idle]
    /\ astray' = [astray EXCEPT ![r] = @ \cup {console[r].decide.merchant}]
    /\ UNCHANGED <<merchantVars, detail, verdict>>

MerchantStep(m) ==
    \/ Refetch(m) \/ SaveAdmit(m) \/ SaveWrite(m) \/ UploadAdmit(m) \/ UploadWrite(m)
    \/ SubmitCheck(m) \/ SubmitWrite(m)

ReviewerStep(r, m) ==
    \/ Open(r, m) \/ FetchDetail(r, m) \/ PickDecision(r, m) \/ CancelDecision(r, m)
    \/ ConfirmDecision(r, m) \/ DecideApply(r, m) \/ StartClick(r, m) \/ StartApply(r, m)

PageStep(r) == Close(r) \/ DecideAnswered(r) \/ DecideSettled(r) \/ DecideLost(r)

Next ==
    \/ \E m \in Merchants : MerchantStep(m)
    \/ \E r \in Reviewers : PageStep(r) \/ \E m \in Merchants : ReviewerStep(r, m)

Spec == Init /\ [][Next]_vars

(***************************************************************************)
(* Properties.                                                             *)
(***************************************************************************)

\* The values the variables take.
KycTypeOK ==
    /\ profile \in [Merchants -> Row]
    /\ page \in [Merchants -> Page]
    /\ console \in [Reviewers -> Console]
    /\ detail \in [Reviewers -> [Merchants -> Detail]]
    /\ verdict \in [Merchants -> Verdict]
    /\ overtaken \subseteq Merchants
    /\ astray \in [Reviewers -> SUBSET Merchants]

\* What a reviewer is asked to judge, or has approved, has every required field
\* and document, unless a write that was admitted earlier landed after the check
\* of the submission (consoleSubmitKYC checks in one call and submits in another).
UnderReviewIsComplete ==
    \A m \in Merchants : Locked(profile[m]) => Complete(profile[m]) \/ m \in overtaken

\* "Depois do envio, os dados ficam bloqueados": what is locked is changed at most
\* by the save and the upload that were admitted before that very submission.
LockIsOvertakenOnlyByEarlierWrites ==
    [][\A m \in Merchants :
          Locked(profile[m]) =>
             /\ profile'[m].data # profile[m].data =>
                   page[m].save.pc = "write" /\ page[m].save.round < profile[m].round
             /\ profile'[m].doc # profile[m].doc =>
                   page[m].upload.pc = "write" /\ page[m].upload.round < profile[m].round]_vars

\* A decision falls on the submission the drawer showed, unless the panel was
\* carried over from another merchant, an earlier submission or one the drawer
\* shows as judged, or the drawer was never fetched again after the reviewer's
\* previous decision (it had moved on when that decision settled, or the answer
\* was lost), or another reviewer has meanwhile judged a submission in between:
\* decide_merchant_kyc looks at the status alone.
JudgedAsSeen ==
    \A m \in Merchants :
        LET v == verdict[m] IN
        \/ v.carried
        \/ v.seen = v.round
        \/ \E k \in 1..MaxRounds : v.seen <= k /\ k < v.round /\ v.by[k] # v.by[v.round]

\* The pages, the handlers and the database together keep the life cycle of a
\* verification: no lost answer and no stale screen judges a submission twice,
\* reopens an approval or skips a submission.
Lifecycle == INSTANCE KycLifecycle WITH
    status <- [m \in Merchants |-> profile[m].status],
    round <- [m \in Merchants |-> profile[m].round],
    judged <- [m \in Merchants |-> verdict[m].round]

KeepsLifecycle == Lifecycle!LifecycleSpec

=============================================================================
