--------------------------- MODULE KycReviewProofs ---------------------------
(***************************************************************************)
(* The verification of merchants, for any number of merchants, reviewers,  *)
(* contents of the form, submissions and document versions: what the       *)
(* screens and the requests under way still know of the stored profile.    *)
(***************************************************************************)
EXTENDS KycReview, TLAPS

\* A save or an upload under way was admitted before the submission that locks
\* the profile, and what is submitted was complete or has been overtaken.
RequestsAreOld ==
    \A m \in Merchants :
        /\ page[m].save.pc = "write" =>
              /\ page[m].save.round <= profile[m].round
              /\ Locked(profile[m]) => page[m].save.round < profile[m].round
        /\ page[m].upload.pc = "write" =>
              /\ page[m].upload.round <= profile[m].round
              /\ Locked(profile[m]) => page[m].upload.round < profile[m].round

CheckedIsComplete ==
    \A m \in Merchants : page[m].submit.pc = "write" => Complete(profile[m]) \/ m \in overtaken

\* A submission that can be judged has not been judged.
VerdictIsPast ==
    \A m \in Merchants :
        /\ verdict[m].round <= profile[m].round
        /\ profile[m].status \in Reviewable => verdict[m].round < profile[m].round

\* What the drawer shows of m is the submission there is.
Accurate(m, shownRound) == profile[m].status \in Reviewable /\ profile[m].round = shownRound

\* Another reviewer than r has judged that submission or a later one.
Overruled(r, m, shownRound) ==
    \E k \in 1..MaxRounds :
        shownRound <= k /\ k <= verdict[m].round /\ verdict[m].by[k] # r

Knows(r, m, shownRound) == Accurate(m, shownRound) \/ Overruled(r, m, shownRound)

\* The answer to r's decision on m, or the refetch after it, is still to come.
Judging(r, m) ==
    console[r].decide.pc \in {"answer", "settle"} /\ console[r].decide.merchant = m

\* A drawer shows the submission there is unless it is known to be astray, is
\* about to be refetched or another reviewer was faster; a decision made from it
\* falls on that submission.
ScreenOf(r) ==
    /\ \A m \in Merchants :
          m \notin astray[r] /\ detail[r][m].status \in Reviewable =>
              Knows(r, m, detail[r][m].round) \/ Judging(r, m)
    /\ console[r].decide.pc = "sent" /\ ~console[r].decide.carried =>
          Knows(r, console[r].decide.merchant, console[r].decide.seen)

ScreenIsAccurate == \A r \in Reviewers : ScreenOf(r)

KycInv ==
    /\ KycTypeOK /\ RequestsAreOld /\ CheckedIsComplete /\ VerdictIsPast
    /\ ScreenIsAccurate /\ UnderReviewIsComplete /\ JudgedAsSeen

-----------------------------------------------------------------------------
(* Types *)

LEMMA KycTypeInitial == Init => KycTypeOK
BY KycAssumption DEF Init, KycTypeOK, Row, Page, Console, Detail, Idle, NoPanel, Panel, Decide,
                     Statuses, Decisions, Unfetched, Verdict

LEMMA MerchantType ==
    ASSUME KycTypeOK, NEW m \in Merchants, MerchantStep(m)
    PROVE  KycTypeOK'
<1> USE DEF KycTypeOK, merchantVars, reviewerVars
<1>0. profile[m] \in Row /\ page[m] \in Page
  OBVIOUS
<1>1. CASE Refetch(m)
  <2> DEFINE editable == ~Locked(profile[m])
             ready == profile[m].doc > 0
  <2>1. editable \in BOOLEAN /\ ready \in BOOLEAN
    OBVIOUS
  <2>2. page' = [page EXCEPT ![m].editable = editable, ![m].ready = ready]
    BY <1>1 DEF Refetch
  <2> HIDE DEF editable, ready
  <2>3. [[page[m] EXCEPT !.editable = editable] EXCEPT !.ready = ready] \in Page
    BY <1>0, <2>1 DEF Page
  <2>4. page' \in [Merchants -> Page]
    BY <2>2, <2>3
  <2>5. QED
    BY <1>1, <2>4 DEF Refetch
<1>2. CASE SaveAdmit(m)
  <2>1. PICK data \in Data :
           page' = [page EXCEPT ![m].save = [pc |-> "write", data |-> data, round |-> profile[m].round]]
    BY <1>2 DEF SaveAdmit, Put
  <2>2. page' \in [Merchants -> Page]
    BY <1>0, <2>1 DEF Page, Row
  <2>3. QED
    BY <1>2, <2>2 DEF SaveAdmit
<1>3. CASE SaveWrite(m)
  <2>1. page[m].save.data \in Data
    BY <1>0, <1>3 DEF SaveWrite, Page, Idle
  <2>2. profile' \in [Merchants -> Row]
    BY <1>0, <1>3, <2>1 DEF SaveWrite, Row
  <2>3. page' \in [Merchants -> Page]
    BY <1>0, <1>3 DEF SaveWrite, Put, Page
  <2>4. overtaken' \subseteq Merchants
    BY <1>3 DEF SaveWrite, Overtake
  <2>5. QED
    BY <1>3, <2>2, <2>3, <2>4 DEF SaveWrite
<1>4. CASE UploadAdmit(m)
  BY <1>0, <1>4 DEF UploadAdmit, Put, Page, Row
<1>5. CASE UploadWrite(m)
  <2>1. profile' \in [Merchants -> Row]
    BY <1>0, <1>5, KycAssumption DEF UploadWrite, Row
  <2>2. page' \in [Merchants -> Page]
    BY <1>0, <1>5 DEF UploadWrite, Put, Page
  <2>3. overtaken' \subseteq Merchants
    BY <1>5 DEF UploadWrite, Overtake
  <2>4. QED
    BY <1>5, <2>1, <2>2, <2>3 DEF UploadWrite
<1>6. CASE SubmitCheck(m)
  BY <1>0, <1>6 DEF SubmitCheck, Put, Page
<1>7. CASE SubmitWrite(m)
  <2>1. profile' \in [Merchants -> Row]
    BY <1>0, <1>7, KycAssumption DEF SubmitWrite, Row, Statuses
  <2>2. page' \in [Merchants -> Page]
    BY <1>0, <1>7 DEF SubmitWrite, Put, Page
  <2>3. QED
    BY <1>7, <2>1, <2>2 DEF SubmitWrite
<1>8. QED
  BY <1>1, <1>2, <1>3, <1>4, <1>5, <1>6, <1>7 DEF MerchantStep

\* What a drawer holds, as its actions need it.
LEMMA ConsoleParts ==
    ASSUME KycTypeOK, NEW r \in Reviewers, NEW m \in Merchants
    PROVE  /\ profile[m] \in Row /\ console[r] \in Console /\ detail[r][m] \in Detail
           /\ detail[r] \in [Merchants -> Detail] /\ astray[r] \subseteq Merchants
           /\ verdict[m] \in Verdict /\ ShownOf(m) \in Detail
           /\ detail[r][m] # Unfetched => detail[r][m] \in Shown
           /\ detail[r][m].status \in Reviewable => detail[r][m] \in Shown
           /\ console[r].decide.pc # "idle" => console[r].decide \in Decide \ {Idle}
<1>1. /\ profile[m] \in Row /\ console[r] \in Console /\ detail[r] \in [Merchants -> Detail]
      /\ astray[r] \subseteq Merchants /\ verdict[m] \in Verdict
  BY DEF KycTypeOK
<1>2. ShownOf(m) \in Detail
  BY <1>1 DEF Row, ShownOf, Detail, Shown
<1>3. /\ detail[r][m] # Unfetched => detail[r][m] \in Shown
      /\ detail[r][m].status \in Reviewable => detail[r][m] \in Shown
  BY <1>1 DEF Detail, Unfetched, Reviewable
<1>4. console[r].decide.pc # "idle" => console[r].decide \in Decide \ {Idle}
  BY <1>1 DEF Console, Idle, Decide
<1>5. QED
  BY <1>1, <1>2, <1>3, <1>4

LEMMA ReviewerType ==
    ASSUME KycTypeOK, NEW r \in Reviewers, NEW m \in Merchants, ReviewerStep(r, m)
    PROVE  KycTypeOK'
<1> USE DEF KycTypeOK, merchantVars, reviewerVars
<1>0. /\ profile[m] \in Row /\ console[r] \in Console /\ detail[r][m] \in Detail
      /\ detail[r] \in [Merchants -> Detail] /\ astray[r] \subseteq Merchants
      /\ verdict[m] \in Verdict /\ ShownOf(m) \in Detail
      /\ detail[r][m] # Unfetched => detail[r][m] \in Shown
      /\ detail[r][m].status \in Reviewable => detail[r][m] \in Shown
      /\ console[r].decide.pc # "idle" => console[r].decide \in Decide \ {Idle}
  BY ConsoleParts
<1>1. CASE Open(r, m)
  <2>1. [console[r] EXCEPT !.selected = m] \in Console
    BY <1>0 DEF Console
  <2>2. QED
    BY <1>1, <2>1 DEF Open
<1>2. CASE FetchDetail(r, m)
  <2>1. [detail[r] EXCEPT ![m] = ShownOf(m)] \in [Merchants -> Detail]
    BY <1>0
  <2>2. detail' \in [Reviewers -> [Merchants -> Detail]]
    BY <1>2, <2>1 DEF FetchDetail
  <2>3. astray' \in [Reviewers -> SUBSET Merchants]
    BY <1>0, <1>2 DEF FetchDetail
  <2>4. QED
    BY <1>2, <2>2, <2>3 DEF FetchDetail
<1>3. CASE PickDecision(r, m)
  <2>1. detail[r][m].round \in 0..MaxRounds
    BY <1>0, <1>3 DEF PickDecision, Shown
  <2>2. PICK value \in Decisions :
           console' = [console EXCEPT ![r].panel =
                          [value |-> value, merchant |-> m, on |-> detail[r][m].round]]
    BY <1>3 DEF PickDecision
  <2>3. [console[r] EXCEPT !.panel = [value |-> value, merchant |-> m, on |-> detail[r][m].round]]
           \in Console
    BY <1>0, <2>1 DEF Console, Panel
  <2>4. QED
    BY <1>3, <2>2, <2>3 DEF PickDecision
<1>4. CASE CancelDecision(r, m)
  <2>1. [console[r] EXCEPT !.panel = NoPanel] \in Console
    BY <1>0 DEF Console, Panel
  <2>2. QED
    BY <1>4, <2>1 DEF CancelDecision
<1>5. CASE ConfirmDecision(r, m)
  <2>1. detail[r][m].round \in 0..MaxRounds
    BY <1>0, <1>5 DEF ConfirmDecision, PanelOpen, Shown
  <2>2. console[r].panel.value \in Decisions
    BY <1>0, <1>5 DEF ConfirmDecision, PanelOpen, Console, Panel
  <2> DEFINE carried == \/ console[r].panel.merchant # m
                        \/ console[r].panel.on # detail[r][m].round
                        \/ detail[r][m].status \notin Reviewable
                        \/ m \in astray[r]
  <2>3. /\ console' = [console EXCEPT ![r].decide =
                          [pc |-> "sent", merchant |-> m, value |-> console[r].panel.value,
                           seen |-> detail[r][m].round, carried |-> carried]]
        /\ carried \in BOOLEAN
    BY <1>5 DEF ConfirmDecision
  <2> HIDE DEF carried
  <2>4. [console[r] EXCEPT !.decide =
              [pc |-> "sent", merchant |-> m, value |-> console[r].panel.value,
               seen |-> detail[r][m].round, carried |-> carried]] \in Console
    BY <1>0, <2>1, <2>2, <2>3 DEF Console, Decide
  <2>5. QED
    BY <1>5, <2>3, <2>4 DEF ConfirmDecision
<1>6. CASE DecideApply(r, m)
  <2>1. /\ console[r].decide.value \in Decisions /\ console[r].decide.seen \in 0..MaxRounds
        /\ console[r].decide.carried \in BOOLEAN
    BY <1>0, <1>6 DEF DecideApply, Decide
  <2>2. profile' \in [Merchants -> Row]
    <3>1. [profile[m] EXCEPT !.status = console[r].decide.value] \in Row
      BY <1>0, <2>1 DEF Row, Statuses
    <3>2. QED
      BY <1>6, <3>1 DEF DecideApply
  <2>3. console' \in [Reviewers -> Console]
    <3>1. /\ [console[r] EXCEPT !.decide.pc = "answer"] \in Console
          /\ [console[r] EXCEPT !.decide = Idle] \in Console
      BY <1>0, <1>6 DEF DecideApply, Console, Decide
    <3>2. QED
      BY <1>6, <3>1 DEF DecideApply
  <2>4. verdict' \in [Merchants -> Verdict]
    <3>1. [verdict[m].by EXCEPT ![profile[m].round] = r] \in [1..MaxRounds -> Reviewers \cup {NoReviewer}]
      BY <1>0 DEF Verdict
    <3>2. VerdictOf(r, m) \in Verdict
      BY <1>0, <2>1, <3>1 DEF Row, Verdict, VerdictOf
    <3>3. QED
      BY <1>6, <3>2 DEF DecideApply
  <2>5. QED
    BY <1>6, <2>2, <2>3, <2>4 DEF DecideApply
<1>7. CASE StartClick(r, m)
  <2>1. [console[r] EXCEPT !.start = [pc |-> "sent", merchant |-> m]] \in Console
    BY <1>0 DEF Console
  <2>2. QED
    BY <1>7, <2>1 DEF StartClick
<1>8. CASE StartApply(r, m)
  <2>1. [profile[m] EXCEPT !.status = "under_review"] \in Row
    BY <1>0 DEF Row, Statuses
  <2>2. profile' \in [Merchants -> Row]
    BY <1>8, <2>1 DEF StartApply
  <2>3. [console[r] EXCEPT !.start = Idle] \in Console
    BY <1>0 DEF Console
  <2>4. QED
    BY <1>8, <2>2, <2>3 DEF StartApply
<1>9. QED
  BY <1>1, <1>2, <1>3, <1>4, <1>5, <1>6, <1>7, <1>8 DEF ReviewerStep

LEMMA PageType ==
    ASSUME KycTypeOK, NEW r \in Reviewers, PageStep(r)
    PROVE  KycTypeOK'
<1> USE DEF KycTypeOK, merchantVars
<1>0. /\ console[r] \in Console /\ detail[r] \in [Merchants -> Detail] /\ astray[r] \subseteq Merchants
      /\ console[r].decide.pc # "idle" => console[r].decide \in Decide \ {Idle}
  BY DEF Console, Decide, Idle
<1>1. CASE Close(r)
  <2>1. PICK panel \in {console[r].panel, NoPanel} :
           console' = [console EXCEPT ![r].selected = NoMerchant, ![r].panel = panel]
    BY <1>1 DEF Close
  <2>2. [[console[r] EXCEPT !.selected = NoMerchant] EXCEPT !.panel = panel] \in Console
    BY <1>0, <2>1 DEF Console, Panel
  <2>3. QED
    BY <1>1, <2>1, <2>2 DEF Close
<1>2. CASE DecideAnswered(r)
  <2>1. [[console[r] EXCEPT !.decide.pc = "settle"] EXCEPT !.panel = NoPanel] \in Console
    BY <1>0, <1>2 DEF DecideAnswered, Console, Panel, Decide
  <2>2. QED
    BY <1>2, <2>1 DEF DecideAnswered
<1>3. CASE DecideSettled(r) \/ DecideLost(r)
  <2>1. console[r].decide.merchant \in Merchants
    BY <1>0, <1>3 DEF DecideSettled, DecideLost, Decide
  <2>2. [console[r] EXCEPT !.decide = Idle] \in Console
    BY <1>0 DEF Console, Decide
  <2>3. [m \in Merchants |-> IF m = console[r].selected THEN ShownOf(m) ELSE detail[r][m]]
           \in [Merchants -> Detail]
    BY <1>0, ConsoleParts
  <2>4. detail' \in [Reviewers -> [Merchants -> Detail]]
    BY <1>3, <2>3 DEF DecideSettled, DecideLost
  <2>5. astray' \in [Reviewers -> SUBSET Merchants]
    BY <1>0, <1>3, <2>1 DEF DecideSettled, DecideLost
  <2>6. QED
    BY <1>3, <2>2, <2>4, <2>5 DEF DecideSettled, DecideLost
<1>4. QED
  BY <1>1, <1>2, <1>3 DEF PageStep

LEMMA KycTypeStep == KycTypeOK /\ [Next]_vars => KycTypeOK'
<1> SUFFICES ASSUME KycTypeOK, [Next]_vars PROVE KycTypeOK'
  OBVIOUS
<1>1. CASE UNCHANGED vars
  BY <1>1 DEF vars, merchantVars, reviewerVars, KycTypeOK
<1>2. QED
  BY <1>1, MerchantType, ReviewerType, PageType DEF Next

\* The variables keep to their types.
THEOREM KycTypeCorrect == Spec => []KycTypeOK
<1>1. Init => KycTypeOK
  BY KycTypeInitial
<1>2. KycTypeOK /\ [Next]_vars => KycTypeOK'
  BY KycTypeStep
<1>3. QED
  BY <1>1, <1>2, PTL DEF Spec

-----------------------------------------------------------------------------
(* The invariant *)

LEMMA KycInitial == Init => KycInv
<1> SUFFICES ASSUME Init PROVE KycInv
  OBVIOUS
<1>1. ASSUME NEW m \in Merchants
      PROVE  /\ profile[m] = [status |-> "draft", data |-> Blank, doc |-> 0, round |-> 0]
             /\ page[m].save = Idle /\ page[m].upload = Idle /\ page[m].submit = Idle
             /\ verdict[m].seen = 0 /\ verdict[m].round = 0
             /\ \A r \in Reviewers : detail[r][m] = Unfetched
  <2>1. /\ profile[m] = [status |-> "draft", data |-> Blank, doc |-> 0, round |-> 0]
        /\ page[m].save = Idle /\ page[m].upload = Idle /\ page[m].submit = Idle
    BY DEF Init
  <2>2. verdict[m] = [seen |-> 0, round |-> 0, carried |-> FALSE,
                      by |-> [k \in 1..MaxRounds |-> NoReviewer]]
    BY DEF Init
  <2>3. \A r \in Reviewers : detail[r][m] = Unfetched
    BY DEF Init
  <2>4. QED
    BY <2>1, <2>2, <2>3
<1>2. \A r \in Reviewers : console[r].decide = Idle
  BY DEF Init
<1>3. RequestsAreOld /\ CheckedIsComplete
  BY <1>1 DEF RequestsAreOld, CheckedIsComplete, Idle
<1>4. VerdictIsPast /\ UnderReviewIsComplete /\ JudgedAsSeen
  BY <1>1 DEF VerdictIsPast, UnderReviewIsComplete, JudgedAsSeen, Locked, Editable, Reviewable
<1>5. ScreenIsAccurate
  BY <1>1, <1>2 DEF ScreenIsAccurate, ScreenOf, Unfetched, Reviewable, Idle
<1>6. QED
  BY <1>3, <1>4, <1>5, KycTypeInitial DEF KycInv

\* Everything a reviewer does but judging and opening a review leaves the
\* profiles and their verdicts alone.
LEMMA OnlyTwoTouchProfiles ==
    ASSUME NEW r \in Reviewers, NEW m \in Merchants,
           ReviewerStep(r, m), ~DecideApply(r, m), ~StartApply(r, m)
    PROVE  UNCHANGED <<profile, page, overtaken, verdict>>
BY DEF ReviewerStep, Open, FetchDetail, PickDecision, CancelDecision, ConfirmDecision, StartClick,
       merchantVars

\* Opening a review keeps a profile that can be judged one that can be judged.
LEMMA StartKeeps ==
    ASSUME KycTypeOK, NEW r \in Reviewers, NEW m \in Merchants, StartApply(r, m)
    PROVE  /\ UNCHANGED <<page, overtaken, detail, verdict, astray>>
           /\ \A s \in Reviewers : console'[s].decide = console[s].decide
           /\ \A n \in Merchants :
                 /\ profile'[n].data = profile[n].data /\ profile'[n].doc = profile[n].doc
                 /\ profile'[n].round = profile[n].round
                 /\ profile'[n].status \in Reviewable <=> profile[n].status \in Reviewable
                 /\ Locked(profile'[n]) <=> Locked(profile[n])
<1>1. UNCHANGED <<page, overtaken, detail, verdict, astray>>
  BY DEF StartApply
<1>2. \A s \in Reviewers : console'[s].decide = console[s].decide
  BY DEF StartApply, KycTypeOK, Console
<1>3. CASE profile[m].status \in Reviewable
  <2>1. profile' = [profile EXCEPT ![m].status = "under_review"]
    BY <1>3 DEF StartApply
  <2>2. /\ profile'[m].data = profile[m].data /\ profile'[m].doc = profile[m].doc
        /\ profile'[m].round = profile[m].round /\ profile'[m].status = "under_review"
        /\ \A n \in Merchants \ {m} : profile'[n] = profile[n]
    BY <2>1 DEF KycTypeOK, Row
  <2>3. QED
    BY <1>1, <1>2, <1>3, <2>2, KycAssumption DEF Reviewable, Locked, Editable
<1>4. CASE profile[m].status \notin Reviewable
  BY <1>1, <1>2, <1>4 DEF StartApply
<1>5. QED
  BY <1>3, <1>4

\* A decision takes effect on a submission that has not been judged, or not at all.
LEMMA DecideEffect ==
    ASSUME KycTypeOK, NEW r \in Reviewers, NEW m \in Merchants, DecideApply(r, m)
    PROVE  /\ UNCHANGED <<page, overtaken, detail, astray>>
           /\ \A s \in Reviewers \ {r} : console'[s] = console[s]
           /\ console[r].decide.pc = "sent" /\ console[r].decide.merchant = m
           /\ \/ /\ profile[m].status \in Reviewable
                 /\ console[r].decide.value \in Decisions
                 /\ profile' = [profile EXCEPT ![m].status = console[r].decide.value]
                 /\ verdict' = [verdict EXCEPT ![m] = VerdictOf(r, m)]
                 /\ console'[r].decide.pc = "answer" /\ console'[r].decide.merchant = m
              \/ /\ profile[m].status \notin Reviewable
                 /\ console'[r].decide = Idle
                 /\ UNCHANGED <<profile, verdict>>
<1>1. console[r] \in Console /\ console[r].decide \in Decide \ {Idle}
  BY ConsoleParts DEF DecideApply
<1>2. console[r].decide.value \in Decisions
  BY <1>1 DEF Decide
<1>3. /\ [console[r] EXCEPT !.decide.pc = "answer"].decide.pc = "answer"
      /\ [console[r] EXCEPT !.decide.pc = "answer"].decide.merchant = console[r].decide.merchant
      /\ [console[r] EXCEPT !.decide = Idle].decide = Idle
  BY <1>1 DEF Decide, Console
<1>4. console \in [Reviewers -> Console]
  BY DEF KycTypeOK
<1>5. CASE profile[m].status \in Reviewable
  <2>1. console' = [console EXCEPT ![r].decide.pc = "answer"]
    BY <1>5 DEF DecideApply
  <2>2. console'[r] = [console[r] EXCEPT !.decide.pc = "answer"]
    BY <1>4, <2>1
  <2>3. QED
    BY <1>2, <1>3, <1>4, <1>5, <2>1, <2>2 DEF DecideApply
<1>6. CASE profile[m].status \notin Reviewable
  BY <1>3, <1>4, <1>6 DEF DecideApply
<1>7. QED
  BY <1>5, <1>6

\* What each step of a merchant's page does to its profile and its requests.
LEMMA RequestsKept ==
    ASSUME KycInv, NEW m \in Merchants, MerchantStep(m)
    PROVE  RequestsAreOld'
<1> USE DEF KycInv, KycTypeOK, RequestsAreOld, Locked
<1>0. profile[m] \in Row /\ page[m] \in Page
  OBVIOUS
<1>1. CASE Refetch(m)
  BY <1>0, <1>1 DEF Refetch, Page
<1>2. CASE SaveAdmit(m)
  <2>1. PICK data \in Data :
           page' = [page EXCEPT ![m].save = [pc |-> "write", data |-> data, round |-> profile[m].round]]
    BY <1>2 DEF SaveAdmit, Put
  <2>2. profile' = profile /\ ~Locked(profile[m]) /\ profile[m].round \in Nat
    BY <1>0, <1>2, KycAssumption DEF SaveAdmit, Row
  <2>3. QED
    BY <1>0, <2>1, <2>2 DEF Page
<1>3. CASE SaveWrite(m)
  BY <1>0, <1>3 DEF SaveWrite, Put, Page, Row, Idle
<1>4. CASE UploadAdmit(m)
  <2>1. page' = [page EXCEPT ![m].upload = [pc |-> "write", round |-> profile[m].round]]
    BY <1>4 DEF UploadAdmit, Put
  <2>2. profile' = profile /\ ~Locked(profile[m]) /\ profile[m].round \in Nat
    BY <1>0, <1>4, KycAssumption DEF UploadAdmit, Row
  <2>3. QED
    BY <1>0, <2>1, <2>2 DEF Page
<1>5. CASE UploadWrite(m)
  BY <1>0, <1>5 DEF UploadWrite, Put, Page, Row, Idle
<1>6. CASE SubmitCheck(m)
  BY <1>0, <1>6 DEF SubmitCheck, Put, Page
<1>7. CASE SubmitWrite(m)
  <2>1. /\ page'[m].save = page[m].save /\ page'[m].upload = page[m].upload
        /\ \A n \in Merchants \ {m} : page'[n] = page[n] /\ profile'[n] = profile[n]
    BY <1>0, <1>7 DEF SubmitWrite, Put, Page
  <2>2. CASE profile[m].status \in Editable
    <3>1. profile'[m].round = profile[m].round + 1
      BY <1>0, <1>7, <2>2 DEF SubmitWrite, Row
    <3>2. /\ page[m].save.pc = "write" => page[m].save.round \in 0..MaxRounds
          /\ page[m].upload.pc = "write" => page[m].upload.round \in 0..MaxRounds
          /\ profile[m].round \in 0..MaxRounds
      BY <1>0 DEF Page, Row, Idle
    <3>3. QED
      BY <2>1, <3>1, <3>2, KycAssumption
  <2>3. CASE profile[m].status \notin Editable
    BY <1>7, <2>1, <2>3 DEF SubmitWrite
  <2>4. QED
    BY <2>2, <2>3
<1>8. QED
  BY <1>1, <1>2, <1>3, <1>4, <1>5, <1>6, <1>7 DEF MerchantStep

\* A check looks at what is stored; a write after it is noted.
LEMMA CompletenessKept ==
    ASSUME KycInv, NEW m \in Merchants, MerchantStep(m)
    PROVE  CheckedIsComplete' /\ UnderReviewIsComplete'
<1> USE DEF KycInv, KycTypeOK, CheckedIsComplete, UnderReviewIsComplete
<1>0. profile[m] \in Row /\ page[m] \in Page
  OBVIOUS
<1>1. CASE Refetch(m)
  BY <1>0, <1>1 DEF Refetch, Page
<1>2. CASE SaveAdmit(m) \/ UploadAdmit(m)
  <2>1. page'[m].submit = page[m].submit /\ \A n \in Merchants \ {m} : page'[n] = page[n]
    BY <1>0, <1>2 DEF SaveAdmit, UploadAdmit, Put, Page
  <2>2. UNCHANGED <<profile, overtaken>>
    BY <1>2 DEF SaveAdmit, UploadAdmit
  <2>3. QED
    BY <2>1, <2>2
<1>3. CASE SaveWrite(m)
  <2>1. /\ page'[m].submit = page[m].submit /\ profile'[m].status = profile[m].status
        /\ \A n \in Merchants \ {m} : page'[n] = page[n] /\ profile'[n] = profile[n]
    BY <1>0, <1>3 DEF SaveWrite, Put, Page, Row
  <2>2. QED
    BY <1>3, <2>1 DEF SaveWrite, Overtake, Locked
<1>4. CASE UploadWrite(m)
  <2>1. /\ page'[m].submit = page[m].submit /\ profile'[m].status = profile[m].status
        /\ \A n \in Merchants \ {m} : page'[n] = page[n] /\ profile'[n] = profile[n]
    BY <1>0, <1>4 DEF UploadWrite, Put, Page, Row
  <2>2. QED
    BY <1>4, <2>1 DEF UploadWrite, Overtake, Locked
<1>5. CASE SubmitCheck(m)
  <2>1. /\ profile' = profile /\ overtaken' = overtaken \ {m} /\ Complete(profile[m])
        /\ \A n \in Merchants \ {m} : page'[n] = page[n]
    BY <1>0, <1>5 DEF SubmitCheck, Put
  <2>2. QED
    BY <2>1
<1>6. CASE SubmitWrite(m)
  <2>1. /\ page[m].submit.pc = "write" /\ page'[m].submit = Idle
        /\ profile'[m].data = profile[m].data /\ profile'[m].doc = profile[m].doc
        /\ \A n \in Merchants \ {m} : page'[n] = page[n] /\ profile'[n] = profile[n]
        /\ overtaken' = overtaken
    BY <1>0, <1>6 DEF SubmitWrite, Put, Page, Row
  <2>2. QED
    BY <2>1 DEF Complete, Idle
<1>7. QED
  BY <1>1, <1>2, <1>3, <1>4, <1>5, <1>6 DEF MerchantStep

\* A merchant's steps leave the reviewers' variables alone; of the profile they
\* change the status only from one that can be edited, with a new submission.
LEMMA MerchantMoves ==
    ASSUME KycTypeOK, NEW m \in Merchants, MerchantStep(m)
    PROVE  /\ UNCHANGED reviewerVars
           /\ \A n \in Merchants :
                 \/ profile'[n].status = profile[n].status /\ profile'[n].round = profile[n].round
                 \/ /\ profile[n].status \in Editable
                    /\ profile'[n].status = "submitted" /\ profile'[n].round = profile[n].round + 1
<1> USE DEF KycTypeOK
<1>1. profile[m] \in Row
  OBVIOUS
<1>2. CASE SaveWrite(m) \/ UploadWrite(m)
  <2>1. UNCHANGED reviewerVars
    BY <1>2 DEF SaveWrite, UploadWrite
  <2>2. /\ profile'[m].status = profile[m].status /\ profile'[m].round = profile[m].round
        /\ \A n \in Merchants \ {m} : profile'[n] = profile[n]
    BY <1>1, <1>2 DEF SaveWrite, UploadWrite, Row
  <2>3. QED
    BY <2>1, <2>2
<1>3. CASE SubmitWrite(m)
  BY <1>1, <1>3 DEF SubmitWrite, Row
<1>4. CASE Refetch(m) \/ SaveAdmit(m) \/ UploadAdmit(m) \/ SubmitCheck(m)
  BY <1>4 DEF Refetch, SaveAdmit, UploadAdmit, SubmitCheck
<1>5. QED
  BY <1>2, <1>3, <1>4 DEF MerchantStep

\* What is left to show of a step: r's page knows what it knew, is refetched or
\* waits for the answer to its own decision.
LEMMA ScreenStands ==
    ASSUME KycInv, NEW r \in Reviewers,
           \A n \in Merchants : n \notin astray'[r] =>
              \/ /\ n \notin astray[r] /\ detail'[r][n] = detail[r][n]
                 /\ \A k \in 0..MaxRounds : Knows(r, n, k) => Knows(r, n, k)'
                 /\ Judging(r, n) => Judging(r, n)'
              \/ detail'[r][n] = ShownOf(n)'
              \/ Judging(r, n)',
           \/ console'[r].decide.pc # "sent"
           \/ /\ console'[r].decide = console[r].decide
              /\ \A n \in Merchants, k \in 0..MaxRounds : Knows(r, n, k) => Knows(r, n, k)'
    PROVE  ScreenOf(r)'
<1>1. ASSUME NEW n \in Merchants, n \notin astray'[r], detail'[r][n].status \in Reviewable
      PROVE  (Knows(r, n, detail[r][n].round) \/ Judging(r, n))'
  <2>1. CASE /\ n \notin astray[r] /\ detail'[r][n] = detail[r][n]
             /\ \A k \in 0..MaxRounds : Knows(r, n, k) => Knows(r, n, k)'
             /\ Judging(r, n) => Judging(r, n)'
    <3>1. PICK k \in 0..MaxRounds : k = detail[r][n].round
      BY <1>1, <2>1, ConsoleParts DEF KycInv, Shown
    <3>2. Knows(r, n, k) \/ Judging(r, n)
      BY <1>1, <2>1, <3>1 DEF KycInv, ScreenIsAccurate, ScreenOf
    <3>3. k = detail'[r][n].round
      BY <2>1, <3>1
    <3>4. QED
      BY <2>1, <3>2, <3>3 DEF Knows, Accurate, Overruled
  <2>2. CASE detail'[r][n] = ShownOf(n)'
    BY <1>1, <2>2 DEF Knows, Accurate, ShownOf
  <2>3. QED
    BY <1>1, <2>1, <2>2
<1>2. ASSUME console'[r].decide.pc = "sent", ~console'[r].decide.carried
      PROVE  Knows(r, console[r].decide.merchant, console[r].decide.seen)'
  <2>1. /\ console'[r].decide = console[r].decide
        /\ \A n \in Merchants, k \in 0..MaxRounds : Knows(r, n, k) => Knows(r, n, k)'
    BY <1>2
  <2>2. PICK n \in Merchants, k \in 0..MaxRounds :
           n = console[r].decide.merchant /\ k = console[r].decide.seen
    <3>1. console[r].decide \in Decide /\ console[r].decide # Idle
      BY <1>2, <2>1 DEF KycInv, KycTypeOK, Console, Idle
    <3>2. console[r].decide.merchant \in Merchants /\ console[r].decide.seen \in 0..MaxRounds
      BY <3>1 DEF Decide
    <3>3. QED
      BY <3>2
  <2>3. Knows(r, n, k)
    BY <1>2, <2>1, <2>2 DEF KycInv, ScreenIsAccurate, ScreenOf
  <2>4. n = console'[r].decide.merchant /\ k = console'[r].decide.seen
    BY <2>1, <2>2
  <2>5. QED
    BY <2>1, <2>3, <2>4 DEF Knows, Accurate, Overruled
<1>3. QED
  BY <1>1, <1>2 DEF ScreenOf

\* What was judged and what is on the screens is not touched by a merchant.
LEMMA JudgementKept ==
    ASSUME KycInv, NEW m \in Merchants, MerchantStep(m)
    PROVE  VerdictIsPast' /\ ScreenIsAccurate' /\ JudgedAsSeen'
<1>1. /\ UNCHANGED reviewerVars
      /\ \A n \in Merchants :
            \/ profile'[n].status = profile[n].status /\ profile'[n].round = profile[n].round
            \/ /\ profile[n].status \in Editable
               /\ profile'[n].status = "submitted" /\ profile'[n].round = profile[n].round + 1
  BY MerchantMoves DEF KycInv
<1>2. \A n \in Merchants : profile[n].round \in Nat /\ verdict[n].round \in Nat
  BY KycAssumption DEF KycInv, KycTypeOK, Row, Verdict
<1>3. VerdictIsPast'
  BY <1>1, <1>2 DEF reviewerVars, KycInv, VerdictIsPast, Editable, Reviewable
<1>4. JudgedAsSeen'
  BY <1>1 DEF reviewerVars, KycInv, JudgedAsSeen
<1>5. \A r \in Reviewers, n \in Merchants, k \in 0..MaxRounds : Knows(r, n, k) => Knows(r, n, k)'
  <2>1. \A n \in Merchants, k \in 0..MaxRounds : Accurate(n, k) => Accurate(n, k)'
    BY <1>1, KycAssumption DEF Accurate, Editable, Reviewable
  <2>2. \A r \in Reviewers, n \in Merchants, k \in 0..MaxRounds : Overruled(r, n, k) => Overruled(r, n, k)'
    BY <1>1 DEF reviewerVars, Overruled
  <2>3. QED
    BY <2>1, <2>2 DEF Knows
<1>6. ASSUME NEW r \in Reviewers PROVE ScreenOf(r)'
  <2>1. UNCHANGED <<detail, astray, console>>
    BY <1>1 DEF reviewerVars
  <2>2. \A n \in Merchants : Judging(r, n) => Judging(r, n)'
    BY <2>1 DEF Judging
  <2>3. QED
    BY <1>5, <2>1, <2>2, ScreenStands
<1>7. ScreenIsAccurate'
  BY <1>6 DEF ScreenIsAccurate
<1>8. QED
  BY <1>3, <1>4, <1>7

\* Opening a review and judging keep what the requests of the merchant rely on.
LEMMA ReviewerKeepsRequests ==
    ASSUME KycInv, NEW r \in Reviewers, NEW m \in Merchants, ReviewerStep(r, m)
    PROVE  RequestsAreOld' /\ CheckedIsComplete' /\ UnderReviewIsComplete'
<1> USE DEF KycInv
<1>1. CASE StartApply(r, m)
  <2>1. /\ UNCHANGED <<page, overtaken>>
        /\ \A n \in Merchants :
              /\ profile'[n].data = profile[n].data /\ profile'[n].doc = profile[n].doc
              /\ profile'[n].round = profile[n].round
              /\ Locked(profile'[n]) <=> Locked(profile[n])
    BY <1>1, StartKeeps
  <2>2. QED
    BY <2>1 DEF RequestsAreOld, CheckedIsComplete, UnderReviewIsComplete, Complete
<1>2. CASE DecideApply(r, m)
  <2>1. UNCHANGED <<page, overtaken>>
    BY <1>2, DecideEffect
  <2>2. \A n \in Merchants :
           /\ profile'[n].data = profile[n].data /\ profile'[n].doc = profile[n].doc
           /\ profile'[n].round = profile[n].round
           /\ Locked(profile'[n]) => Locked(profile[n])
    <3>1. CASE profile[m].status \in Reviewable /\ profile' = [profile EXCEPT ![m].status = console[r].decide.value]
      BY <3>1, KycAssumption DEF KycTypeOK, Row, Locked, Editable, Reviewable
    <3>2. CASE profile' = profile
      BY <3>2
    <3>3. QED
      BY <1>2, <3>1, <3>2, DecideEffect
  <2>3. QED
    BY <2>1, <2>2 DEF RequestsAreOld, CheckedIsComplete, UnderReviewIsComplete, Complete
<1>3. CASE UNCHANGED <<profile, page, overtaken>>
  BY <1>3 DEF RequestsAreOld, CheckedIsComplete, UnderReviewIsComplete
<1>4. QED
  BY <1>1, <1>2, <1>3, OnlyTwoTouchProfiles

LEMMA VerdictKept ==
    ASSUME KycInv, NEW r \in Reviewers, NEW m \in Merchants, ReviewerStep(r, m)
    PROVE  VerdictIsPast' /\ JudgedAsSeen'
<1> USE DEF KycInv
<1>1. CASE StartApply(r, m)
  <2>1. /\ verdict' = verdict
        /\ \A n \in Merchants :
              /\ profile'[n].round = profile[n].round
              /\ profile'[n].status \in Reviewable <=> profile[n].status \in Reviewable
    BY <1>1, StartKeeps
  <2>2. QED
    BY <2>1 DEF VerdictIsPast, JudgedAsSeen
<1>2. CASE DecideApply(r, m)
  <2>1. CASE /\ profile[m].status \in Reviewable
             /\ console[r].decide.value \in Decisions
             /\ profile' = [profile EXCEPT ![m].status = console[r].decide.value]
             /\ verdict' = [verdict EXCEPT ![m] = VerdictOf(r, m)]
    <3>1. /\ profile'[m].status \notin Reviewable /\ profile'[m].round = profile[m].round
          /\ \A n \in Merchants \ {m} : profile'[n] = profile[n] /\ verdict'[n] = verdict[n]
      BY <2>1, KycAssumption DEF KycTypeOK, Row, Decisions, Reviewable
    <3>2. verdict'[m] = VerdictOf(r, m)
      BY <2>1 DEF KycTypeOK
    <3>3. VerdictIsPast'
      <4>1. profile[m].round \in Nat /\ verdict'[m].round = profile[m].round
        BY <3>2, KycAssumption DEF KycTypeOK, Row, VerdictOf
      <4>2. QED
        BY <3>1, <4>1 DEF VerdictIsPast
    <3>4. \/ verdict'[m].carried
          \/ verdict'[m].seen = verdict'[m].round
          \/ \E k \in 1..MaxRounds : verdict'[m].seen <= k /\ k < verdict'[m].round
                                        /\ verdict'[m].by[k] # verdict'[m].by[verdict'[m].round]
      <4>1. \/ console[r].decide.carried
            \/ console[r].decide.seen = profile[m].round
            \/ Overruled(r, m, console[r].decide.seen)
        BY <1>2, DecideEffect DEF ScreenIsAccurate, ScreenOf, Knows, Accurate
      <4>2. /\ profile[m].round \in 1..MaxRounds /\ verdict[m].round \in Nat
            /\ verdict[m].round < profile[m].round
            /\ verdict[m].by \in [1..MaxRounds -> Reviewers \cup {NoReviewer}]
        BY <2>1, KycAssumption DEF VerdictIsPast, KycTypeOK, Row, Verdict
      <4>3. /\ verdict'[m].seen = console[r].decide.seen /\ verdict'[m].round = profile[m].round
            /\ verdict'[m].carried = console[r].decide.carried
            /\ verdict'[m].by[profile[m].round] = r
            /\ \A k \in 1..MaxRounds : k # profile[m].round => verdict'[m].by[k] = verdict[m].by[k]
        <5>1. /\ verdict'[m].seen = console[r].decide.seen /\ verdict'[m].round = profile[m].round
              /\ verdict'[m].carried = console[r].decide.carried
              /\ verdict'[m].by = [verdict[m].by EXCEPT ![profile[m].round] = r]
          BY <3>2 DEF VerdictOf
        <5>2. QED
          BY <4>2, <5>1
      <4>4. CASE Overruled(r, m, console[r].decide.seen)
        <5>1. PICK k \in 1..MaxRounds :
                 console[r].decide.seen <= k /\ k <= verdict[m].round /\ verdict[m].by[k] # r
          BY <4>4 DEF Overruled
        <5>2. k < profile[m].round
          BY <4>2, <5>1
        <5>3. QED
          BY <4>3, <5>1, <5>2
      <4>5. QED
        BY <4>1, <4>3, <4>4
    <3>5. JudgedAsSeen'
      BY <3>1, <3>4 DEF JudgedAsSeen
    <3>6. QED
      BY <3>3, <3>5
  <2>2. CASE UNCHANGED <<profile, verdict>>
    BY <2>2 DEF VerdictIsPast, JudgedAsSeen
  <2>3. QED
    BY <1>2, <2>1, <2>2, DecideEffect
<1>3. CASE UNCHANGED <<profile, verdict>>
  BY <1>3 DEF VerdictIsPast, JudgedAsSeen
<1>4. QED
  BY <1>1, <1>2, <1>3, OnlyTwoTouchProfiles

\* Once another reviewer was faster it stays so, and a decision of s does to a
\* submission that r looks at just that.
LEMMA OverruledKept ==
    ASSUME KycInv, NEW r \in Reviewers, NEW s \in Reviewers, NEW m \in Merchants, NEW n \in Merchants,
           NEW k \in Nat, DecideApply(s, m)
    PROVE  /\ Overruled(r, n, k) => Overruled(r, n, k)'
           /\ Accurate(n, k) /\ (r # s \/ n # m) => Accurate(n, k)' \/ Overruled(r, n, k)'
<1> USE DEF KycInv, KycTypeOK
<1>1. CASE UNCHANGED <<profile, verdict>>
  BY <1>1 DEF Overruled, Accurate
<1>2. CASE /\ profile[m].status \in Reviewable
           /\ profile' = [profile EXCEPT ![m].status = console[s].decide.value]
           /\ verdict' = [verdict EXCEPT ![m] = VerdictOf(s, m)]
  <2>1. CASE n # m
    BY <1>2, <2>1 DEF Overruled, Accurate
  <2>2. CASE n = m
    <3>1. /\ profile[m].round \in 1..MaxRounds /\ verdict[m].round \in Nat
          /\ verdict[m].round < profile[m].round
          /\ verdict[m].by \in [1..MaxRounds -> Reviewers \cup {NoReviewer}]
      BY <1>2, KycAssumption DEF VerdictIsPast, Row, Verdict
    <3>2. verdict'[m] = VerdictOf(s, m)
      BY <1>2
    <3>3. /\ verdict'[m].round = profile[m].round
          /\ verdict'[m].by[profile[m].round] = s
          /\ \A j \in 1..MaxRounds : j # profile[m].round => verdict'[m].by[j] = verdict[m].by[j]
      <4>1. /\ verdict'[m].round = profile[m].round
            /\ verdict'[m].by = [verdict[m].by EXCEPT ![profile[m].round] = s]
        BY <3>2 DEF VerdictOf
      <4>2. QED
        BY <3>1, <4>1
    <3>4. Overruled(r, m, k) => Overruled(r, m, k)'
      <4>1. SUFFICES ASSUME Overruled(r, m, k) PROVE Overruled(r, m, k)'
        OBVIOUS
      <4>2. PICK j \in 1..MaxRounds : k <= j /\ j <= verdict[m].round /\ verdict[m].by[j] # r
        BY <4>1 DEF Overruled
      <4>3. k <= j /\ j <= verdict'[m].round /\ verdict'[m].by[j] # r
        BY <3>1, <3>3, <4>2
      <4>4. QED
        BY <4>3 DEF Overruled
    <3>5. Accurate(m, k) /\ r # s => Overruled(r, m, k)'
      <4>1. SUFFICES ASSUME Accurate(m, k), r # s PROVE Overruled(r, m, k)'
        OBVIOUS
      <4>2. k = profile[m].round
        BY <4>1 DEF Accurate
      <4>3. k <= k /\ k <= verdict'[m].round /\ verdict'[m].by[k] # r
        BY <3>1, <3>3, <4>1, <4>2
      <4>4. QED
        BY <3>1, <4>2, <4>3 DEF Overruled
    <3>6. QED
      BY <2>2, <3>4, <3>5
  <2>3. QED
    BY <2>1, <2>2
<1>3. QED
  BY <1>1, <1>2, DecideEffect

\* What the reviewers' pages know, under the steps of one of them.
LEMMA ScreenKept ==
    ASSUME KycInv, NEW s \in Reviewers, NEW m \in Merchants, ReviewerStep(s, m)
    PROVE  ScreenIsAccurate'
<1> USE DEF KycInv, KycTypeOK
<1> SUFFICES ASSUME NEW r \in Reviewers PROVE ScreenOf(r)'
  BY DEF ScreenIsAccurate
<1>0. console \in [Reviewers -> Console] /\ console[r] \in Console /\ console[s] \in Console
  OBVIOUS
<1>1. CASE Open(s, m) \/ PickDecision(s, m) \/ CancelDecision(s, m) \/ StartClick(s, m)
  <2>1. UNCHANGED <<profile, verdict, detail, astray>> /\ console'[r].decide = console[r].decide
    BY <1>0, <1>1 DEF Open, PickDecision, CancelDecision, StartClick, Console, merchantVars
  <2>2. \A n \in Merchants :
           /\ \A k \in 0..MaxRounds : Knows(r, n, k) => Knows(r, n, k)'
           /\ Judging(r, n) => Judging(r, n)'
    BY <2>1 DEF Knows, Accurate, Overruled, Judging
  <2>3. QED
    BY <2>1, <2>2, ScreenStands
<1>2. CASE FetchDetail(s, m)
  <2>1. /\ UNCHANGED <<profile, verdict, console>>
        /\ detail'[s][m] = ShownOf(m)'
        /\ \A n \in Merchants : s # r \/ n # m =>
              detail'[r][n] = detail[r][n] /\ (n \in astray'[r] <=> n \in astray[r])
    BY <1>2 DEF FetchDetail, merchantVars, ShownOf
  <2>2. \A n \in Merchants :
           /\ \A k \in 0..MaxRounds : Knows(r, n, k) => Knows(r, n, k)'
           /\ Judging(r, n) => Judging(r, n)'
    BY <2>1 DEF Knows, Accurate, Overruled, Judging
  <2>3. QED
    BY <2>1, <2>2, ScreenStands
<1>3. CASE ConfirmDecision(s, m)
  <2>1. UNCHANGED <<profile, verdict, detail, astray>>
    BY <1>3 DEF ConfirmDecision, merchantVars
  <2>2. \A n \in Merchants, k \in 0..MaxRounds : Knows(r, n, k) => Knows(r, n, k)'
    BY <2>1 DEF Knows, Accurate, Overruled
  <2>3. CASE s # r
    <3>1. console'[r] = console[r]
      BY <1>0, <1>3, <2>3 DEF ConfirmDecision
    <3>2. \A n \in Merchants : Judging(r, n) => Judging(r, n)'
      BY <3>1 DEF Judging
    <3>3. QED
      BY <2>1, <2>2, <3>1, <3>2, ScreenStands
  <2>4. CASE s = r
    <3>1. /\ console[r].decide.pc = "idle" /\ console'[r].decide.pc = "sent"
          /\ console'[r].decide.merchant = m /\ console'[r].decide.seen = detail[r][m].round
          /\ ~console'[r].decide.carried => detail[r][m].status \in Reviewable /\ m \notin astray[r]
      BY <1>0, <1>3, <2>4 DEF ConfirmDecision, Console, Idle
    <3>2. \A n \in Merchants : ~Judging(r, n)
      BY <3>1 DEF Judging
    <3>3. \A n \in Merchants : n \notin astray[r] /\ detail[r][n].status \in Reviewable =>
             Knows(r, n, detail[r][n].round)
      BY <3>2 DEF ScreenIsAccurate, ScreenOf
    <3>4. QED
      BY <2>1, <3>1, <3>3 DEF ScreenOf, Knows, Accurate, Overruled
  <2>5. QED
    BY <2>3, <2>4
<1>4. CASE StartApply(s, m)
  <2>1. /\ UNCHANGED <<detail, verdict, astray>> /\ console'[r].decide = console[r].decide
        /\ \A n \in Merchants :
              /\ profile'[n].round = profile[n].round
              /\ profile'[n].status \in Reviewable <=> profile[n].status \in Reviewable
    BY <1>4, StartKeeps
  <2>2. \A n \in Merchants :
           /\ \A k \in 0..MaxRounds : Knows(r, n, k) => Knows(r, n, k)'
           /\ Judging(r, n) => Judging(r, n)'
    BY <2>1 DEF Knows, Accurate, Overruled, Judging
  <2>3. QED
    BY <2>1, <2>2, ScreenStands
<1>5. CASE DecideApply(s, m)
  <2>1. /\ UNCHANGED <<detail, astray>> /\ (r # s => console'[r] = console[r])
        /\ console[s].decide.pc = "sent"
        /\ \/ console'[s].decide.pc = "answer" /\ console'[s].decide.merchant = m
           \/ console'[s].decide = Idle /\ UNCHANGED <<profile, verdict>>
    BY <1>5, DecideEffect
  <2>2. \A n \in Merchants, k \in 0..MaxRounds : r # s \/ n # m => (Knows(r, n, k) => Knows(r, n, k)')
    BY <1>5, OverruledKept, KycAssumption DEF Knows
  <2>3. CASE r # s
    <3>1. \A n \in Merchants : Judging(r, n) => Judging(r, n)'
      BY <2>1, <2>3 DEF Judging
    <3>2. QED
      BY <2>1, <2>2, <2>3, <3>1, ScreenStands
  <2>4. CASE r = s
    <3>1. \A n \in Merchants : ~Judging(r, n)
      BY <2>1, <2>4 DEF Judging
    <3>2. CASE console'[s].decide.pc = "answer" /\ console'[s].decide.merchant = m
      <4>1. Judging(r, m)'
        BY <2>4, <3>2 DEF Judging
      <4>2. QED
        BY <2>1, <2>2, <2>4, <3>1, <3>2, <4>1, ScreenStands
    <3>3. CASE console'[s].decide = Idle /\ UNCHANGED <<profile, verdict>>
      <4>1. \A n \in Merchants, k \in 0..MaxRounds : Knows(r, n, k) => Knows(r, n, k)'
        BY <3>3 DEF Knows, Accurate, Overruled
      <4>2. console'[r].decide.pc # "sent"
        BY <2>4, <3>3 DEF Idle
      <4>3. QED
        BY <2>1, <3>1, <4>1, <4>2, ScreenStands
    <3>4. QED
      BY <2>1, <3>2, <3>3
  <2>5. QED
    BY <2>3, <2>4
<1>6. QED
  BY <1>1, <1>2, <1>3, <1>4, <1>5 DEF ReviewerStep

\* When a decision settles, its drawer has been refetched or is noted as astray.
LEMMA PageKept ==
    ASSUME KycInv, NEW s \in Reviewers, PageStep(s)
    PROVE  ScreenIsAccurate' /\ UNCHANGED <<profile, page, overtaken, verdict>>
<1> USE DEF KycInv, KycTypeOK
<1>0. UNCHANGED <<profile, page, overtaken, verdict>>
  BY DEF PageStep, Close, DecideAnswered, DecideSettled, DecideLost, merchantVars
<1> SUFFICES ASSUME NEW r \in Reviewers PROVE ScreenOf(r)'
  BY <1>0 DEF ScreenIsAccurate
<1>1. console \in [Reviewers -> Console] /\ console[r] \in Console /\ console[s] \in Console
  OBVIOUS
<1>2. \A n \in Merchants, k \in 0..MaxRounds : Knows(r, n, k) => Knows(r, n, k)'
  BY <1>0 DEF Knows, Accurate, Overruled
<1>3. CASE r # s
  <2>1. console'[r] = console[r] /\ detail'[r] = detail[r] /\ astray'[r] = astray[r]
    BY <1>1, <1>3 DEF PageStep, Close, DecideAnswered, DecideSettled, DecideLost
  <2>2. \A n \in Merchants : Judging(r, n) => Judging(r, n)'
    BY <2>1 DEF Judging
  <2>3. QED
    BY <1>2, <2>1, <2>2, ScreenStands
<1>4. CASE r = s /\ (Close(s) \/ DecideAnswered(s))
  <2>1. UNCHANGED <<detail, astray>>
    BY <1>4 DEF Close, DecideAnswered
  <2>2. \/ console'[r].decide = console[r].decide
        \/ /\ console'[r].decide.pc = "settle"
           /\ console'[r].decide.merchant = console[r].decide.merchant
    <3>1. CASE Close(s)
      BY <1>1, <1>4, <3>1 DEF Close, Console
    <3>2. CASE DecideAnswered(s)
      <4>1. console[r].decide \in Decide \ {Idle}
        BY <1>1, <1>4, <3>2 DEF DecideAnswered, Console, Idle
      <4>2. /\ [[console[r] EXCEPT !.decide.pc = "settle"] EXCEPT !.panel = NoPanel].decide.pc = "settle"
            /\ [[console[r] EXCEPT !.decide.pc = "settle"] EXCEPT !.panel = NoPanel].decide.merchant
                  = console[r].decide.merchant
        BY <1>1, <4>1 DEF Console, Decide
      <4>3. QED
        BY <1>1, <1>4, <3>2, <4>2 DEF DecideAnswered
    <3>3. QED
      BY <1>4, <3>1, <3>2
  <2>3. \A n \in Merchants : Judging(r, n) => Judging(r, n)'
    BY <2>2 DEF Judging
  <2>4. QED
    BY <1>2, <2>1, <2>2, <2>3, ScreenStands
<1>5. CASE r = s /\ DecideSettled(s)
  <2>1. /\ console[r].decide.pc = "settle" /\ console'[r].decide = Idle
        /\ \A n \in Merchants : detail'[r][n] = IF n = console[r].selected THEN ShownOf(n) ELSE detail[r][n]
    BY <1>1, <1>5 DEF DecideSettled, Console
  <2>2. /\ console[r].decide.merchant # console[r].selected => console[r].decide.merchant \in astray'[r]
        /\ \A n \in Merchants : n # console[r].decide.merchant => (n \in astray'[r] <=> n \in astray[r])
    BY <1>5 DEF DecideSettled
  <2>3. \A n \in Merchants : ShownOf(n)' = ShownOf(n)
    BY <1>0 DEF ShownOf
  <2>4. \A n \in Merchants : n # console[r].decide.merchant => ~Judging(r, n)
    BY DEF Judging
  <2>5. QED
    BY <1>2, <2>1, <2>2, <2>3, <2>4, ScreenStands DEF Idle
<1>6. CASE r = s /\ DecideLost(s)
  <2>1. /\ console'[r].decide = Idle /\ detail' = detail
        /\ astray'[r] = astray[r] \cup {console[r].decide.merchant}
    BY <1>1, <1>6 DEF DecideLost, Console
  <2>2. \A n \in Merchants : n # console[r].decide.merchant => ~Judging(r, n)
    BY DEF Judging
  <2>3. QED
    BY <1>2, <2>1, <2>2, ScreenStands DEF Idle
<1>7. QED
  BY <1>3, <1>4, <1>5, <1>6 DEF PageStep

LEMMA KycStep == KycInv /\ [Next]_vars => KycInv'
<1> SUFFICES ASSUME KycInv, [Next]_vars PROVE KycInv'
  OBVIOUS
<1>1. KycTypeOK'
  BY KycTypeStep DEF KycInv
<1>2. ASSUME NEW m \in Merchants, MerchantStep(m) PROVE KycInv'
  BY <1>1, <1>2, RequestsKept, CompletenessKept, JudgementKept DEF KycInv
<1>3. ASSUME NEW r \in Reviewers, NEW m \in Merchants, ReviewerStep(r, m) PROVE KycInv'
  BY <1>1, <1>3, ReviewerKeepsRequests, VerdictKept, ScreenKept DEF KycInv
<1>4. ASSUME NEW r \in Reviewers, PageStep(r) PROVE KycInv'
  BY <1>1, <1>4, PageKept
  DEF KycInv, RequestsAreOld, CheckedIsComplete, VerdictIsPast, UnderReviewIsComplete, JudgedAsSeen
<1>5. CASE UNCHANGED vars
  BY <1>1, <1>5
  DEF vars, merchantVars, reviewerVars, KycInv, RequestsAreOld, CheckedIsComplete, VerdictIsPast,
      ScreenIsAccurate, ScreenOf, Knows, Judging, Accurate, Overruled, UnderReviewIsComplete, JudgedAsSeen
<1>6. QED
  BY <1>2, <1>3, <1>4, <1>5 DEF Next

\* The invariant holds in every behaviour of the screens, the handlers and the database.
THEOREM KycInvariant == Spec => []KycInv
BY KycInitial, KycStep, PTL DEF Spec

-----------------------------------------------------------------------------
(* Results *)

\* What is under review or approved is complete, or was overtaken by a write that
\* landed after the check of its submission.
THEOREM ReviewsAreComplete == Spec => []UnderReviewIsComplete
<1>1. KycInv => UnderReviewIsComplete
  BY DEF KycInv
<1>2. QED
  BY <1>1, KycInvariant, PTL

\* A decision falls on the submission its drawer showed, unless it was carried over.
THEOREM DecisionsAreSeen == Spec => []JudgedAsSeen
<1>1. KycInv => JudgedAsSeen
  BY DEF KycInv
<1>2. QED
  BY <1>1, KycInvariant, PTL

\* A locked profile changes only by a write admitted before its submission.
THEOREM LockHolds == Spec => LockIsOvertakenOnlyByEarlierWrites
<1> DEFINE Kept ==
       \A m \in Merchants :
          Locked(profile[m]) =>
             /\ profile'[m].data # profile[m].data =>
                   page[m].save.pc = "write" /\ page[m].save.round < profile[m].round
             /\ profile'[m].doc # profile[m].doc =>
                   page[m].upload.pc = "write" /\ page[m].upload.round < profile[m].round
<1>1. KycInv /\ [Next]_vars => [Kept]_vars
  <2> SUFFICES ASSUME KycInv, Next PROVE Kept
    BY DEF vars
  <2> USE DEF KycInv, KycTypeOK
  <2>1. ASSUME NEW m \in Merchants, SaveWrite(m) PROVE Kept
    <3>1. /\ page[m].save.pc = "write" /\ profile'[m].doc = profile[m].doc
          /\ \A n \in Merchants \ {m} : profile'[n] = profile[n]
      BY <2>1 DEF SaveWrite, Row
    <3>2. QED
      BY <3>1 DEF RequestsAreOld
  <2>2. ASSUME NEW m \in Merchants, UploadWrite(m) PROVE Kept
    <3>1. /\ page[m].upload.pc = "write" /\ profile'[m].data = profile[m].data
          /\ \A n \in Merchants \ {m} : profile'[n] = profile[n]
      BY <2>2 DEF UploadWrite, Row
    <3>2. QED
      BY <3>1 DEF RequestsAreOld
  <2>3. ASSUME NEW m \in Merchants, SubmitWrite(m) PROVE Kept
    <3>1. \A n \in Merchants : profile'[n].data = profile[n].data /\ profile'[n].doc = profile[n].doc
      BY <2>3 DEF SubmitWrite, Row
    <3>2. QED
      BY <3>1
  <2>4. ASSUME NEW m \in Merchants, Refetch(m) \/ SaveAdmit(m) \/ UploadAdmit(m) \/ SubmitCheck(m)
        PROVE  Kept
    BY <2>4 DEF Refetch, SaveAdmit, UploadAdmit, SubmitCheck
  <2>5. ASSUME NEW r \in Reviewers, NEW m \in Merchants, ReviewerStep(r, m) PROVE Kept
    <3>1. \A n \in Merchants : profile'[n].data = profile[n].data /\ profile'[n].doc = profile[n].doc
      <4>1. CASE StartApply(r, m)
        BY <4>1, StartKeeps
      <4>2. CASE DecideApply(r, m)
        <5>1. CASE profile' = [profile EXCEPT ![m].status = console[r].decide.value]
          BY <5>1 DEF Row
        <5>2. CASE profile' = profile
          BY <5>2
        <5>3. QED
          BY <4>2, <5>1, <5>2, DecideEffect
      <4>3. CASE profile' = profile
        BY <4>3
      <4>4. QED
        BY <2>5, <4>1, <4>2, <4>3, OnlyTwoTouchProfiles
    <3>2. QED
      BY <3>1
  <2>6. ASSUME NEW r \in Reviewers, PageStep(r) PROVE Kept
    BY <2>6, PageKept
  <2>7. QED
    BY <2>1, <2>2, <2>3, <2>4, <2>5, <2>6 DEF Next, MerchantStep
<1>2. Spec => [][Kept]_vars
  BY <1>1, KycInvariant, PTL DEF Spec
<1>3. QED
  BY <1>2 DEF LockIsOvertakenOnlyByEarlierWrites

\* Pages, handlers and database implement the life cycle of a verification.
THEOREM ImplementsLifecycle == Spec => KeepsLifecycle
<1> DEFINE status == [m \in Merchants |-> profile[m].status]
           round == [m \in Merchants |-> profile[m].round]
           judged == [m \in Merchants |-> verdict[m].round]
<1>1. Init => Lifecycle!LifecycleInit
  BY DEF Init, Lifecycle!LifecycleInit
<1>2. KycInv /\ [Next]_vars => [Lifecycle!LifecycleNext]_(Lifecycle!lifecycleVars)
  <2> SUFFICES ASSUME KycInv, [Next]_vars
               PROVE  Lifecycle!LifecycleNext \/ UNCHANGED <<status, round, judged>>
    BY DEF Lifecycle!lifecycleVars
  <2> USE DEF KycInv, KycTypeOK
  <2>1. ASSUME NEW m \in Merchants, SubmitWrite(m), profile[m].status \in Editable
        PROVE  Lifecycle!LifecycleNext
    <3>1. /\ status' = [status EXCEPT ![m] = "submitted"]
          /\ round' = [round EXCEPT ![m] = round[m] + 1]
          /\ judged' = judged /\ status[m] = profile[m].status
      BY <2>1 DEF SubmitWrite, Row, reviewerVars
    <3>2. Lifecycle!Submitted(m)
      BY <2>1, <3>1 DEF Lifecycle!Submitted, Lifecycle!Editable, Editable
    <3>3. QED
      BY <3>2 DEF Lifecycle!LifecycleNext
  <2>2. ASSUME NEW r \in Reviewers, NEW m \in Merchants, StartApply(r, m), profile[m].status \in Reviewable
        PROVE  Lifecycle!LifecycleNext
    <3>1. profile' = [profile EXCEPT ![m].status = "under_review"] /\ verdict' = verdict
      BY <2>2 DEF StartApply
    <3>2. /\ status' = [status EXCEPT ![m] = "under_review"]
          /\ round' = round /\ judged' = judged /\ status[m] = profile[m].status
      BY <3>1 DEF Row
    <3>3. Lifecycle!ReviewStarted(m)
      BY <2>2, <3>2 DEF Lifecycle!ReviewStarted, Lifecycle!Reviewable, Reviewable
    <3>4. QED
      BY <3>3 DEF Lifecycle!LifecycleNext
  <2>3. ASSUME NEW r \in Reviewers, NEW m \in Merchants, DecideApply(r, m), profile[m].status \in Reviewable
        PROVE  Lifecycle!LifecycleNext
    <3>1. /\ console[r].decide.value \in Decisions
          /\ profile' = [profile EXCEPT ![m].status = console[r].decide.value]
          /\ verdict' = [verdict EXCEPT ![m] = VerdictOf(r, m)]
      BY <2>3, DecideEffect
    <3>2. /\ status' = [status EXCEPT ![m] = console[r].decide.value]
          /\ round' = round /\ judged' = [judged EXCEPT ![m] = round[m]]
          /\ status[m] = profile[m].status /\ judged[m] < round[m]
      BY <2>3, <3>1 DEF Row, VerdictOf, VerdictIsPast
    <3>3. Lifecycle!Judged(m)
      BY <2>3, <3>1, <3>2
      DEF Lifecycle!Judged, Lifecycle!Reviewable, Reviewable, Lifecycle!Decisions, Decisions
    <3>4. QED
      BY <3>3 DEF Lifecycle!LifecycleNext
  <2>4. ASSUME NEW m \in Merchants, SaveWrite(m) \/ UploadWrite(m)
        PROVE  UNCHANGED <<status, round, judged>>
    <3>1. verdict' = verdict
      BY <2>4 DEF SaveWrite, UploadWrite, reviewerVars
    <3>2. \A n \in Merchants : profile'[n].status = profile[n].status /\ profile'[n].round = profile[n].round
      <4>1. /\ profile'[m].status = profile[m].status /\ profile'[m].round = profile[m].round
            /\ \A n \in Merchants \ {m} : profile'[n] = profile[n]
        BY <2>4 DEF SaveWrite, UploadWrite, Row
      <4>2. QED
        BY <4>1
    <3>3. QED
      BY <3>1, <3>2
  <2>5. CASE UNCHANGED <<profile, verdict>>
    BY <2>5
  <2>6. ASSUME NEW m \in Merchants, MerchantStep(m)
        PROVE  Lifecycle!LifecycleNext \/ UNCHANGED <<status, round, judged>>
    BY <2>1, <2>4, <2>5, <2>6
    DEF MerchantStep, Refetch, SaveAdmit, UploadAdmit, SubmitCheck, SubmitWrite, reviewerVars
  <2>7. ASSUME NEW r \in Reviewers, NEW m \in Merchants, ReviewerStep(r, m)
        PROVE  Lifecycle!LifecycleNext \/ UNCHANGED <<status, round, judged>>
    BY <2>2, <2>3, <2>5, <2>7, OnlyTwoTouchProfiles, DecideEffect DEF StartApply
  <2>8. ASSUME NEW r \in Reviewers, PageStep(r) PROVE UNCHANGED <<status, round, judged>>
    BY <2>5, <2>8, PageKept
  <2>9. CASE UNCHANGED vars
    BY <2>5, <2>9 DEF vars, merchantVars, reviewerVars
  <2>10. QED
    BY <2>6, <2>7, <2>8, <2>9 DEF Next
<1>3. QED
  BY <1>1, <1>2, KycInvariant, PTL DEF Spec, KeepsLifecycle, Lifecycle!LifecycleSpec

=============================================================================
