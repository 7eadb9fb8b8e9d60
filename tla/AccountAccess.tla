---------------------------- MODULE AccountAccess ----------------------------
(***************************************************************************)
(* Access to one account: signing in with an authenticator, the code asked *)
(* again before a withdrawal, and the recovery kit.                        *)
(*                                                                         *)
(* One browser holds the session, the pending sign-in and the proof of a   *)
(* recent code in cookies.  Its withdrawals page sends an order, is told   *)
(* that a code is needed, asks for it and sends the order once more.       *)
(* Somebody with the kit, in this browser or another, resets the password  *)
(* through two endpoints, in a series of calls to the database and to the  *)
(* authentication service that no transaction joins.                       *)
(***************************************************************************)
EXTENDS Naturals, FiniteSets

CONSTANTS
    Resets,         \* the reset requests that may be sent, each with a password of its own
    FirstPassword,  \* the password the account starts with
    Orders,         \* calls of the withdrawal mutation that may be pending together
    MaxLogins,      \* bound on sessions
    MaxClicks       \* bound on withdrawals submitted

ASSUME AccessAssumption ==
    /\ FirstPassword \notin Resets
    /\ IsFiniteSet(Orders)
    /\ {MaxLogins, MaxClicks} \subseteq Nat

VARIABLES
    account,    \* the authentication service: password, verified factor, a factor that
                \* is enrolled and not verified yet, live sessions
    kit,        \* account_recovery_kits
    challenge,  \* account_recovery_challenges, and whether its window has passed
    reset,      \* how far each reset request is
    overlapped, \* two resets have held the challenge side by side
    jar,        \* the cookies of the browser
    login,      \* what the sign-in page asks for
    orders,     \* the calls of the withdrawal mutation
    dialog,     \* the dialog that asks for a code, the check of it, the latest order
    count       \* sessions, withdrawals submitted, cancelled and placed

recoveryVars == <<kit, challenge, reset, overlapped>>
pageVars == <<orders, dialog>>
vars == <<account, recoveryVars, jar, login, pageVars, count>>

None == 0
Sids == 1..MaxLogins
Claimed == {"claimed", "password", "factors"}
Running == Claimed \cup {"checked"}
Ended == {"told", "done"}

Token == IF jar.session # None THEN jar.session ELSE jar.pending
Alive(sid) == sid \in account.live

Init ==
    /\ account = [password |-> FirstPassword, factor |-> "first", unverified |-> FALSE, live |-> {}]
    /\ kit = "none"
    /\ challenge = [status |-> "none", due |-> FALSE, cookie |-> FALSE]
    /\ reset = [r \in Resets |-> "unsent"]
    /\ overlapped = FALSE
    /\ jar = [session |-> None, pending |-> None, fresh |-> FALSE]
    /\ login = "credentials"
    /\ orders = [o \in Orders |-> "idle"]
    /\ dialog \in [open: {FALSE}, check: {"none"}, latest: Orders]
    /\ count = [logins |-> 0, clicks |-> 0, cancelled |-> 0, placed |-> 0]

(***************************************************************************)
(* Signing in.                                                             *)
(***************************************************************************)

\* The password opens a session that only the pending cookie holds.  A session
\* cookie that is already there stays; that of a recovery in this browser goes.
\* The password is asked again when the factors cannot be read, and when the
\* challenge fails or the answer is lost after the cookie was set.
Login ==
    /\ login = "credentials"
    /\ count.logins < MaxLogins
    /\ LET sid == count.logins + 1
           next == IF account.factor = "none" THEN "enroll" ELSE "code"
       IN  /\ account' = [account EXCEPT !.live = @ \cup {sid}]
           /\ count' = [count EXCEPT !.logins = sid]
           /\ \/ /\ jar' = [jar EXCEPT !.pending = sid]
                 /\ login' \in {next, "credentials"}
              \/ UNCHANGED <<jar, login>>
    /\ \E cookie \in {challenge.cookie, FALSE} : challenge' = [challenge EXCEPT !.cookie = cookie]
    /\ UNCHANGED <<kit, reset, overlapped, pageVars>>

\* beginEnrollment: a refusal leaves the page at the password, and so does a call
\* that fails, before or after the factor was added.
Enroll ==
    /\ login = "enroll"
    /\ \/ /\ Alive(Token)
          /\ account' = [account EXCEPT !.unverified = TRUE]
          /\ login' \in {"setup", "credentials"}
       \/ /\ login' = "credentials"
          /\ UNCHANGED account
    /\ UNCHANGED <<recoveryVars, jar, pageVars, count>>

\* The factor that the page's code is for still exists.
FactorStands ==
    IF login = "setup" THEN account.unverified \/ account.factor = "new"
                            ELSE account.factor # "none"

\* The right code.  The session cookie goes before the pending one; neither may be
\* left, or the session or the factor may be gone.  A refusal leaves the page
\* asking, and so does a challenge that has expired or a call that fails, which may
\* have verified the factor all the same.
VerifyCode ==
    /\ login \in {"setup", "code"}
    /\ LET good == Alive(Token) /\ FactorStands
           verified == IF login = "setup"
                       THEN [account EXCEPT !.factor = "new", !.unverified = FALSE] ELSE account
       IN  \/ /\ good
              /\ account' = verified
              /\ \E fresh \in BOOLEAN :   \* FALSE: a call after the cookie is set fails
                    /\ jar' = [session |-> Token, pending |-> None, fresh |-> fresh]
                    /\ login' = IF fresh THEN "nothing" ELSE "reload"
           \/ /\ account' \in {account} \cup (IF good THEN {verified} ELSE {})
              /\ UNCHANGED <<jar, login>>
    /\ UNCHANGED <<recoveryVars, pageVars, count>>

\* The cookie of a sign-in lasts five minutes, that of a session as long as its token.
PendingEnds ==
    /\ jar.pending # None
    /\ jar' = [jar EXCEPT !.pending = None]
    /\ UNCHANGED <<account, recoveryVars, login, pageVars, count>>

SessionEnds ==
    /\ jar.session # None
    /\ jar' = [jar EXCEPT !.session = None]
    /\ UNCHANGED <<account, recoveryVars, login, pageVars, count>>

\* The page is loaded, or me is fetched, again; 401 brings the sign-in back.
Reload ==
    /\ login \in {"enroll", "setup", "code", "reload"} \/ ~Alive(jar.session)
    /\ login' = IF Alive(jar.session) THEN "nothing" ELSE "credentials"
    /\ dialog' = [dialog EXCEPT !.open = FALSE]
    /\ UNCHANGED <<account, recoveryVars, jar, orders, count>>

\* The cookies are cleared; the session itself stays alive.
Logout ==
    /\ login = "nothing"
    /\ jar' = [session |-> None, pending |-> None, fresh |-> FALSE]
    /\ login' = "credentials"
    /\ dialog' = [dialog EXCEPT !.open = FALSE]
    /\ \E cookie \in {challenge.cookie, FALSE} : challenge' = [challenge EXCEPT !.cookie = cookie]
    /\ UNCHANGED <<account, kit, reset, overlapped, orders, count>>

\* Ten minutes after the code.
CodeGrowsOld ==
    /\ jar.fresh
    /\ jar' = [jar EXCEPT !.fresh = FALSE]
    /\ UNCHANGED <<account, recoveryVars, login, pageVars, count>>

(***************************************************************************)
(* A withdrawal.  withRecentMFA meets the request with the cookies it was  *)
(* sent with: sending it and that check are one step.                      *)
(***************************************************************************)
RecentMFA == Alive(jar.session) /\ jar.fresh

Send(o) ==
    /\ orders[o] = "idle"
    /\ orders' = [orders EXCEPT ![o] = IF ~Alive(jar.session) THEN "refused"
                                       ELSE IF jar.fresh THEN "admitted" ELSE "needs_code"]

Submit(o) ==
    /\ login = "nothing"
    /\ orders[dialog.latest] \in {"idle", "given_up"}     \* isPending of the last call
    /\ ~dialog.open
    /\ count.clicks < MaxClicks
    /\ Send(o)
    /\ dialog' = [dialog EXCEPT !.latest = o]
    /\ count' = [count EXCEPT !.clicks = @ + 1]
    /\ UNCHANGED <<account, recoveryVars, jar, login>>

\* consoleCreateWithdrawal: placed, or refused for another reason.
Place(o) ==
    /\ orders[o] \in {"admitted", "given_up"}
    /\ \E outcome \in {"placed", "refused"} :
          /\ orders' = [orders EXCEPT ![o] = IF @ = "admitted" THEN outcome ELSE "idle"]
          /\ count' = [count EXCEPT !.placed = @ + IF outcome = "placed" THEN 1 ELSE 0]
    /\ UNCHANGED <<account, recoveryVars, jar, login, dialog>>

\* onSuccess and onError; only the answer 428 opens the dialog.
Answered(o) ==
    /\ orders[o] \in {"placed", "refused", "needs_code"}
    /\ orders' = [orders EXCEPT ![o] = "idle"]
    /\ dialog' = [dialog EXCEPT !.open = @ \/ orders[o] = "needs_code"]
    /\ UNCHANGED <<account, recoveryVars, jar, login, count>>

\* Mutant: the mutation is retried, and each call draws a key of its own.
AnswerLost_Retried(o) ==
    /\ orders[o] \in {"placed", "refused", "needs_code"}
    /\ orders' = [orders EXCEPT ![o] = IF RecentMFA THEN "admitted" ELSE "idle"]
    /\ UNCHANGED <<account, recoveryVars, jar, login, dialog, count>>

\* The page says that the withdrawal could not be started; the handler may go on.
AnswerLost(o) ==
    /\ orders[o] \in {"admitted", "placed", "refused", "needs_code"}
    /\ orders' = [orders EXCEPT ![o] = IF @ = "admitted" THEN "given_up" ELSE "idle"]
    /\ UNCHANGED <<account, recoveryVars, jar, login, dialog, count>>

ConfirmCode ==
    /\ dialog.open
    /\ dialog.check = "none"
    /\ dialog' = [dialog EXCEPT !.check = "sent"]
    /\ UNCHANGED <<account, recoveryVars, jar, login, orders, count>>

\* consoleMFAStepUpVerify; a refusal or a failure leaves the dialog as it is.
CheckCode ==
    /\ dialog.check = "sent"
    /\ \/ /\ Alive(jar.session)
          /\ account.factor # "none"
          /\ jar' = [jar EXCEPT !.fresh = TRUE]
          /\ dialog' = [dialog EXCEPT !.check = "good"]
       \/ /\ dialog' = [dialog EXCEPT !.check = "none"]
          /\ UNCHANGED jar
    /\ UNCHANGED <<account, recoveryVars, login, orders, count>>

\* onVerified was taken when the code was sent: the order goes out even when the
\* dialog has been closed since.
CodeAccepted(o) ==
    /\ dialog.check = "good"
    /\ dialog' = [open |-> FALSE, check |-> "none", latest |-> o]
    /\ Send(o)
    /\ UNCHANGED <<account, recoveryVars, jar, login, count>>

CloseDialog ==
    /\ dialog.open
    /\ dialog' = [dialog EXCEPT !.open = FALSE]
    /\ count' = [count EXCEPT !.cancelled = @ + IF dialog.check = "none" THEN 1 ELSE 0]
    /\ UNCHANGED <<account, recoveryVars, jar, login, orders>>

(***************************************************************************)
(* The recovery kit.                                                       *)
(***************************************************************************)

\* consoleRecoverySetup and flashpag_rotate_recovery_kit.  The row is keyed by the
\* user: a second kit fails on the insert and nothing changes.
SetupKit ==
    /\ login = "nothing"
    /\ RecentMFA
    /\ kit = "none"
    /\ kit' = "active"
    /\ UNCHANGED <<account, challenge, reset, overlapped, jar, login, pageVars, count>>

\* consoleRecoveryChallenge: the index of 0013 refuses a second open challenge,
\* and nothing closes one whose window has passed.
StartRecovery ==
    /\ kit = "active"
    /\ challenge.status \notin {"verified", "consuming"}
    /\ challenge' = [status |-> "verified", due |-> FALSE, cookie |-> TRUE]
    /\ UNCHANGED <<account, kit, reset, overlapped, jar, login, pageVars, count>>

\* Fifteen minutes after the challenge; the cookie ends with it.
WindowPasses ==
    /\ challenge.status \in {"verified", "consuming"}
    /\ ~challenge.due
    /\ challenge' = [challenge EXCEPT !.due = TRUE, !.cookie = FALSE]
    /\ UNCHANGED <<account, kit, reset, overlapped, jar, login, pageVars, count>>

To(r, pc) == reset' = [reset EXCEPT ![r] = pc]

\* A request with the cookie.  Whoever lost the answer of one may send another.
SendReset(r) ==
    /\ reset[r] = "unsent"
    /\ challenge.cookie
    /\ To(r, "checked")
    /\ UNCHANGED <<account, kit, challenge, overlapped, jar, login, pageVars, count>>

Overlap == overlapped' = (overlapped \/ \E s \in Resets : reset[s] \in Claimed)

\* Mutant: the cookie alone is trusted.
BeginReset_Unchecked(r) ==
    /\ reset[r] = "checked"
    /\ challenge' = [challenge EXCEPT !.status = "consuming"]
    /\ To(r, "claimed")
    /\ Overlap
    /\ UNCHANGED <<account, kit, jar, login, pageVars, count>>

\* flashpag_begin_recovery_reset, as 0014 replaces it: a challenge that is being
\* consumed may be claimed once more.  A refusal takes the cookie back.
BeginReset(r) ==
    /\ reset[r] = "checked"
    /\ LET open == challenge.status \in {"verified", "consuming"}
           good == open /\ ~challenge.due /\ kit = "active"
       IN  /\ challenge' = [challenge EXCEPT
                  !.status = IF good THEN "consuming"
                             ELSE IF open /\ challenge.due THEN "expired" ELSE @,
                  !.cookie = @ /\ good]
           /\ To(r, IF good THEN "claimed" ELSE "failed")
           /\ IF good THEN Overlap ELSE UNCHANGED overlapped
    /\ UNCHANGED <<account, kit, jar, login, pageVars, count>>

\* Changing the password ends every session.  A call that fails may have been made.
SetPassword(r) ==
    /\ reset[r] = "claimed"
    /\ \/ /\ account' = [account EXCEPT !.password = r, !.live = {}]
          /\ \E pc \in {"password", "failed"} : To(r, pc)
       \/ /\ To(r, "failed")
          /\ UNCHANGED account
    /\ UNCHANGED <<kit, challenge, overlapped, jar, login, pageVars, count>>

\* Mutant: a failure is only logged.
ResetFactors_BestEffort(r) ==
    /\ reset[r] = "password"
    /\ \/ /\ account' = [account EXCEPT !.factor = "none", !.unverified = FALSE]
          /\ \E pc \in {"factors", "failed"} : To(r, pc)
       \/ /\ To(r, "factors")
          /\ UNCHANGED account
    /\ UNCHANGED <<kit, challenge, overlapped, jar, login, pageVars, count>>

\* AdminResetMFAFactors deletes the factors one by one, verified or not, and stops
\* at the first failure.
ResetFactors(r) ==
    /\ reset[r] = "password"
    /\ \/ /\ account' = [account EXCEPT !.factor = "none", !.unverified = FALSE]
          /\ \E pc \in {"factors", "failed"} : To(r, pc)
       \/ /\ \E factor \in {account.factor, "none"}, unverified \in {account.unverified, FALSE} :
                account' = [account EXCEPT !.factor = factor, !.unverified = unverified]
          /\ To(r, "failed")
    /\ UNCHANGED <<kit, challenge, overlapped, jar, login, pageVars, count>>

\* Mutant: the kit takes a status that its column does not know.
FinalizeReset_Spent(r) ==
    /\ reset[r] = "factors"
    /\ IF kit = "active" /\ challenge.status = "consuming" /\ ~challenge.due
       THEN /\ kit' = "spent"
            /\ challenge' = [challenge EXCEPT !.status = "consumed", !.cookie = FALSE]
            /\ \E pc \in {"told", "done", "failed"} : To(r, pc)
       ELSE /\ To(r, "failed")
            /\ UNCHANGED <<kit, challenge>>
    /\ UNCHANGED <<account, overlapped, jar, login, pageVars, count>>

\* flashpag_finalize_recovery_reset locks both rows and changes both or none.  Its
\* answer, or that of the handler, may be lost: only "told" reaches the user, with
\* the end of the cookies of a sign-in and a recent code if it comes to this browser.
FinalizeReset(r) ==
    /\ reset[r] = "factors"
    /\ IF kit = "active" /\ challenge.status = "consuming" /\ ~challenge.due
       THEN /\ kit' = "used"
            /\ \E pc \in {"told", "done", "failed"} :
                  /\ To(r, pc)
                  /\ challenge' = [challenge EXCEPT !.status = "consumed",
                                                    !.cookie = @ /\ pc # "told"]
                  /\ \/ UNCHANGED jar
                     \/ pc = "told" /\ jar' = [jar EXCEPT !.pending = None, !.fresh = FALSE]
       ELSE /\ To(r, "failed")
            /\ UNCHANGED <<kit, challenge, jar>>
    /\ UNCHANGED <<account, overlapped, login, pageVars, count>>

SessionStep ==
    \/ Login \/ Enroll \/ VerifyCode \/ PendingEnds \/ SessionEnds \/ Reload \/ Logout \/ CodeGrowsOld

WithdrawalStep ==
    \/ \E o \in Orders :
          Submit(o) \/ Place(o) \/ Answered(o) \/ AnswerLost(o) \/ CodeAccepted(o)
    \/ ConfirmCode \/ CheckCode \/ CloseDialog

RecoveryStep ==
    \/ SetupKit \/ StartRecovery \/ WindowPasses
    \/ \E r \in Resets :
          SendReset(r) \/ BeginReset(r) \/ SetPassword(r) \/ ResetFactors(r) \/ FinalizeReset(r)

Next == SessionStep \/ WithdrawalStep \/ RecoveryStep

Spec == Init /\ [][Next]_vars

(***************************************************************************)
(* Properties.                                                             *)
(***************************************************************************)

\* The values the variables take.
AccessTypeOK ==
    /\ account \in [password: Resets \cup {FirstPassword}, factor: {"none", "first", "new"},
                    unverified: BOOLEAN, live: SUBSET Sids]
    /\ kit \in {"none", "active", "used"}
    /\ challenge \in [status: {"none", "verified", "consuming", "consumed", "expired"},
                      due: BOOLEAN, cookie: BOOLEAN]
    /\ reset \in [Resets -> {"unsent", "failed"} \cup Running \cup Ended]
    /\ overlapped \in BOOLEAN
    /\ jar \in [session: {None} \cup Sids, pending: {None} \cup Sids, fresh: BOOLEAN]
    /\ login \in {"credentials", "enroll", "setup", "code", "reload", "nothing"}
    /\ orders \in [Orders -> {"idle", "refused", "admitted", "needs_code", "placed", "given_up"}]
    /\ dialog \in [open: BOOLEAN, check: {"none", "sent", "good"}, latest: Orders]
    /\ count \in [logins: 0..MaxLogins, clicks: 0..MaxClicks, cancelled: Nat, placed: Nat]

\* A kit recovers once and completely: when it is spent the password has been
\* replaced and the first authenticator is gone, one request at most ended well,
\* and the password its user was told of is the one in force, unless two requests
\* held the challenge side by side (the last call to the authentication service
\* wins, and it is not the finalisation in the database that decides).
RecoveryIsWhole ==
    /\ kit = "used" => account.password # FirstPassword /\ account.factor # "first"
    /\ \A r, s \in Resets : reset[r] \in Ended /\ reset[s] \in Ended => r = s
    /\ \A r \in Resets : reset[r] = "told" => account.password = r \/ overlapped

\* "Uma nova tentativa não repete a recuperação": once the kit is spent, a request
\* sent again because an answer was lost, or from a second tab, changes neither the
\* password nor the new authenticator and ends no session, unless it held the
\* challenge while the first one did.
SpentKitIsSpent ==
    [][kit = "used" /\ ~overlapped =>
          /\ account'.password = account.password
          /\ account.live \subseteq account'.live
          /\ account.factor # "none" => account'.factor # "none"
          /\ account.unverified => account'.unverified \/ account'.factor = "new"]_vars

\* "O usuário precisa entrar novamente e configurar um novo autenticador TOTP"
\* (docs/security/recovery-kit.md): once a recovery has succeeded, the enrolment of
\* who has signed in with the new password goes out with a session that is alive.
\* The code sends that of an older sign-in, which the recovery ended, when the
\* browser still has its cookie.
RecoveredUserEnrolls ==
    (\E r \in Resets : reset[r] = "told") =>
        (login = "enroll" /\ Alive(jar.pending) => Alive(Token))

\* Each withdrawal submitted is placed once at most, however often its order is
\* sent, and not at all when its dialog was closed before the code was sent.
\* Closing it while the code is being checked does not stop the order.
OneWithdrawalPerClick == count.placed + count.cancelled <= count.clicks

=============================================================================
