------------------------- MODULE AccountAccessProofs -------------------------
(***************************************************************************)
(* Access to an account, for any number of resets, pending orders, logins  *)
(* and withdrawals: a recovery is whole, a kit that is spent changes       *)
(* nothing any more, and a withdrawal that was submitted once is placed    *)
(* once at most.                                                           *)
(***************************************************************************)
EXTENDS AccountAccess, FiniteSetTheorems, TLAPS

\* How far a reset has come says what it has changed.
ResetsInOrder ==
    /\ account.factor = "none" => account.password # FirstPassword
    /\ \A r \in Resets :
          /\ reset[r] \in {"password", "factors"} \cup Ended => account.password # FirstPassword
          /\ reset[r] \in {"factors"} \cup Ended => account.factor # "first"
          /\ reset[r] \in Ended => kit = "used"
    /\ kit = "used" => account.password # FirstPassword /\ account.factor # "first"
    /\ \A r, s \in Resets : reset[r] \in Ended /\ reset[s] \in Ended => r = s

\* As long as no two resets have held the challenge side by side, one at most holds
\* it, none once the kit is spent, and the one that has come as far as the password is
\* the one whose password is in force.
OneByOne ==
    ~overlapped =>
        /\ \A r, s \in Resets : reset[r] \in Claimed /\ reset[s] \in Claimed => r = s
        /\ \A r \in Resets :
              /\ kit = "used" => reset[r] \notin Claimed
              /\ reset[r] \in {"password", "factors", "told"} => account.password = r

\* Orders that may still be placed, and the dialog's own claim to send one.
Open == {o \in Orders : orders[o] \in {"admitted", "given_up", "needs_code"}}
Asking == IF dialog.open \/ dialog.check # "none" THEN 1 ELSE 0
ClicksCoverOrders == count.placed + count.cancelled + Asking + Cardinality(Open) <= count.clicks

-----------------------------------------------------------------------------
(* Types *)

Account == [password: Resets \cup {FirstPassword}, factor: {"none", "first", "new"},
            unverified: BOOLEAN, live: SUBSET Sids]
Challenge == [status: {"none", "verified", "consuming", "consumed", "expired"},
              due: BOOLEAN, cookie: BOOLEAN]
Jar == [session: {None} \cup Sids, pending: {None} \cup Sids, fresh: BOOLEAN]
SignIn == {"credentials", "enroll", "setup", "code", "reload", "nothing"}
OrderStates == {"idle", "refused", "admitted", "needs_code", "placed", "given_up"}
Dialog == [open: BOOLEAN, check: {"none", "sent", "good"}, latest: Orders]
Count == [logins: 0..MaxLogins, clicks: 0..MaxClicks, cancelled: Nat, placed: Nat]
Progress == {"unsent", "failed"} \cup Running \cup Ended

LEMMA AccessTypeParts ==
    AccessTypeOK <=>
       /\ account \in Account /\ kit \in {"none", "active", "used"} /\ challenge \in Challenge
       /\ reset \in [Resets -> Progress] /\ overlapped \in BOOLEAN /\ jar \in Jar
       /\ login \in SignIn /\ orders \in [Orders -> OrderStates] /\ dialog \in Dialog /\ count \in Count
BY DEF AccessTypeOK, Account, Challenge, Jar, SignIn, OrderStates, Dialog, Count, Progress

LEMMA AccessTypePartsNext ==
    /\ account' \in Account /\ kit' \in {"none", "active", "used"} /\ challenge' \in Challenge
    /\ reset' \in [Resets -> Progress] /\ overlapped' \in BOOLEAN /\ jar' \in Jar
    /\ login' \in SignIn /\ orders' \in [Orders -> OrderStates] /\ dialog' \in Dialog /\ count' \in Count
    => AccessTypeOK'
BY DEF AccessTypeOK, Account, Challenge, Jar, SignIn, OrderStates, Dialog, Count, Progress

LEMMA AccessTypeInitial == Init => AccessTypeOK
<1> SUFFICES ASSUME Init PROVE AccessTypeOK
  OBVIOUS
<1>1. account \in Account /\ kit \in {"none", "active", "used"} /\ challenge \in Challenge
  BY DEF Init, Account, Challenge
<1>2. reset \in [Resets -> Progress] /\ overlapped \in BOOLEAN /\ orders \in [Orders -> OrderStates]
  BY DEF Init, Progress, OrderStates
<1>3. jar \in Jar /\ login \in SignIn
  BY DEF Init, Jar, SignIn
<1>4. dialog \in Dialog
  BY DEF Init, Dialog
<1>5. count \in Count
  BY AccessAssumption DEF Init, Count
<1>6. QED
  BY <1>1, <1>2, <1>3, <1>4, <1>5, AccessTypeParts

LEMMA TokenType == AccessTypeOK => Token \in {None} \cup Sids
BY DEF AccessTypeOK, Token

LEMMA SessionType ==
    ASSUME AccessTypeOK, SessionStep
    PROVE  AccessTypeOK'
<1> USE DEF recoveryVars, pageVars
<1>0. /\ account \in Account /\ jar \in Jar /\ login \in SignIn /\ dialog \in Dialog /\ count \in Count
      /\ kit \in {"none", "active", "used"} /\ challenge \in Challenge
      /\ reset \in [Resets -> Progress] /\ overlapped \in BOOLEAN /\ orders \in [Orders -> OrderStates]
  BY AccessTypeParts
<1> DEFINE Typed == /\ account' \in Account /\ challenge' \in Challenge /\ jar' \in Jar
                    /\ login' \in SignIn /\ dialog' \in Dialog /\ count' \in Count
                    /\ UNCHANGED <<kit, reset, overlapped, orders>>
<1>c. \A cookie \in BOOLEAN : [challenge EXCEPT !.cookie = cookie] \in Challenge
  BY <1>0 DEF Challenge
<1>k. {challenge.cookie, FALSE} \subseteq BOOLEAN
  BY <1>0 DEF Challenge
<1>1. ASSUME Login PROVE Typed
  <2>1. count.logins + 1 \in Sids /\ count.logins + 1 \in 0..MaxLogins
    BY <1>0, <1>1, AccessAssumption DEF Login, Count, Sids
  <2>2. account' \in Account /\ count' \in Count
    BY <1>0, <1>1, <2>1 DEF Login, Account, Count
  <2>3. jar' \in Jar
    BY <1>0, <1>1, <2>1 DEF Login, Jar
  <2>4. login' \in SignIn
    BY <1>0, <1>1 DEF Login, SignIn
  <2>5. challenge' \in Challenge
    BY <1>1, <1>c, <1>k DEF Login
  <2>6. QED
    BY <1>0, <1>1, <2>2, <2>3, <2>4, <2>5 DEF Login
<1>2. ASSUME Enroll PROVE Typed
  <2>1. login' \in SignIn
    BY <1>2 DEF Enroll, SignIn
  <2>2. account' \in Account
    BY <1>0, <1>2 DEF Enroll, Account
  <2>3. QED
    BY <1>0, <1>2, <2>1, <2>2 DEF Enroll
<1>3. ASSUME VerifyCode PROVE Typed
  <2>1. account' \in {account, [account EXCEPT !.factor = "new", !.unverified = FALSE]}
    BY <1>3 DEF VerifyCode
  <2>2. account' \in Account
    BY <1>0, <2>1 DEF Account
  <2>3. jar' \in Jar
    <3>1. \A fresh \in BOOLEAN : [session |-> Token, pending |-> None, fresh |-> fresh] \in Jar
      BY TokenType DEF Jar
    <3>2. QED
      BY <1>0, <1>3, <3>1 DEF VerifyCode
  <2>4. login' \in SignIn
    BY <1>0, <1>3 DEF VerifyCode, SignIn
  <2>5. QED
    BY <1>0, <1>3, <2>2, <2>3, <2>4 DEF VerifyCode
<1>4. ASSUME PendingEnds PROVE Typed
  BY <1>0, <1>4 DEF PendingEnds, Jar
<1>5. ASSUME SessionEnds PROVE Typed
  BY <1>0, <1>5 DEF SessionEnds, Jar
<1>6. ASSUME Reload PROVE Typed
  <2>1. login' \in SignIn
    BY <1>6 DEF Reload, SignIn
  <2>2. dialog' \in Dialog
    BY <1>0, <1>6 DEF Reload, Dialog
  <2>3. QED
    BY <1>0, <1>6, <2>1, <2>2 DEF Reload
<1>7. ASSUME Logout PROVE Typed
  <2>1. dialog' \in Dialog
    BY <1>0, <1>7 DEF Logout, Dialog
  <2>2. challenge' \in Challenge
    BY <1>7, <1>c, <1>k DEF Logout
  <2>3. jar' \in Jar /\ login' \in SignIn
    BY <1>7 DEF Logout, Jar, SignIn
  <2>4. QED
    BY <1>0, <1>7, <2>1, <2>2, <2>3 DEF Logout
<1>8. ASSUME CodeGrowsOld PROVE Typed
  BY <1>0, <1>8 DEF CodeGrowsOld, Jar
<1> HIDE DEF Typed
<1>9. Typed
  BY <1>1, <1>2, <1>3, <1>4, <1>5, <1>6, <1>7, <1>8 DEF SessionStep
<1>10. QED
  BY <1>0, <1>9, AccessTypePartsNext DEF Typed

LEMMA SendType ==
    ASSUME orders \in [Orders -> OrderStates], NEW o \in Orders, Send(o)
    PROVE  orders' \in [Orders -> OrderStates]
BY DEF Send, OrderStates

LEMMA WithdrawalType ==
    ASSUME AccessTypeOK, WithdrawalStep
    PROVE  AccessTypeOK'
<1> USE DEF recoveryVars
<1>0. /\ jar \in Jar /\ orders \in [Orders -> OrderStates] /\ dialog \in Dialog /\ count \in Count
      /\ account \in Account /\ kit \in {"none", "active", "used"} /\ challenge \in Challenge
      /\ reset \in [Resets -> Progress] /\ overlapped \in BOOLEAN /\ login \in SignIn
  BY AccessTypeParts
<1> DEFINE Typed == /\ jar' \in Jar /\ orders' \in [Orders -> OrderStates] /\ dialog' \in Dialog
                    /\ count' \in Count /\ UNCHANGED <<account, kit, challenge, reset, overlapped, login>>
<1>1. ASSUME NEW o \in Orders, Submit(o) PROVE Typed
  <2>0. count.clicks < MaxClicks /\ count' = [count EXCEPT !.clicks = @ + 1]
    BY <1>1 DEF Submit
  <2>1. count' \in Count
    BY <1>0, <2>0, AccessAssumption DEF Count
  <2>2. dialog' \in Dialog
    BY <1>0, <1>1 DEF Submit, Dialog
  <2>3. QED
    BY <1>0, <1>1, <2>1, <2>2, SendType DEF Submit
<1>2. ASSUME NEW o \in Orders, Place(o) PROVE Typed
  <2>1. PICK outcome \in {"placed", "refused"} :
           /\ orders' = [orders EXCEPT ![o] = IF @ = "admitted" THEN outcome ELSE "idle"]
           /\ count' = [count EXCEPT !.placed = @ + IF outcome = "placed" THEN 1 ELSE 0]
    BY <1>2 DEF Place
  <2>2. orders' \in [Orders -> OrderStates]
    BY <1>0, <2>1 DEF OrderStates
  <2>3. count' \in Count
    BY <1>0, <2>1 DEF Count
  <2>4. QED
    BY <1>0, <1>2, <2>2, <2>3 DEF Place
<1>3. ASSUME NEW o \in Orders, Answered(o) PROVE Typed
  <2>1. orders' \in [Orders -> OrderStates]
    BY <1>0, <1>3 DEF Answered, OrderStates
  <2> DEFINE open == dialog.open \/ orders[o] = "needs_code"
  <2>2. open \in BOOLEAN /\ dialog' = [dialog EXCEPT !.open = open]
    BY <1>0, <1>3 DEF Answered, Dialog
  <2> HIDE DEF open
  <2>3. dialog' \in Dialog
    BY <1>0, <2>2 DEF Dialog
  <2>4. QED
    BY <1>0, <1>3, <2>1, <2>3 DEF Answered
<1>4. ASSUME NEW o \in Orders, AnswerLost(o) PROVE Typed
  BY <1>0, <1>4 DEF AnswerLost, OrderStates
<1>5. ASSUME NEW o \in Orders, CodeAccepted(o) PROVE Typed
  BY <1>0, <1>5, SendType DEF CodeAccepted, Dialog
<1>6. ASSUME ConfirmCode PROVE Typed
  BY <1>0, <1>6 DEF ConfirmCode, Dialog
<1>7. ASSUME CheckCode PROVE Typed
  BY <1>0, <1>7 DEF CheckCode, Dialog, Jar
<1>8. ASSUME CloseDialog PROVE Typed
  <2>1. dialog' \in Dialog
    BY <1>0, <1>8 DEF CloseDialog, Dialog
  <2>2. count' \in Count
    BY <1>0, <1>8 DEF CloseDialog, Count
  <2>3. QED
    BY <1>0, <1>8, <2>1, <2>2 DEF CloseDialog
<1> HIDE DEF Typed
<1>9. Typed
  BY <1>1, <1>2, <1>3, <1>4, <1>5, <1>6, <1>7, <1>8 DEF WithdrawalStep
<1>10. QED
  BY <1>0, <1>9, AccessTypePartsNext DEF Typed

LEMMA RecoveryType ==
    ASSUME AccessTypeOK, RecoveryStep
    PROVE  AccessTypeOK'
<1> USE DEF pageVars
<1>0. /\ account \in Account /\ kit \in {"none", "active", "used"} /\ challenge \in Challenge
      /\ reset \in [Resets -> Progress] /\ overlapped \in BOOLEAN /\ jar \in Jar
      /\ login \in SignIn /\ orders \in [Orders -> OrderStates] /\ dialog \in Dialog /\ count \in Count
  BY AccessTypeParts
<1> DEFINE Typed == /\ account' \in Account /\ kit' \in {"none", "active", "used"} /\ challenge' \in Challenge
                    /\ reset' \in [Resets -> Progress] /\ overlapped' \in BOOLEAN
                    /\ jar' \in Jar /\ UNCHANGED <<login, orders, dialog, count>>
<1>1. ASSUME SetupKit PROVE Typed
  BY <1>0, <1>1 DEF SetupKit
<1>2. ASSUME StartRecovery PROVE Typed
  BY <1>0, <1>2 DEF StartRecovery, Challenge
<1>3. ASSUME WindowPasses PROVE Typed
  BY <1>0, <1>3 DEF WindowPasses, Challenge
<1>4. ASSUME NEW r \in Resets, SendReset(r) PROVE Typed
  <2>1. reset' \in [Resets -> Progress]
    BY <1>0, <1>4 DEF SendReset, To, Progress, Running
  <2>2. QED
    BY <1>0, <1>4, <2>1 DEF SendReset
<1>5. ASSUME NEW r \in Resets, BeginReset(r) PROVE Typed
  <2>1. reset' \in [Resets -> Progress]
    BY <1>0, <1>5 DEF BeginReset, To, Progress, Running, Claimed
  <2>2. PICK status \in {"consuming", "expired", challenge.status}, cookie \in BOOLEAN :
           challenge' = [challenge EXCEPT !.status = status, !.cookie = cookie]
    <3> DEFINE open == challenge.status \in {"verified", "consuming"}
               good == open /\ ~challenge.due /\ kit = "active"
               cookie == challenge.cookie /\ good
               status == IF good THEN "consuming" ELSE IF open /\ challenge.due THEN "expired" ELSE challenge.status
    <3>1. challenge' = [challenge EXCEPT !.status = status, !.cookie = cookie]
      BY <1>5 DEF BeginReset
    <3>2. status \in {"consuming", "expired", challenge.status}
      OBVIOUS
    <3>3. cookie \in BOOLEAN
      BY <1>0 DEF Challenge
    <3> HIDE DEF status, cookie
    <3>4. QED
      BY <3>1, <3>2, <3>3
  <2>3. challenge' \in Challenge
    BY <1>0, <2>2 DEF Challenge
  <2>4. overlapped' \in BOOLEAN
    BY <1>0, <1>5 DEF BeginReset, Overlap
  <2>5. QED
    BY <1>0, <1>5, <2>1, <2>3, <2>4 DEF BeginReset
<1>6. ASSUME NEW r \in Resets, SetPassword(r) PROVE Typed
  <2>1. account' \in Account
    BY <1>0, <1>6 DEF SetPassword, Account
  <2>2. reset' \in [Resets -> Progress]
    BY <1>0, <1>6 DEF SetPassword, To, Progress, Running, Claimed
  <2>3. QED
    BY <1>0, <1>6, <2>1, <2>2 DEF SetPassword
<1>7. ASSUME NEW r \in Resets, ResetFactors(r) PROVE Typed
  <2>1. \E factor \in {account.factor, "none"}, unverified \in {account.unverified, FALSE} :
           account' = [account EXCEPT !.factor = factor, !.unverified = unverified]
    BY <1>7 DEF ResetFactors
  <2>2. account' \in Account
    BY <1>0, <2>1 DEF Account
  <2>3. reset' \in [Resets -> Progress]
    BY <1>0, <1>7 DEF ResetFactors, To, Progress, Running, Claimed
  <2>4. QED
    BY <1>0, <1>7, <2>2, <2>3 DEF ResetFactors
<1>8. ASSUME NEW r \in Resets, FinalizeReset(r) PROVE Typed
  <2>1. kit' \in {"none", "active", "used"} /\ reset' \in [Resets -> Progress]
    BY <1>0, <1>8 DEF FinalizeReset, To, Progress, Ended
  <2>2. challenge' \in Challenge
    <3>1. CASE UNCHANGED challenge
      BY <1>0, <3>1
    <3>2. ASSUME NEW pc \in {"told", "done", "failed"},
                 challenge' = [challenge EXCEPT !.status = "consumed", !.cookie = @ /\ pc # "told"]
          PROVE  challenge' \in Challenge
      <4> DEFINE cookie == challenge.cookie /\ pc # "told"
      <4>1. cookie \in BOOLEAN /\ challenge' = [challenge EXCEPT !.status = "consumed", !.cookie = cookie]
        BY <1>0, <3>2 DEF Challenge
      <4> HIDE DEF cookie
      <4>2. QED
        BY <1>0, <4>1 DEF Challenge
    <3>3. QED
      BY <1>8, <3>1, <3>2 DEF FinalizeReset
  <2>3. jar' \in Jar
    BY <1>0, <1>8 DEF FinalizeReset, Jar
  <2>4. QED
    BY <1>0, <1>8, <2>1, <2>2, <2>3 DEF FinalizeReset
<1> HIDE DEF Typed
<1>9. Typed
  BY <1>1, <1>2, <1>3, <1>4, <1>5, <1>6, <1>7, <1>8 DEF RecoveryStep
<1>10. QED
  BY <1>0, <1>9, AccessTypePartsNext DEF Typed

LEMMA AccessTypeStep == AccessTypeOK /\ [Next]_vars => AccessTypeOK'
<1> SUFFICES ASSUME AccessTypeOK, [Next]_vars PROVE AccessTypeOK'
  OBVIOUS
<1>1. CASE UNCHANGED vars
  <2>1. UNCHANGED <<account, kit, challenge, reset, overlapped, jar, login, orders, dialog, count>>
    BY <1>1 DEF vars, recoveryVars, pageVars
  <2>2. QED
    BY <2>1, AccessTypeParts, AccessTypePartsNext
<1>2. QED
  BY <1>1, SessionType, WithdrawalType, RecoveryType DEF Next

\* The variables keep to their types.
THEOREM AccessTypeCorrect == Spec => []AccessTypeOK
BY AccessTypeInitial, AccessTypeStep, PTL DEF Spec

-----------------------------------------------------------------------------
(* Recovery *)

\* Signing in and withdrawing leave a recovery and its password alone, end no
\* session and remove no factor.
LEMMA OnlyRecoveryTakesAway ==
    ASSUME AccessTypeOK, SessionStep \/ WithdrawalStep
    PROVE  /\ UNCHANGED <<kit, reset, overlapped>>
           /\ account'.password = account.password
           /\ account'.factor \in {account.factor, "new"}
           /\ account.live \subseteq account'.live
           /\ account.unverified => account'.unverified \/ account'.factor = "new"
<1>0. account \in Account
  BY AccessTypeParts
<1>1. CASE Login
  <2>1. \E sid \in Nat : account' = [account EXCEPT !.live = @ \cup {sid}]
    <3>1. count.logins + 1 \in Nat
      BY AccessAssumption DEF AccessTypeOK
    <3>2. QED
      BY <1>1, <3>1 DEF Login
  <2>2. QED
    BY <1>0, <1>1, <2>1 DEF Login, Account
<1>2. CASE Enroll
  <2>1. account' \in {account, [account EXCEPT !.unverified = TRUE]}
    BY <1>2 DEF Enroll
  <2>2. QED
    BY <1>0, <1>2, <2>1 DEF Enroll, Account, recoveryVars
<1>3. CASE VerifyCode
  <2>1. account' \in {account, [account EXCEPT !.factor = "new", !.unverified = FALSE]}
    BY <1>3 DEF VerifyCode
  <2>2. QED
    BY <1>0, <1>3, <2>1 DEF VerifyCode, Account, recoveryVars
<1>4. CASE UNCHANGED <<account, kit, reset, overlapped>>
  BY <1>4
<1>5. QED
  BY <1>1, <1>2, <1>3, <1>4
  DEF SessionStep, PendingEnds, SessionEnds, Reload, Logout, CodeGrowsOld, WithdrawalStep, Submit,
      Place, Answered, AnswerLost, CodeAccepted, ConfirmCode, CheckCode, CloseDialog, recoveryVars

LEMMA RecoveryInitial == Init => ResetsInOrder /\ OneByOne
BY DEF Init, ResetsInOrder, OneByOne, Claimed, Ended

LEMMA RecoveryKept ==
    ASSUME AccessTypeOK, ResetsInOrder, OneByOne, [Next]_vars
    PROVE  ResetsInOrder' /\ OneByOne'
<1> USE DEF ResetsInOrder, OneByOne, Claimed, Running, Ended, To
<1>0. /\ account \in Account /\ kit \in {"none", "active", "used"}
      /\ reset \in [Resets -> Progress] /\ overlapped \in BOOLEAN
  BY AccessTypeParts
<1>1. CASE SessionStep \/ WithdrawalStep
  BY <1>0, <1>1, OnlyRecoveryTakesAway DEF Account
<1>2. CASE SetupKit \/ StartRecovery \/ WindowPasses \/ UNCHANGED vars
  <2>1. UNCHANGED <<account, reset, overlapped>>
    BY <1>2 DEF SetupKit, StartRecovery, WindowPasses, vars, recoveryVars
  <2>2. kit' = "used" <=> kit = "used"
    BY <1>2 DEF SetupKit, StartRecovery, WindowPasses, vars, recoveryVars
  <2>3. QED
    BY <2>1, <2>2
<1>3. ASSUME NEW r \in Resets, SendReset(r) PROVE ResetsInOrder' /\ OneByOne'
  <2>1. UNCHANGED <<account, kit, overlapped>> /\ reset' = [reset EXCEPT ![r] = "checked"]
    BY <1>3 DEF SendReset
  <2>2. ResetsInOrder'
    BY <1>0, <2>1 DEF Progress
  <2>3. OneByOne'
    BY <1>0, <2>1 DEF Progress
  <2>4. QED
    BY <2>2, <2>3
<1>4. ASSUME NEW r \in Resets, BeginReset(r) PROVE ResetsInOrder' /\ OneByOne'
  <2>1. /\ UNCHANGED <<account, kit>> /\ reset[r] = "checked"
        /\ \/ /\ reset' = [reset EXCEPT ![r] = "claimed"]
              /\ kit = "active"
              /\ ~overlapped' => ~overlapped /\ \A s \in Resets : reset[s] \notin Claimed
           \/ /\ reset' = [reset EXCEPT ![r] = "failed"]
              /\ UNCHANGED overlapped
    BY <1>4 DEF BeginReset, Overlap
  <2>2. ResetsInOrder'
    BY <1>0, <2>1 DEF Progress
  <2>3. OneByOne'
    BY <1>0, <2>1 DEF Progress
  <2>4. QED
    BY <2>2, <2>3
<1>5. ASSUME NEW r \in Resets, SetPassword(r) PROVE ResetsInOrder' /\ OneByOne'
  <2>1. /\ UNCHANGED <<kit, overlapped>> /\ reset[r] = "claimed"
        /\ \E pc \in {"password", "failed"} : reset' = [reset EXCEPT ![r] = pc]
        /\ account'.factor = account.factor
        /\ \/ account'.password = r
           \/ account'.password = account.password /\ reset'[r] = "failed"
    BY <1>0, <1>5 DEF SetPassword, Account
  <2>2. r # FirstPassword
    BY AccessAssumption
  <2>3. ResetsInOrder'
    BY <1>0, <2>1, <2>2 DEF Progress
  <2>4. OneByOne'
    BY <1>0, <2>1 DEF Progress
  <2>5. QED
    BY <2>3, <2>4
<1>6. ASSUME NEW r \in Resets, ResetFactors(r) PROVE ResetsInOrder' /\ OneByOne'
  <2>1. /\ UNCHANGED <<kit, overlapped>> /\ reset[r] = "password"
        /\ \E pc \in {"factors", "failed"} : reset' = [reset EXCEPT ![r] = pc]
        /\ account'.password = account.password
        /\ \/ account'.factor = "none"
           \/ account'.factor = account.factor /\ reset'[r] = "failed"
    <3>1. /\ UNCHANGED <<kit, overlapped>> /\ reset[r] = "password"
          /\ \E factor \in {account.factor, "none"}, unverified \in {account.unverified, FALSE},
                pc \in {"factors", "failed"} :
               /\ account' = [account EXCEPT !.factor = factor, !.unverified = unverified]
               /\ reset' = [reset EXCEPT ![r] = pc]
               /\ factor = "none" \/ pc = "failed"
      BY <1>6 DEF ResetFactors
    <3>2. QED
      BY <1>0, <3>1 DEF Account
  <2>2. ResetsInOrder'
    BY <1>0, <2>1 DEF Progress
  <2>3. OneByOne'
    BY <1>0, <2>1 DEF Progress
  <2>4. QED
    BY <2>2, <2>3
<1>7. ASSUME NEW r \in Resets, FinalizeReset(r) PROVE ResetsInOrder' /\ OneByOne'
  <2>1. UNCHANGED <<account, overlapped>> /\ reset[r] = "factors"
    BY <1>7 DEF FinalizeReset
  <2>2. CASE /\ kit = "active" /\ kit' = "used"
             /\ \E pc \in {"told", "done", "failed"} : reset' = [reset EXCEPT ![r] = pc]
    <3>1. ResetsInOrder'
      BY <1>0, <2>1, <2>2 DEF Progress
    <3>2. OneByOne'
      BY <1>0, <2>1, <2>2 DEF Progress
    <3>3. QED
      BY <3>1, <3>2
  <2>3. CASE kit' = kit /\ reset' = [reset EXCEPT ![r] = "failed"]
    BY <1>0, <2>1, <2>3 DEF Progress
  <2>4. QED
    BY <1>7, <2>2, <2>3 DEF FinalizeReset
<1>8. QED
  BY <1>1, <1>2, <1>3, <1>4, <1>5, <1>6, <1>7 DEF Next, RecoveryStep

\* A spent kit has recovered the account completely and once.
THEOREM RecoveryWhole == Spec => []RecoveryIsWhole
<1>1. Init => AccessTypeOK /\ ResetsInOrder /\ OneByOne
  BY AccessTypeInitial, RecoveryInitial
<1>2. AccessTypeOK /\ ResetsInOrder /\ OneByOne /\ [Next]_vars
      => (AccessTypeOK /\ ResetsInOrder /\ OneByOne)'
  BY AccessTypeStep, RecoveryKept
<1>3. AccessTypeOK /\ ResetsInOrder /\ OneByOne => RecoveryIsWhole
  BY DEF AccessTypeOK, ResetsInOrder, OneByOne, RecoveryIsWhole
<1>4. QED
  BY <1>1, <1>2, <1>3, PTL DEF Spec

\* A reset that holds no challenge changes nothing in the authentication service.
LEMMA OnlyClaimedResetsChange ==
    ASSUME AccessTypeOK, RecoveryStep, \A r \in Resets : reset[r] \notin Claimed
    PROVE  UNCHANGED account
BY DEF Claimed, RecoveryStep, SetupKit, StartRecovery, WindowPasses, SendReset, BeginReset,
       SetPassword, ResetFactors, FinalizeReset

\* A kit that is spent takes nothing away any more: not the password, not a session,
\* not a factor.
THEOREM SpentKitStays == Spec => SpentKitIsSpent
<1>1. Init => AccessTypeOK /\ ResetsInOrder /\ OneByOne
  BY AccessTypeInitial, RecoveryInitial
<1>2. AccessTypeOK /\ ResetsInOrder /\ OneByOne /\ [Next]_vars
      => (AccessTypeOK /\ ResetsInOrder /\ OneByOne)'
  BY AccessTypeStep, RecoveryKept
<1>3. AccessTypeOK /\ OneByOne /\ [Next]_vars
      => [kit = "used" /\ ~overlapped =>
            /\ account'.password = account.password
            /\ account.live \subseteq account'.live
            /\ account.factor # "none" => account'.factor # "none"
            /\ account.unverified => account'.unverified \/ account'.factor = "new"]_vars
  <2> SUFFICES ASSUME AccessTypeOK, OneByOne, Next, kit = "used", ~overlapped
               PROVE  /\ account'.password = account.password
                      /\ account.live \subseteq account'.live
                      /\ account.factor # "none" => account'.factor # "none"
                      /\ account.unverified => account'.unverified \/ account'.factor = "new"
    OBVIOUS
  <2>1. \A r \in Resets : reset[r] \notin Claimed
    BY DEF OneByOne
  <2>2. CASE SessionStep \/ WithdrawalStep
    BY <2>2, OnlyRecoveryTakesAway
  <2>3. CASE RecoveryStep
    BY <2>1, <2>3, OnlyClaimedResetsChange
  <2>4. QED
    BY <2>2, <2>3 DEF Next
<1>4. QED
  BY <1>1, <1>2, <1>3, PTL DEF Spec, SpentKitIsSpent

-----------------------------------------------------------------------------
(* Withdrawals *)

\* An order that changes its state counts once more, once less or as before.
LEMMA OpenChanges ==
    ASSUME NEW o \in Orders, NEW state \in OrderStates,
           orders \in [Orders -> OrderStates], orders' = [orders EXCEPT ![o] = state]
    PROVE  /\ IsFiniteSet(Open) /\ Cardinality(Open) \in Nat /\ Cardinality(Open') \in Nat
           /\ o \notin Open /\ o \in Open' => Cardinality(Open') = Cardinality(Open) + 1
           /\ o \in Open /\ o \notin Open' => Cardinality(Open') = Cardinality(Open) - 1
           /\ (o \in Open <=> o \in Open') => Cardinality(Open') = Cardinality(Open)
<1>1. Open \subseteq Orders /\ Open' \subseteq Orders
  BY DEF Open
<1>2. IsFiniteSet(Open) /\ IsFiniteSet(Open')
  BY <1>1, AccessAssumption, FS_Subset
<1>3. Cardinality(Open) \in Nat /\ Cardinality(Open') \in Nat
  BY <1>2, FS_CardinalityType
<1>4. CASE o \notin Open /\ o \in Open'
  <2>1. Open' = Open \cup {o}
    BY <1>4 DEF Open
  <2>2. QED
    BY <1>2, <1>3, <1>4, <2>1, FS_AddElement
<1>5. CASE o \in Open /\ o \notin Open'
  <2>1. Open' = Open \ {o}
    BY <1>5 DEF Open
  <2>2. QED
    BY <1>2, <1>3, <1>5, <2>1, FS_RemoveElement
<1>6. CASE o \in Open <=> o \in Open'
  <2>1. Open' = Open
    BY <1>6 DEF Open
  <2>2. QED
    BY <1>2, <1>3, <1>6, <2>1
<1>7. QED
  BY <1>2, <1>3, <1>4, <1>5, <1>6

LEMMA ClickTypes ==
    ASSUME AccessTypeOK
    PROVE  /\ count.placed \in Nat /\ count.cancelled \in Nat /\ count.clicks \in Nat
           /\ Cardinality(Open) \in Nat /\ Asking \in 0..1 /\ Asking' \in 0..1
<1>1. count \in Count
  BY AccessTypeParts
<1>2. count.placed \in Nat /\ count.cancelled \in Nat /\ count.clicks \in Nat
  BY <1>1, AccessAssumption DEF Count
<1>3. Open \subseteq Orders
  BY DEF Open
<1>4. Cardinality(Open) \in Nat
  BY <1>3, AccessAssumption, FS_Subset, FS_CardinalityType
<1>5. Asking \in 0..1 /\ Asking' \in 0..1
  BY DEF Asking
<1>6. QED
  BY <1>2, <1>4, <1>5

LEMMA ClicksInitial == Init => ClicksCoverOrders
<1> SUFFICES ASSUME Init PROVE ClicksCoverOrders
  OBVIOUS
<1>1. Open = {} /\ Asking = 0
  BY DEF Init, Open, Asking
<1>2. Cardinality(Open) = 0
  BY <1>1, FS_EmptySet
<1>3. QED
  BY <1>1, <1>2 DEF Init, ClicksCoverOrders

\* What is not about orders leaves the claims on a click as they are, or drops one.
LEMMA OtherStepsKeepClicks ==
    ASSUME AccessTypeOK, ClicksCoverOrders, SessionStep \/ RecoveryStep \/ UNCHANGED vars
    PROVE  ClicksCoverOrders'
<1>0. dialog \in Dialog /\ count \in Count /\ orders \in [Orders -> OrderStates]
  BY AccessTypeParts
<1>1. /\ orders' = orders
      /\ dialog' \in {dialog, [dialog EXCEPT !.open = FALSE]}
      /\ count'.placed = count.placed /\ count'.cancelled = count.cancelled /\ count'.clicks = count.clicks
  BY <1>0
  DEF SessionStep, Login, Enroll, VerifyCode, PendingEnds, SessionEnds, Reload, Logout, CodeGrowsOld,
      RecoveryStep, SetupKit, StartRecovery, WindowPasses, SendReset, BeginReset, SetPassword,
      ResetFactors, FinalizeReset, vars, pageVars, Count
<1>2. Open' = Open
  BY <1>1 DEF Open
<1>3. Asking' <= Asking
  BY <1>0, <1>1 DEF Asking, Dialog
<1>4. QED
  BY <1>1, <1>2, <1>3, ClickTypes DEF ClicksCoverOrders

LEMMA WithdrawalKeepsClicks ==
    ASSUME AccessTypeOK, ClicksCoverOrders, WithdrawalStep
    PROVE  ClicksCoverOrders'
<1> USE DEF ClicksCoverOrders
<1>0. dialog \in Dialog /\ count \in Count /\ orders \in [Orders -> OrderStates]
  BY AccessTypeParts
<1>1. /\ count.placed \in Nat /\ count.cancelled \in Nat /\ count.clicks \in Nat
      /\ Cardinality(Open) \in Nat /\ Asking \in 0..1 /\ Asking' \in 0..1
  BY ClickTypes
<1>2. ASSUME NEW o \in Orders, Submit(o) PROVE ClicksCoverOrders'
  <2>1. PICK state \in {"refused", "admitted", "needs_code"} : orders' = [orders EXCEPT ![o] = state]
    BY <1>2 DEF Submit, Send
  <2>2. Cardinality(Open') = Cardinality(Open) \/ Cardinality(Open') = Cardinality(Open) + 1
    <3>1. state \in OrderStates
      BY <2>1 DEF OrderStates
    <3>2. o \notin Open
      BY <1>2 DEF Submit, Send, Open
    <3>3. QED
      BY <1>0, <2>1, <3>1, <3>2, OpenChanges
  <2>3. Asking' = Asking
    BY <1>0, <1>2 DEF Submit, Asking, Dialog
  <2>4. /\ count'.placed = count.placed /\ count'.cancelled = count.cancelled
        /\ count'.clicks = count.clicks + 1
    BY <1>0, <1>2 DEF Submit, Count
  <2>5. QED
    BY <1>1, <2>3, <2>4, <2>2
<1>3. ASSUME NEW o \in Orders, Place(o) PROVE ClicksCoverOrders'
  <2>1. PICK outcome \in {"placed", "refused"} :
           /\ orders' = [orders EXCEPT ![o] = IF @ = "admitted" THEN outcome ELSE "idle"]
           /\ count' = [count EXCEPT !.placed = @ + IF outcome = "placed" THEN 1 ELSE 0]
    BY <1>3 DEF Place
  <2>2. o \in Open /\ o \notin Open'
    BY <1>0, <1>3, <2>1 DEF Place, Open
  <2>3. Cardinality(Open') = Cardinality(Open) - 1
    BY <1>0, <2>1, <2>2, OpenChanges DEF OrderStates
  <2>4. Asking' = Asking
    BY <1>3 DEF Place, Asking
  <2>5. /\ count'.placed <= count.placed + 1 /\ count'.placed \in Nat
        /\ count'.cancelled = count.cancelled /\ count'.clicks = count.clicks
    BY <1>0, <1>1, <2>1 DEF Count
  <2>6. QED
    BY <1>1, <2>3, <2>4, <2>5
<1>4. ASSUME NEW o \in Orders, Answered(o) PROVE ClicksCoverOrders'
  <2>1. orders' = [orders EXCEPT ![o] = "idle"] /\ o \notin Open' /\ count' = count
    BY <1>0, <1>4 DEF Answered, Open
  <2>2. CASE orders[o] = "needs_code"
    <3>1. o \in Open
      BY <2>2 DEF Open
    <3>2. Cardinality(Open') = Cardinality(Open) - 1
      BY <1>0, <2>1, <3>1, OpenChanges DEF OrderStates
    <3>3. QED
      BY <1>1, <2>1, <3>2
  <2>3. CASE orders[o] # "needs_code"
    <3>1. o \notin Open
      BY <1>4, <2>3 DEF Answered, Open
    <3>2. Cardinality(Open') = Cardinality(Open)
      BY <1>0, <2>1, <3>1, OpenChanges DEF OrderStates
    <3>3. Asking' = Asking
      BY <1>0, <1>4, <2>3 DEF Answered, Asking, Dialog
    <3>4. QED
      BY <1>1, <2>1, <3>2, <3>3
  <2>4. QED
    BY <2>2, <2>3
<1>5. ASSUME NEW o \in Orders, AnswerLost(o) PROVE ClicksCoverOrders'
  <2>1. PICK state \in {"idle", "given_up"} :
           orders' = [orders EXCEPT ![o] = state] /\ (state = "given_up" => orders[o] = "admitted")
    BY <1>5 DEF AnswerLost
  <2>2. o \in Open' => o \in Open
    BY <1>0, <2>1 DEF Open
  <2>3. Cardinality(Open') = Cardinality(Open) \/ Cardinality(Open') = Cardinality(Open) - 1
    <3>1. state \in OrderStates
      BY <2>1 DEF OrderStates
    <3>2. QED
      BY <1>0, <2>1, <2>2, <3>1, OpenChanges
  <2>4. Asking' = Asking /\ count' = count
    BY <1>5 DEF AnswerLost, Asking
  <2>5. QED
    BY <1>1, <2>4, <2>3
<1>6. ASSUME NEW o \in Orders, CodeAccepted(o) PROVE ClicksCoverOrders'
  <2>1. PICK state \in {"refused", "admitted", "needs_code"} : orders' = [orders EXCEPT ![o] = state]
    BY <1>6 DEF CodeAccepted, Send
  <2>2. Cardinality(Open') = Cardinality(Open) \/ Cardinality(Open') = Cardinality(Open) + 1
    <3>1. state \in OrderStates
      BY <2>1 DEF OrderStates
    <3>2. o \notin Open
      BY <1>6 DEF CodeAccepted, Send, Open
    <3>3. QED
      BY <1>0, <2>1, <3>1, <3>2, OpenChanges
  <2>3. Asking = 1 /\ Asking' = 0 /\ count' = count
    BY <1>6 DEF CodeAccepted, Asking
  <2>4. QED
    BY <1>1, <2>3, <2>2
<1>7. ASSUME ConfirmCode \/ CheckCode PROVE ClicksCoverOrders'
  <2>1. Open' = Open /\ count' = count
    BY <1>7 DEF ConfirmCode, CheckCode, Open
  <2>2. Asking' <= Asking
    BY <1>0, <1>7 DEF ConfirmCode, CheckCode, Asking, Dialog
  <2>3. QED
    BY <1>1, <2>1, <2>2
<1>8. ASSUME CloseDialog PROVE ClicksCoverOrders'
  <2>1. Open' = Open /\ Asking = 1
    BY <1>8 DEF CloseDialog, Open, Asking
  <2>2. /\ count'.placed = count.placed /\ count'.clicks = count.clicks
        /\ count'.cancelled = count.cancelled + IF dialog.check = "none" THEN 1 ELSE 0
    BY <1>0, <1>8 DEF CloseDialog, Count
  <2>3. dialog.check = "none" => Asking' = 0
    BY <1>0, <1>8 DEF CloseDialog, Asking, Dialog
  <2>4. QED
    BY <1>1, <2>1, <2>2, <2>3
<1>9. QED
  BY <1>2, <1>3, <1>4, <1>5, <1>6, <1>7, <1>8 DEF WithdrawalStep

\* One click, one withdrawal.
THEOREM WithdrawnOnce == Spec => []OneWithdrawalPerClick
<1>1. Init => AccessTypeOK /\ ClicksCoverOrders
  BY AccessTypeInitial, ClicksInitial
<1>2. AccessTypeOK /\ ClicksCoverOrders /\ [Next]_vars => (AccessTypeOK /\ ClicksCoverOrders)'
  BY AccessTypeStep, OtherStepsKeepClicks, WithdrawalKeepsClicks DEF Next
<1>3. AccessTypeOK /\ ClicksCoverOrders => OneWithdrawalPerClick
  <2> SUFFICES ASSUME AccessTypeOK, ClicksCoverOrders PROVE OneWithdrawalPerClick
    OBVIOUS
  <2>1. QED
    BY ClickTypes DEF ClicksCoverOrders, OneWithdrawalPerClick
<1>4. QED
  BY <1>1, <1>2, <1>3, PTL DEF Spec

=============================================================================
