--------------------------- MODULE DashboardProofs ---------------------------
(***************************************************************************)
(* Theorems about Dashboard for every set of users, organizations, pages   *)
(* and followed keys, any memberships, and any number of changes and       *)
(* logins.                                                                 *)
(*                                                                         *)
(* The arguments are about what is on its way as much as about what is     *)
(* shown: an answer that has not landed belongs to a user who may be shown *)
(* it, and has the changes this tab was told of, unless its key was        *)
(* overlooked; and a form that can be saved was filled from the merchant   *)
(* picked since the last version of the rules that it showed.              *)
(***************************************************************************)
EXTENDS Dashboard, TLAPS

-----------------------------------------------------------------------------
(* The inductive invariant *)

Desk == [merchant: Tenants \cup {NoTenant}, form: Tenants \cup {NoTenant}, crossed: BOOLEAN]
Fetch == [by: Users \cup {NoUser}, at: 0..MaxChanges, sent: BOOLEAN]

\* The functions of the state, of which DashboardTypeOK speaks at each key.
TablesOK ==
    /\ cache \in [followed -> Result \cup {Absent}]
    /\ fetch \in [followed -> Fetch]
    /\ orders \in [Orders -> Sent \cup {Idle}]
    /\ version \in [followed -> 0..MaxChanges]
    /\ told \in [followed -> 0..MaxChanges]
    /\ \A k \in followed : told[k] <= version[k] /\ fetch[k].at <= version[k]
    /\ overlooked \subseteq followed

\* The server never takes the tab for another user than the one it shows; a page
\* has a user, the user a tenant of theirs, and the pricing page a merchant.
SessionOK ==
    /\ me \in Users \cup {NoUser} /\ cookie \in {NoUser, me}
    /\ lingering \subseteq Users /\ logins \in 0..MaxLogins
    /\ tenant \in Tenants \cup {NoTenant} /\ page \in Pages \cup {"login"}
    /\ desk \in Desk
    /\ me = NoUser <=> page = "login"
    /\ me # NoUser => tenant \in Memberships[me]
    /\ page = "pricing" => desk.merchant \in Tenants

\* What will land was asked for by a user who is shown, or whose session ended
\* without a logout; so was what has landed.
AuthorsOK ==
    /\ \A k \in followed : fetch[k].sent => fetch[k].by \in lingering \cup {me, NoUser}
    /\ LogoutLeavesNothing

\* What will land has every change this tab was told of, unless it was overlooked.
FreshOK ==
    /\ \A k \in followed : fetch[k].sent => fetch[k].at >= told[k] \/ k \in overlooked
    /\ OwnChangesAreShown

\* While the pricing page shows rules, its form was filled from them, or a late
\* answer is known to have crossed them.
FormOK == Current(desk, cache) # NoVersion => desk.form = desk.merchant \/ desk.crossed

IInv == TablesOK /\ SessionOK /\ AuthorsOK /\ FreshOK /\ FormOK

-----------------------------------------------------------------------------
(* The pages and their orders *)

\* What an order changes, its page invalidates, but for copies kept under other
\* keys; rules of prices are changed by one order of one page.
Declared(p, o, r) ==
    /\ \A w \in r.writes : w \in r.refreshes \/ w \in Copies
    /\ "admin-pricing" \in r.writes => o = "savePricing"
    /\ o = "savePricing" => p = "pricing"

LEMMA OrdersDeclared ==
    ASSUME NEW p, NEW o \in OrdersOn(p)
    PROVE  Declared(p, o, PageOf(p).orders[o])
<1> USE DEF OrdersOn, PageOf, Order, Reader, Declared, Copies
<1>1. CASE p = "home"
  BY <1>1 DEF HomePage
<1>2. CASE p = "accounts"
  BY <1>2 DEF AccountsPage
<1>3. CASE p = "transactions"
  BY <1>3 DEF TransactionsPage
<1>4. CASE p = "customers"
  BY <1>4 DEF CustomersPage
<1>5. CASE p = "webhooks"
  BY <1>5 DEF WebhooksPage
<1>6. CASE p = "connections"
  BY <1>6 DEF ConnectionsPage
<1>7. CASE p = "api-keys"
  BY <1>7 DEF ApiKeysPage
<1>8. CASE p = "organization"
  BY <1>8 DEF OrganizationPage
<1>9. CASE p = "withdrawals"
  BY <1>9 DEF WithdrawalsPage
<1>10. CASE p = "pricing"
  BY <1>10 DEF PlatformPricingPage
<1>11. CASE p = "platform-organizations"
  BY <1>11 DEF PlatformOrganizationsPage
<1>12. CASE p \notin {"home", "accounts", "transactions", "customers", "webhooks", "connections",
                      "api-keys", "organization", "withdrawals", "pricing", "platform-organizations"}
  BY <1>12
<1>13. QED
  BY <1>1, <1>2, <1>3, <1>4, <1>5, <1>6, <1>7, <1>8, <1>9, <1>10, <1>11, <1>12

LEMMA OrderDeclared ==
    ASSUME NEW o \in Orders
    PROVE  /\ \A w \in OrderOf(o).writes : w \in OrderOf(o).refreshes \/ w \in Copies
           /\ \A p : o \in OrdersOn(p) /\ "admin-pricing" \in OrderOf(o).writes => p = "pricing"
<1> DEFINE q == CHOOSE p \in Pages : o \in OrdersOn(p)
<1>1. \E p \in Pages : o \in OrdersOn(p)
  BY DEF Orders
<1>2. q \in Pages /\ o \in OrdersOn(q)
  BY <1>1
<1>3. OrderOf(o) = PageOf(q).orders[o]
  BY DEF OrderOf
<1> HIDE DEF q
<1>4. Declared(q, o, OrderOf(o))
  BY <1>2, <1>3, OrdersDeclared
<1>5. ASSUME NEW p, o \in OrdersOn(p), "admin-pricing" \in OrderOf(o).writes
      PROVE  p = "pricing"
  BY <1>4, <1>5, OrdersDeclared DEF Declared
<1>6. QED
  BY <1>4, <1>5 DEF Declared

LEMMA KeysOfTenant ==
    ASSUME NEW ks, NEW t
    PROVE  /\ KeysOf(ks, t) \subseteq followed
           /\ \A k \in KeysOf(ks, t) : k[1] \in ks /\ k = KeyOf(k[1], t)
           /\ \A w \in ks : KeyOf(w, t) \in followed => KeyOf(w, t) \in KeysOf(ks, t)
           /\ \A s : KeyOf("admin-pricing", s) \in KeysOf(ks, t) => s = t /\ "admin-pricing" \in ks
<1>1. \A w : KeyOf(w, t)[1] = w
  BY DEF KeyOf
<1>2. ASSUME NEW s, KeyOf("admin-pricing", s) \in KeysOf(ks, t)
      PROVE  s = t /\ "admin-pricing" \in ks
  <2>1. PICK w \in ks : <<"admin-pricing", s>> = KeyOf(w, t)
    BY <1>2 DEF KeysOf, KeyOf
  <2>2. w = "admin-pricing"
    BY <1>1, <2>1
  <2>3. KeyOf("admin-pricing", t) = <<"admin-pricing", t>>
    BY DEF KeyOf
  <2>4. QED
    BY <2>1, <2>2, <2>3
<1>3. QED
  BY <1>1, <1>2 DEF KeysOf

-----------------------------------------------------------------------------
(* Fetches, orders and forms *)

FetchOnly(u) ==
    /\ fetch' \in [followed -> Fetch]
    /\ \A k \in followed : fetch'[k] = fetch[k] \/ fetch'[k] = AnswerTo(u, k)

LEMMA AnswerType ==
    ASSUME TablesOK, NEW u \in Users \cup {NoUser}, NEW k \in followed
    PROVE  /\ AnswerTo(u, k) \in Fetch /\ AnswerTo(u, k).by = u
           /\ AnswerTo(u, k).at = version[k] /\ AnswerTo(u, k).sent
           /\ Nothing \in Fetch /\ ~Nothing.sent /\ Nothing.at = 0
BY DashboardAssumption DEF TablesOK, AnswerTo, Fetch, Nothing

LEMMA FetchedOnly ==
    ASSUME TablesOK, NEW u \in Users \cup {NoUser}, NEW ks, FetchAs(u, ks)
    PROVE  FetchOnly(u)
<1>1. PICK recent \in SUBSET {k \in ks : cache[k].state = "good"} :
           fetch' = [k \in followed |-> IF k \in ks \ recent /\ ~fetch[k].sent
                                      THEN AnswerTo(u, k) ELSE fetch[k]]
  BY DEF FetchAs
<1>2. \A k \in followed : fetch[k] \in Fetch /\ AnswerTo(u, k) \in Fetch
  BY AnswerType DEF TablesOK
<1>3. QED
  BY <1>1, <1>2 DEF FetchOnly

LEMMA OrdersType ==
    ASSUME TablesOK
    PROVE  /\ Unmounted \in [Orders -> Sent \cup {Idle}]
           /\ \A t \in Tenants : Rerendered(t) \in [Orders -> Sent \cup {Idle}]
<1> SUFFICES ASSUME NEW o \in Orders
             PROVE  /\ orders[o] # Idle => [orders[o] EXCEPT !.live = FALSE] \in Sent
                    /\ \A t \in Tenants : orders[o] # Idle => [orders[o] EXCEPT !.shown = t] \in Sent
  BY DEF TablesOK, Unmounted, Rerendered
<1>1. orders[o] # Idle => orders[o] \in Sent
  BY DEF TablesOK
<1>2. QED
  BY <1>1 DEF Sent

LEMMA FilledDesk ==
    ASSUME NEW d \in Desk, NEW c, NEW before
    PROVE  LET f == Filled(d, c, before)
           IN  /\ f \in Desk /\ f.merchant = d.merchant
               /\ Current(f, c) = Current(d, c)
               /\ f.form = d.merchant \/ (f = d /\ Current(d, c) \in {before, NoVersion})
<1> DEFINE g == [[d EXCEPT !.form = d.merchant] EXCEPT !.crossed = FALSE]
<1>1. Filled(d, c, before) = IF Current(d, c) \in {before, NoVersion} THEN d ELSE g
  BY DEF Filled
<1>2. g \in Desk /\ g.merchant = d.merchant /\ g.form = d.merchant
  BY DEF Desk
<1> HIDE DEF g
<1>3. Current(g, c) = Current(d, c)
  BY <1>2 DEF Current
<1>4. QED
  BY <1>1, <1>2, <1>3

LEMMA MountedDesk ==
    ASSUME NEW m \in Tenants \cup {NoTenant}
    PROVE  LET d == Filled([NoDesk EXCEPT !.merchant = m], cache, NoVersion)
           IN  d \in Desk /\ d.merchant = m /\ (Current(d, cache) # NoVersion => d.form = m)
<1> DEFINE e == [NoDesk EXCEPT !.merchant = m]
<1>1. e \in Desk /\ e.merchant = m
  BY DEF NoDesk, Desk
<1> DEFINE f == Filled(e, cache, NoVersion)
<1> HIDE DEF e
<1>2. /\ f \in Desk /\ f.merchant = m
      /\ Current(f, cache) = Current(e, cache)
      /\ f.form = m \/ Current(e, cache) = NoVersion
  BY <1>1, FilledDesk
<1>3. QED
  BY <1>2 DEF e

LEMMA Mounted ==
    ASSUME TablesOK, NEW p \in Pages, NEW u \in Users \cup {NoUser}, NEW t, Mount(p, u, t)
    PROVE  /\ page' = p /\ desk' \in Desk /\ FetchOnly(u)
           /\ p = "pricing" => desk'.merchant \in Tenants
           /\ Current(desk', cache) # NoVersion => desk'.form = desk'.merchant
<1>1. PICK m \in IF p = "pricing" THEN Tenants ELSE {NoTenant} :
          /\ desk' = Filled([NoDesk EXCEPT !.merchant = m], cache, NoVersion)
          /\ FetchAs(u, Observed(p, t, m))
  BY DEF Mount
<1>2. desk' \in Desk /\ desk'.merchant = m /\ (Current(desk', cache) # NoVersion => desk'.form = m)
  BY <1>1, MountedDesk
<1>3. FetchOnly(u)
  BY <1>1, FetchedOnly
<1>4. QED
  BY <1>1, <1>2, <1>3 DEF Mount

-----------------------------------------------------------------------------
(* The steps: most of them ask for results, and change nothing that is held *)

Asks(u) ==
    /\ FetchOnly(u)
    /\ UNCHANGED <<cache, version, told, overlooked>>
    /\ lingering \cup {me} \subseteq lingering' \cup {me', NoUser}

\* The disjuncts of Next that are not of that kind.
Moves ==
    \/ Logout
    \/ \E k \in followed : Lands(k) \/ LandsFailed(k)
    \/ \E o \in Orders : Send(o) \/ Answered(o)

Others ==
    \/ \E u \in Users : Login(u)
    \/ SessionEnds \/ Refused \/ Refetch
    \/ \E p \in Pages : OpenPage(p)
    \/ \E t \in Tenants : SelectTenant(t) \/ SelectMerchant(t)
    \/ \E o \in Orders : Unanswered(o)
    \/ UNCHANGED vars

LEMMA Steps ==
    ASSUME [Next]_vars
    PROVE  followed' = followed /\ (Moves \/ Others)
<1>1. CASE Next
  BY <1>1 DEF Next, Moves, Others
<1>2. CASE UNCHANGED vars
  BY <1>2 DEF vars, Others
<1>3. QED
  BY <1>1, <1>2

LEMMA OthersAsk ==
    ASSUME TablesOK, SessionOK, Others
    PROVE  \E u \in {NoUser, me'} : u \in Users \cup {NoUser} /\ Asks(u)
<1>c. cookie \in {NoUser, me} /\ cookie \in Users \cup {NoUser} /\ NoUser \in Users \cup {NoUser}
  BY DEF SessionOK
<1>s. ASSUME NEW u, fetch' = fetch PROVE FetchOnly(u)
  BY <1>s DEF FetchOnly, TablesOK
<1> USE DEF Asks, sessionVars, serverVars
<1>1. ASSUME NEW u \in Users, Login(u) PROVE Asks(u) /\ me' = u
  <2>1. PICK t \in Remembered(u), p \in MayVisit(u) : tenant' = t /\ Mount(p, u, t)
    BY <1>1 DEF Login
  <2>2. p \in Pages /\ u \in Users \cup {NoUser}
    BY DEF MayVisit
  <2>3. FetchOnly(u)
    BY <2>1, <2>2, Mounted
  <2>4. QED
    BY <1>1, <2>3 DEF Login
<1>2. ASSUME NEW p \in Pages, OpenPage(p) PROVE Asks(cookie) /\ me' = me
  <2>1. FetchOnly(cookie)
    BY <1>2, <1>c, Mounted DEF OpenPage
  <2>2. QED
    BY <1>2, <2>1 DEF OpenPage
<1>3. ASSUME NEW t \in Tenants, SelectTenant(t) \/ SelectMerchant(t) PROVE Asks(cookie) /\ me' = me
  <2>1. FetchOnly(cookie)
    BY <1>3, <1>c, FetchedOnly DEF SelectTenant, SelectMerchant
  <2>2. QED
    BY <1>3, <2>1 DEF SelectTenant, SelectMerchant
<1>4. ASSUME Refetch PROVE Asks(cookie) /\ me' = me
  <2>1. FetchOnly(cookie)
    BY <1>4, <1>c, FetchedOnly DEF Refetch
  <2>2. QED
    BY <1>4, <2>1 DEF Refetch
<1>5. ASSUME SessionEnds \/ Refused PROVE Asks(NoUser)
  BY <1>5, <1>s DEF SessionEnds, Refused
<1>6. ASSUME (\E o \in Orders : Unanswered(o)) \/ UNCHANGED vars PROVE Asks(NoUser)
  BY <1>6, <1>s DEF Unanswered, vars
<1>7. QED
  BY <1>c, <1>1, <1>2, <1>3, <1>4, <1>5, <1>6 DEF Others

-----------------------------------------------------------------------------
(* The session *)

LEMMA SessionStep ==
    ASSUME TablesOK, SessionOK, [Next]_vars
    PROVE  SessionOK'
<1>m. \A u \in Users : Memberships[u] \subseteq Tenants /\ u # NoUser
  BY DashboardAssumption
<1>l. "login" \notin Pages /\ NoUser \notin Users
  BY DashboardAssumption
<1>d. NoDesk \in Desk
  BY DEF NoDesk, Desk
<1>p. "pricing" \in PlatformPages /\ "pricing" # "login"
  BY DEF PlatformPages
<1> USE DEF SessionOK, sessionVars
<1>1. ASSUME NEW u \in Users, Login(u) PROVE SessionOK'
  <2>1. PICK t \in Remembered(u), p \in MayVisit(u) : tenant' = t /\ Mount(p, u, t)
    BY <1>1 DEF Login
  <2>2. p \in Pages /\ t \in Memberships[u] /\ t \in Tenants
    BY <1>m, <2>1 DEF MayVisit, Remembered
  <2>3. page' = p /\ desk' \in Desk /\ (p = "pricing" => desk'.merchant \in Tenants)
    BY <2>1, <2>2, Mounted
  <2>4. logins' \in 0..MaxLogins /\ me' = u /\ cookie' = u /\ lingering' = lingering
    BY <1>1, DashboardAssumption DEF Login
  <2>5. QED
    BY <1>m, <1>l, <2>1, <2>2, <2>3, <2>4
<1>2. ASSUME Logout \/ Refused PROVE SessionOK'
  BY <1>2, <1>d, <1>p DEF Logout, Refused, LeavePages
<1>3. ASSUME SessionEnds PROVE SessionOK'
  BY <1>3 DEF SessionEnds
<1>4. ASSUME NEW p \in Pages, OpenPage(p) PROVE SessionOK'
  <2>1. page' = p /\ desk' \in Desk /\ (p = "pricing" => desk'.merchant \in Tenants)
    BY <1>4, Mounted DEF OpenPage
  <2>2. QED
    BY <1>4, <1>l, <2>1 DEF OpenPage
<1>5. ASSUME NEW t \in Tenants, SelectTenant(t) PROVE SessionOK'
  BY <1>5 DEF SelectTenant
<1>6. ASSUME NEW t \in Tenants, SelectMerchant(t) PROVE SessionOK'
  <2> DEFINE e == [desk EXCEPT !.merchant = t]
  <2>1. e \in Desk /\ e.merchant = t
    BY DEF Desk
  <2>2. desk' = Filled(e, cache, Current(desk, cache))
    BY <1>6 DEF SelectMerchant
  <2> HIDE DEF e
  <2>3. desk' \in Desk /\ desk'.merchant = t
    BY <2>1, <2>2, FilledDesk
  <2>4. QED
    BY <1>6, <2>3 DEF SelectMerchant
<1>7. ASSUME Refetch PROVE SessionOK'
  BY <1>7 DEF Refetch
<1>8. ASSUME NEW k \in followed, Lands(k) PROVE SessionOK'
  <2>1. desk' \in Desk /\ desk'.merchant = desk.merchant
    BY <1>8, FilledDesk DEF Lands
  <2>2. QED
    BY <1>8, <2>1 DEF Lands
<1>9. ASSUME NEW k \in followed, LandsFailed(k) PROVE SessionOK'
  BY <1>9 DEF LandsFailed
<1>10. ASSUME NEW o \in Orders, Send(o) PROVE SessionOK'
  BY <1>10 DEF Send
<1>11. ASSUME NEW o \in Orders, Answered(o) PROVE SessionOK'
  <2>1. orders[o] \in Sent
    BY <1>11 DEF Answered, TablesOK
  <2> DEFINE form == orders[o].tenant
             crossed == orders[o].tenant # desk.merchant
  <2>2. form \in Tenants /\ crossed \in BOOLEAN
    BY <2>1 DEF Sent
  <2>3. desk' = desk \/ desk' = [desk EXCEPT !.form = form, !.crossed = crossed]
    BY <1>11 DEF Answered, TakeSaved
  <2> HIDE DEF form, crossed
  <2>4. desk' = desk \/ desk' = [[desk EXCEPT !.form = form] EXCEPT !.crossed = crossed]
    BY <2>3
  <2>5. desk' \in Desk /\ desk'.merchant = desk.merchant
    BY <2>2, <2>4 DEF Desk
  <2>6. QED
    BY <1>11, <2>5 DEF Answered
<1>12. ASSUME NEW o \in Orders, Unanswered(o) PROVE SessionOK'
  BY <1>12 DEF Unanswered
<1>13. ASSUME UNCHANGED vars PROVE SessionOK'
  BY <1>13 DEF vars
<1>14. QED
  BY <1>1, <1>2, <1>3, <1>4, <1>5, <1>6, <1>7, <1>8, <1>9, <1>10, <1>11, <1>12, <1>13, Steps
     DEF Moves, Others

-----------------------------------------------------------------------------
(* What is held, what is on its way, and what the server has *)

Tables(c, f, v, d, ov) ==
    /\ c \in [followed -> Result \cup {Absent}]
    /\ f \in [followed -> Fetch]
    /\ v \in [followed -> 0..MaxChanges] /\ d \in [followed -> 0..MaxChanges]
    /\ \A k \in followed : d[k] <= v[k] /\ f[k].at <= v[k]
    /\ ov \subseteq followed

LEMMA ResultType ==
    ASSUME TablesOK, NEW k \in followed
    PROVE  /\ Held(k) => /\ cache[k] \in Result /\ cache[k].by \in Users
                         /\ \A s \in {"good", "invalid", "failed"} :
                               LET c == [cache[k] EXCEPT !.state = s]
                               IN  c \in Result /\ c.state = s /\ c.at = cache[k].at /\ c.by = cache[k].by
           /\ cache[k].state = "good" => Held(k)
           /\ \A r \in Result : r # Absent
<1>1. cache[k] \in Result \cup {Absent}
  BY DEF TablesOK
<1>2. \A r \in Result : r.state # "absent"
  BY DEF Result
<1>3. Held(k) => cache[k] \in Result
  BY <1>1 DEF Held
<1>4. \A r \in Result, s \in {"good", "invalid", "failed"} :
          LET c == [r EXCEPT !.state = s]
          IN  c \in Result /\ c.state = s /\ c.at = r.at /\ c.by = r.by
  BY DEF Result
<1>5. QED
  BY <1>1, <1>2, <1>3, <1>4 DEF Held, Absent, Result

\* The order that is sent is for a tenant, that of the page, which it raises the
\* versions of.
LEMMA SendShape ==
    ASSUME TablesOK, SessionOK, NEW o \in Orders, Send(o)
    PROVE  \E t \in Tenants :
              /\ t = IF page = "pricing" THEN desk.merchant ELSE tenant
              /\ orders' = [orders EXCEPT ![o] = [pc |-> "sent", tenant |-> t, shown |-> t, live |-> TRUE]]
              /\ version' = [k \in followed |-> IF k \in KeysOf(OrderOf(o).writes, t)
                                              THEN version[k] + 1 ELSE version[k]]
              /\ \A k \in KeysOf(OrderOf(o).writes, t) : version[k] < MaxChanges
<1> DEFINE t == IF page = "pricing" THEN desk.merchant ELSE tenant
<1>1. me # NoUser /\ me \in Users
  BY DEF Send, SessionOK
<1>2. t \in Tenants
  BY <1>1, DashboardAssumption DEF SessionOK
<1>3. QED
  BY <1>2 DEF Send

LEMMA TablesStep ==
    ASSUME TablesOK, SessionOK, [Next]_vars
    PROVE  Tables(cache', fetch', version', told', overlooked')
<1>t. Tables(cache, fetch, version, told, overlooked)
  BY DEF TablesOK, Tables
<1>v. \A k \in followed : version[k] \in Nat /\ told[k] \in Nat /\ fetch[k].at \in Nat /\ version[k] <= MaxChanges
  BY DashboardAssumption DEF TablesOK, Fetch
<1>a. \A u \in Users \cup {NoUser}, k \in followed :
          /\ AnswerTo(u, k) \in Fetch /\ AnswerTo(u, k).at = version[k]
          /\ Nothing \in Fetch /\ Nothing.at = 0
  BY AnswerType
<1>1. ASSUME Others PROVE Tables(cache', fetch', version', told', overlooked')
  <2>1. PICK u \in {NoUser, me'} : u \in Users \cup {NoUser} /\ Asks(u)
    BY <1>1, OthersAsk
  <2>2. /\ fetch' \in [followed -> Fetch]
        /\ \A k \in followed : fetch'[k] = fetch[k] \/ fetch'[k].at = version[k]
    BY <1>a, <2>1 DEF Asks, FetchOnly
  <2>3. cache' = cache /\ version' = version /\ told' = told /\ overlooked' = overlooked
    BY <2>1 DEF Asks
  <2>4. \A k \in followed : fetch'[k].at <= version[k]
    BY <1>t, <1>v, <2>2 DEF Tables
  <2>5. QED
    BY <1>t, <2>2, <2>3, <2>4 DEF Tables
<1>2. ASSUME Logout PROVE Tables(cache', fetch', version', told', overlooked')
  <2>1. \A k \in followed : Nothing \in Fetch /\ Nothing.at = 0
    BY AnswerType
  <2>2. QED
    BY <1>2, <1>t, <1>v, <2>1 DEF Logout, serverVars, Tables
<1>3. ASSUME NEW k \in followed, Lands(k) PROVE Tables(cache', fetch', version', told', overlooked')
  <2>1. fetch[k] \in Fetch /\ fetch[k].by # NoUser
    BY <1>3 DEF Lands, TablesOK
  <2>2. [state |-> "good", at |-> fetch[k].at, by |-> fetch[k].by] \in Result
    BY <2>1 DEF Result, Fetch
  <2>3. Nothing \in Fetch /\ Nothing.at = 0
    BY AnswerType
  <2>4. cache' \in [followed -> Result \cup {Absent}] /\ fetch' \in [followed -> Fetch]
    BY <1>3, <1>t, <2>2, <2>3 DEF Lands, Tables
  <2>5. \A j \in followed : fetch'[j].at <= version[j]
    BY <1>3, <1>t, <1>v, <2>3 DEF Lands, Tables
  <2>6. overlooked' \subseteq followed
    BY <1>3, <1>t DEF Lands, Tables
  <2>7. QED
    BY <1>3, <1>t, <2>4, <2>5, <2>6 DEF Lands, Tables
<1>4. ASSUME NEW k \in followed, LandsFailed(k) PROVE Tables(cache', fetch', version', told', overlooked')
  <2>1. Nothing \in Fetch /\ Nothing.at = 0
    BY AnswerType
  <2>2. Held(k) => [cache[k] EXCEPT !.state = "failed"] \in Result
    BY ResultType
  <2>3. cache' \in [followed -> Result \cup {Absent}] /\ fetch' \in [followed -> Fetch]
    BY <1>4, <1>t, <2>1, <2>2 DEF LandsFailed, Tables
  <2>4. \A j \in followed : fetch'[j].at <= version[j]
    BY <1>4, <1>t, <1>v, <2>1 DEF LandsFailed, Tables
  <2>5. QED
    BY <1>4, <1>t, <2>3, <2>4 DEF LandsFailed, serverVars, Tables
<1>5. ASSUME NEW o \in Orders, Send(o) PROVE Tables(cache', fetch', version', told', overlooked')
  <2>1. PICK t \in Tenants :
            /\ version' = [k \in followed |-> IF k \in KeysOf(OrderOf(o).writes, t)
                                            THEN version[k] + 1 ELSE version[k]]
            /\ \A k \in KeysOf(OrderOf(o).writes, t) : version[k] < MaxChanges
    BY <1>5, SendShape
  <2>2. \A k \in followed : version'[k] \in 0..MaxChanges /\ version[k] <= version'[k]
    BY <1>v, <2>1, DashboardAssumption
  <2>3. version' \in [followed -> 0..MaxChanges]
    BY <2>1, <2>2
  <2>4. \A k \in followed : told[k] <= version'[k] /\ fetch[k].at <= version'[k]
    BY <1>t, <1>v, <2>2 DEF Tables
  <2>5. QED
    BY <1>5, <1>t, <2>3, <2>4 DEF Send, Tables
<1>6. ASSUME NEW o \in Orders, Answered(o) PROVE Tables(cache', fetch', version', told', overlooked')
  <2>1. cookie \in Users \cup {NoUser}
    BY DEF SessionOK
  <2>2. /\ fetch' \in [followed -> Fetch]
        /\ \A k \in followed : fetch'[k].at <= version[k]
    BY <1>6, <1>t, <1>v, <1>a, <2>1 DEF Answered, Tables
  <2>3. \A k \in followed : cache[k].state = "good" => [cache[k] EXCEPT !.state = "invalid"] \in Result
    BY ResultType
  <2>4. cache' \in [followed -> Result \cup {Absent}]
    BY <1>6, <1>t, <2>3 DEF Answered, Tables
  <2>5. /\ told' \in [followed -> 0..MaxChanges]
        /\ \A k \in followed : told'[k] <= version[k]
    BY <1>6, <1>t, <1>v DEF Answered, Tables
  <2>6. overlooked' \subseteq followed
    BY <1>6, <1>t, KeysOfTenant DEF Answered, Tables
  <2>7. QED
    BY <1>6, <1>t, <2>2, <2>4, <2>5, <2>6 DEF Answered, Tables
<1>7. QED
  BY <1>1, <1>2, <1>3, <1>4, <1>5, <1>6, Steps DEF Moves

LEMMA OrdersStep ==
    ASSUME TablesOK, SessionOK, [Next]_vars
    PROVE  orders' \in [Orders -> Sent \cup {Idle}]
<1>1. \A o \in Orders : Send(o) => orders' \in [Orders -> Sent \cup {Idle}]
  <2> SUFFICES ASSUME NEW o \in Orders, Send(o) PROVE orders' \in [Orders -> Sent \cup {Idle}]
    OBVIOUS
  <2>1. PICK t \in Tenants :
            orders' = [orders EXCEPT ![o] = [pc |-> "sent", tenant |-> t, shown |-> t, live |-> TRUE]]
    BY SendShape
  <2>2. [pc |-> "sent", tenant |-> t, shown |-> t, live |-> TRUE] \in Sent
    BY DEF Sent
  <2>3. QED
    BY <2>1, <2>2 DEF TablesOK
<1>2. \A o \in Orders : Answered(o) \/ Unanswered(o) => orders' \in [Orders -> Sent \cup {Idle}]
  BY DEF Answered, Unanswered, TablesOK
<1>3. Logout \/ Refused \/ (\E p \in Pages : OpenPage(p)) => orders' \in [Orders -> Sent \cup {Idle}]
  BY OrdersType DEF Logout, Refused, OpenPage, LeavePages
<1>4. \A t \in Tenants : SelectTenant(t) \/ SelectMerchant(t) => orders' \in [Orders -> Sent \cup {Idle}]
  BY OrdersType DEF SelectTenant, SelectMerchant
<1>5. \/ \E u \in Users : Login(u)
      \/ SessionEnds \/ Refetch \/ UNCHANGED vars
      \/ \E k \in followed : Lands(k) \/ LandsFailed(k)
      => orders' = orders
  BY DEF Login, SessionEnds, Refetch, vars, Lands, LandsFailed
<1>6. orders \in [Orders -> Sent \cup {Idle}]
  BY DEF TablesOK
<1>7. QED
  BY <1>1, <1>2, <1>3, <1>4, <1>5, <1>6, Steps DEF Moves, Others

LEMMA TablesKept ==
    ASSUME TablesOK, SessionOK, [Next]_vars
    PROVE  TablesOK'
<1>1. followed' = followed
  BY Steps
<1>2. Orders' = Orders /\ Sent' = Sent /\ Fetch' = Fetch
  OBVIOUS
<1>3. QED
  BY <1>1, <1>2, TablesStep, OrdersStep DEF Tables, TablesOK

-----------------------------------------------------------------------------
(* Whose results they are *)

\* An answer that lands for the user it was sent for is held as theirs.
Heard(c, f, l, u) ==
    /\ \A k \in followed : f[k].sent => f[k].by \in l \cup {u, NoUser}
    /\ \A k \in followed : c[k] # Absent => c[k].by \in l \cup {u}

LEMMA AuthorsStep ==
    ASSUME TablesOK, SessionOK, AuthorsOK, [Next]_vars
    PROVE  AuthorsOK'
<1> SUFFICES Heard(cache', fetch', lingering', me')
  BY Steps DEF AuthorsOK, LogoutLeavesNothing, Held, Heard
<1>h. Heard(cache, fetch, lingering, me)
  BY DEF AuthorsOK, LogoutLeavesNothing, Held, Heard
<1>n. NoUser \notin Users
  BY DashboardAssumption
<1>c. cookie \in {NoUser, me} /\ cookie \in Users \cup {NoUser}
  BY DEF SessionOK
<1>a. \A u \in Users \cup {NoUser}, k \in followed : AnswerTo(u, k).by = u /\ ~Nothing.sent
  BY AnswerType
<1>r. \A k \in followed : cache[k] # Absent => cache[k].by \in Users
  BY ResultType DEF Held
<1>1. ASSUME Others PROVE Heard(cache', fetch', lingering', me')
  <2>1. PICK u \in {NoUser, me'} : u \in Users \cup {NoUser} /\ Asks(u)
    BY <1>1, OthersAsk
  <2>2. lingering \cup {me} \subseteq lingering' \cup {me', NoUser} /\ cache' = cache
    BY <2>1 DEF Asks
  <2>3. \A k \in followed : fetch'[k] = fetch[k] \/ fetch'[k].by = u
    BY <1>a, <2>1 DEF Asks, FetchOnly
  <2>4. QED
    BY <1>h, <1>n, <1>r, <2>1, <2>2, <2>3 DEF Heard
<1>2. ASSUME Logout PROVE Heard(cache', fetch', lingering', me')
  BY <1>2, <1>a DEF Logout, Heard
<1>3. ASSUME NEW k \in followed, Lands(k) PROVE Heard(cache', fetch', lingering', me')
  <2> DEFINE r == [state |-> "good", at |-> fetch[k].at, by |-> fetch[k].by]
  <2>1. r.by = fetch[k].by
    OBVIOUS
  <2>2. cache' = [cache EXCEPT ![k] = r] /\ fetch' = [fetch EXCEPT ![k] = Nothing]
    BY <1>3 DEF Lands
  <2> HIDE DEF r
  <2>3. lingering' = lingering /\ me' = me /\ fetch[k].sent /\ fetch[k].by # NoUser
    BY <1>3 DEF Lands, sessionVars
  <2>4. QED
    BY <1>h, <1>a, <2>1, <2>2, <2>3 DEF Heard, TablesOK
<1>4. ASSUME NEW k \in followed, LandsFailed(k) PROVE Heard(cache', fetch', lingering', me')
  <2>1. cache[k] # Absent => [cache[k] EXCEPT !.state = "failed"].by = cache[k].by
    BY ResultType DEF Held
  <2>2. \A j \in followed : cache'[j] = cache[j] \/ (cache[j] # Absent /\ cache'[j].by = cache[j].by)
    BY <1>4, <2>1 DEF LandsFailed, Held, TablesOK
  <2>3. \A j \in followed : fetch'[j] = fetch[j] \/ ~fetch'[j].sent
    BY <1>4, <1>a DEF LandsFailed, TablesOK
  <2>4. lingering' = lingering /\ me' = me
    BY <1>4 DEF LandsFailed, sessionVars
  <2>5. QED
    BY <1>h, <2>2, <2>3, <2>4 DEF Heard
<1>5. ASSUME NEW o \in Orders, Send(o) PROVE Heard(cache', fetch', lingering', me')
  BY <1>5, <1>h DEF Send, sessionVars, Heard
<1>6. ASSUME NEW o \in Orders, Answered(o) PROVE Heard(cache', fetch', lingering', me')
  <2>1. \A k \in followed : cache[k].state = "good" =>
            cache[k] # Absent /\ [cache[k] EXCEPT !.state = "invalid"].by = cache[k].by
    BY ResultType DEF Held
  <2>2. \A j \in followed : cache'[j] = cache[j] \/ (cache[j] # Absent /\ cache'[j].by = cache[j].by)
    BY <1>6, <2>1 DEF Answered
  <2>3. \A j \in followed : fetch'[j] = fetch[j] \/ fetch'[j].by = cookie
    BY <1>6, <1>a, <1>c DEF Answered
  <2>4. lingering' = lingering /\ me' = me
    BY <1>6 DEF Answered, sessionVars
  <2>5. QED
    BY <1>h, <1>c, <2>2, <2>3, <2>4 DEF Heard
<1>7. QED
  BY <1>1, <1>2, <1>3, <1>4, <1>5, <1>6, Steps DEF Moves

-----------------------------------------------------------------------------
(* What results know of the changes this tab was told of *)

\* FreshOK of one key.
Knows(at, d, k, ov) == at >= d \/ k \in ov

Fresh(c, f, d, ov) ==
    \A k \in followed : /\ f[k].sent => Knows(f[k].at, d[k], k, ov)
                        /\ c[k].state = "good" => Knows(c[k].at, d[k], k, ov)

LEMMA FreshStep ==
    ASSUME TablesOK, SessionOK, FreshOK, [Next]_vars
    PROVE  FreshOK'
<1> SUFFICES Fresh(cache', fetch', told', overlooked')
  BY Steps DEF FreshOK, OwnChangesAreShown, Fresh, Knows
<1>f. Fresh(cache, fetch, told, overlooked)
  BY DEF FreshOK, OwnChangesAreShown, Fresh, Knows
<1>v. \A k \in followed : /\ version[k] \in Nat /\ told[k] \in Nat /\ told[k] <= version[k]
                          /\ fetch[k].at \in Nat
  BY DashboardAssumption DEF TablesOK, Fetch
<1>a. \A u \in Users \cup {NoUser}, k \in followed : AnswerTo(u, k).at = version[k] /\ ~Nothing.sent
  BY AnswerType
<1>c. cookie \in Users \cup {NoUser}
  BY DEF SessionOK
<1>1. ASSUME Others PROVE Fresh(cache', fetch', told', overlooked')
  <2>1. PICK u \in {NoUser, me'} : u \in Users \cup {NoUser} /\ Asks(u)
    BY <1>1, OthersAsk
  <2>2. cache' = cache /\ told' = told /\ overlooked' = overlooked
    BY <2>1 DEF Asks
  <2>3. \A k \in followed : fetch'[k] = fetch[k] \/ fetch'[k].at = version[k]
    BY <1>a, <2>1 DEF Asks, FetchOnly
  <2>4. QED
    BY <1>f, <1>v, <2>2, <2>3 DEF Fresh, Knows
<1>2. ASSUME Logout PROVE Fresh(cache', fetch', told', overlooked')
  <2>1. Absent.state # "good"
    BY DEF Absent
  <2>2. QED
    BY <1>2, <1>a, <2>1 DEF Logout, Fresh
<1>3. ASSUME NEW k \in followed, Lands(k) PROVE Fresh(cache', fetch', told', overlooked')
  <2> DEFINE r == [state |-> "good", at |-> fetch[k].at, by |-> fetch[k].by]
  <2>1. r.at = fetch[k].at
    OBVIOUS
  <2>2. cache' = [cache EXCEPT ![k] = r] /\ fetch' = [fetch EXCEPT ![k] = Nothing]
    BY <1>3 DEF Lands
  <2> HIDE DEF r
  <2>3. /\ fetch[k].sent /\ told' = told
        /\ overlooked' = IF fetch[k].at < told[k] THEN overlooked ELSE overlooked \ {k}
    BY <1>3 DEF Lands
  <2>4. /\ cache'[k].at = fetch[k].at /\ ~fetch'[k].sent
        /\ \A j \in followed \ {k} : cache'[j] = cache[j] /\ fetch'[j] = fetch[j]
    BY <1>a, <2>1, <2>2 DEF TablesOK
  <2>5. \A j \in followed \ {k} : j \in overlooked <=> j \in overlooked'
    BY <2>3
  <2>6. Knows(fetch[k].at, told[k], k, overlooked')
    BY <1>f, <1>v, <2>3 DEF Fresh, Knows
  <2>7. QED
    BY <1>f, <2>3, <2>4, <2>5, <2>6 DEF Fresh, Knows
<1>4. ASSUME NEW k \in followed, LandsFailed(k) PROVE Fresh(cache', fetch', told', overlooked')
  <2>1. cache[k] # Absent => [cache[k] EXCEPT !.state = "failed"].state = "failed"
    BY ResultType DEF Held
  <2>2. \A j \in followed : cache'[j] = cache[j] \/ cache'[j].state = "failed"
    BY <1>4, <2>1 DEF LandsFailed, Held, TablesOK
  <2>3. \A j \in followed : fetch'[j] = fetch[j] \/ ~fetch'[j].sent
    BY <1>4, <1>a DEF LandsFailed, TablesOK
  <2>4. told' = told /\ overlooked' = overlooked
    BY <1>4 DEF LandsFailed, serverVars
  <2>5. QED
    BY <1>f, <2>2, <2>3, <2>4 DEF Fresh
<1>5. ASSUME NEW o \in Orders, Send(o) PROVE Fresh(cache', fetch', told', overlooked')
  BY <1>5, <1>f DEF Send, Fresh
<1>6. ASSUME NEW o \in Orders, Answered(o) PROVE Fresh(cache', fetch', told', overlooked')
  <2> DEFINE refreshed == KeysOf(OrderOf(o).refreshes, orders[o].shown)
             changed == KeysOf(OrderOf(o).writes, orders[o].tenant)
             missed(k) == \/ k[1] \in Copies
                          \/ orders[o].shown # orders[o].tenant
                          \/ fetch[k].sent /\ ~(k \in OnScreen /\ Held(k))
  <2>1. /\ cache' = [k \in followed |-> IF k \in refreshed /\ cache[k].state = "good"
                                      THEN [cache[k] EXCEPT !.state = "invalid"] ELSE cache[k]]
        /\ fetch' = [k \in followed |->
                       IF k \in refreshed \cap OnScreen /\ (Held(k) \/ ~fetch[k].sent)
                       THEN AnswerTo(cookie, k) ELSE fetch[k]]
        /\ told' = [k \in followed |-> IF k \in changed THEN version[k] ELSE told[k]]
        /\ overlooked' = (overlooked \ changed) \cup {k \in changed : missed(k)}
    BY <1>6 DEF Answered
  <2>2. \A k \in changed : k \in refreshed \/ missed(k)
    BY OrderDeclared, KeysOfTenant
  <2>3. \A k \in followed : cache[k].state = "good" => [cache[k] EXCEPT !.state = "invalid"].state = "invalid"
    BY ResultType
  <2>4. \A k \in changed : fetch[k].sent /\ ~missed(k) => k \in OnScreen /\ Held(k)
    OBVIOUS
  <2> HIDE DEF refreshed, changed, missed
  <2>5. ASSUME NEW k \in followed, k \notin changed
        PROVE  /\ fetch'[k].sent => Knows(fetch'[k].at, told'[k], k, overlooked')
               /\ cache'[k].state = "good" => Knows(cache'[k].at, told'[k], k, overlooked')
    <3>1. told'[k] = told[k] /\ (k \in overlooked <=> k \in overlooked')
      BY <2>1, <2>5
    <3>2. fetch'[k] = fetch[k] \/ fetch'[k].at = version[k]
      BY <1>a, <1>c, <2>1
    <3>3. cache'[k] = cache[k] \/ cache'[k].state = "invalid"
      BY <2>1, <2>3
    <3>4. QED
      BY <1>f, <1>v, <3>1, <3>2, <3>3 DEF Fresh, Knows
  <2>6. ASSUME NEW k \in followed, k \in changed, ~missed(k)
        PROVE  /\ fetch'[k].sent => fetch'[k].at = version[k]
               /\ cache'[k].state # "good"
    <3>1. k \in refreshed /\ (fetch[k].sent => k \in OnScreen /\ Held(k))
      BY <2>2, <2>4, <2>6
    <3>2. cache'[k].state # "good"
      BY <2>1, <2>3, <3>1
    <3>3. fetch'[k].sent => fetch'[k].at = version[k]
      BY <1>a, <1>c, <2>1, <3>1
    <3>4. QED
      BY <3>2, <3>3
  <2>7. ASSUME NEW k \in followed, k \in changed
        PROVE  /\ fetch'[k].sent => Knows(fetch'[k].at, told'[k], k, overlooked')
               /\ cache'[k].state = "good" => Knows(cache'[k].at, told'[k], k, overlooked')
    <3>1. told'[k] = version[k] /\ (missed(k) => k \in overlooked')
      BY <2>1, <2>7
    <3>2. QED
      BY <1>v, <2>6, <2>7, <3>1 DEF Knows
  <2>8. QED
    BY <2>5, <2>7 DEF Fresh
<1>7. QED
  BY <1>1, <1>2, <1>3, <1>4, <1>5, <1>6, Steps DEF Moves

-----------------------------------------------------------------------------
(* The pricing form *)

FormFits(d, c) == Current(d, c) # NoVersion => d.form = d.merchant \/ d.crossed

LEMMA CurrentMerchant ==
    ASSUME NEW d, NEW c, Current(d, c) # NoVersion
    PROVE  Current(d, c)[1] = d.merchant
BY DEF Current

LEMMA SameVersion ==
    ASSUME NEW d, NEW b, NEW c,
           \A k \in followed : b[k] = c[k] \/ (b[k] # Absent /\ c[k] # Absent /\ b[k].at = c[k].at)
    PROVE  Current(d, b) = Current(d, c)
BY DEF Current

LEMMA FormStep ==
    ASSUME TablesOK, SessionOK, FormOK, [Next]_vars
    PROVE  FormOK'
<1> SUFFICES FormFits(desk', cache')
  BY Steps DEF FormOK, FormFits, Current, KeyOf, NoVersion, Absent
<1>f. FormFits(desk, cache) /\ desk \in Desk
  BY DEF FormOK, FormFits, SessionOK
<1>1. ASSUME NEW u \in Users, Login(u) PROVE FormFits(desk', cache')
  <2>1. PICK t \in Remembered(u), p \in MayVisit(u) : tenant' = t /\ Mount(p, u, t)
    BY <1>1 DEF Login
  <2>2. p \in Pages /\ u \in Users \cup {NoUser}
    BY DEF MayVisit
  <2>3. Current(desk', cache) # NoVersion => desk'.form = desk'.merchant
    BY <2>1, <2>2, Mounted
  <2>4. QED
    BY <1>1, <2>3 DEF Login, FormFits
<1>2. ASSUME NEW p \in Pages, OpenPage(p) PROVE FormFits(desk', cache')
  <2>1. cookie \in Users \cup {NoUser}
    BY DEF SessionOK
  <2>2. Current(desk', cache) # NoVersion => desk'.form = desk'.merchant
    BY <1>2, <2>1, Mounted DEF OpenPage
  <2>3. QED
    BY <1>2, <2>2 DEF OpenPage, FormFits
<1>3. ASSUME Logout \/ Refused PROVE FormFits(desk', cache')
  BY <1>3 DEF Logout, Refused, LeavePages, NoDesk, FormFits
<1>4. ASSUME NEW t \in Tenants, SelectMerchant(t) PROVE FormFits(desk', cache')
  <2> DEFINE e == [desk EXCEPT !.merchant = t]
  <2>1. e \in Desk /\ e.merchant = t
    BY <1>f DEF Desk
  <2>2. desk' = Filled(e, cache, Current(desk, cache)) /\ cache' = cache /\ t # desk.merchant
    BY <1>4 DEF SelectMerchant
  <2> HIDE DEF e
  <2>3. /\ desk'.merchant = t /\ Current(desk', cache) = Current(e, cache)
        /\ desk'.form = t \/ Current(e, cache) \in {Current(desk, cache), NoVersion}
    BY <2>1, <2>2, FilledDesk
  <2>4. Current(e, cache) = Current(desk, cache) => Current(e, cache) = NoVersion
    BY <2>1, <2>2, CurrentMerchant
  <2>5. QED
    BY <2>2, <2>3, <2>4 DEF FormFits
<1>5. ASSUME NEW k \in followed, Lands(k) PROVE FormFits(desk', cache')
  <2> DEFINE before == Current(desk, cache)
  <2>1. desk' = Filled(desk, cache', before)
    BY <1>5 DEF Lands
  <2> HIDE DEF before
  <2>2. /\ desk'.merchant = desk.merchant /\ Current(desk', cache') = Current(desk, cache')
        /\ \/ desk'.form = desk.merchant
           \/ desk' = desk /\ Current(desk, cache') \in {before, NoVersion}
    BY <1>f, <2>1, FilledDesk
  <2>3. QED
    BY <1>f, <2>2 DEF FormFits, before
<1>6. ASSUME NEW k \in followed, LandsFailed(k) PROVE FormFits(desk', cache')
  <2>1. cache[k] # Absent => LET c == [cache[k] EXCEPT !.state = "failed"]
                             IN  c \in Result /\ c.at = cache[k].at /\ c # Absent
    BY ResultType DEF Held
  <2>2. \A j \in followed : \/ cache'[j] = cache[j]
                            \/ cache'[j] # Absent /\ cache[j] # Absent /\ cache'[j].at = cache[j].at
    BY <1>6, <2>1 DEF LandsFailed, Held, TablesOK
  <2>3. Current(desk, cache') = Current(desk, cache)
    BY <2>2, SameVersion
  <2>4. QED
    BY <1>6, <1>f, <2>3 DEF LandsFailed, FormFits
<1>7. ASSUME NEW o \in Orders, Answered(o) PROVE FormFits(desk', cache')
  <2>1. \A k \in followed : cache[k].state = "good" =>
            LET c == [cache[k] EXCEPT !.state = "invalid"]
            IN  c \in Result /\ c.at = cache[k].at /\ c # Absent /\ cache[k] # Absent
    BY ResultType DEF Held
  <2>2. \A j \in followed : \/ cache'[j] = cache[j]
                            \/ cache'[j] # Absent /\ cache[j] # Absent /\ cache'[j].at = cache[j].at
    BY <1>7, <2>1 DEF Answered
  <2>3. Current(desk, cache') = Current(desk, cache)
    BY <2>2, SameVersion
  <2> DEFINE form == orders[o].tenant
             crossed == orders[o].tenant # desk.merchant
  <2>4. desk' = desk \/ desk' = [desk EXCEPT !.form = form, !.crossed = crossed]
    BY <1>7 DEF Answered, TakeSaved
  <2>5. crossed <=> form # desk.merchant
    OBVIOUS
  <2> HIDE DEF form, crossed
  <2>6. desk' = desk \/ desk' = [[desk EXCEPT !.form = form] EXCEPT !.crossed = crossed]
    BY <2>4
  <2>7. desk' = desk \/ (desk'.merchant = desk.merchant /\ desk'.form = form /\ desk'.crossed = crossed)
    BY <1>f, <2>6 DEF Desk
  <2>8. QED
    BY <1>f, <2>3, <2>5, <2>7 DEF FormFits
<1>8. ASSUME \/ SessionEnds \/ Refetch \/ UNCHANGED vars
             \/ \E t \in Tenants : SelectTenant(t)
             \/ \E o \in Orders : Send(o) \/ Unanswered(o)
      PROVE  FormFits(desk', cache')
  BY <1>8, <1>f DEF SessionEnds, Refetch, vars, SelectTenant, Send, Unanswered
<1>9. QED
  BY <1>1, <1>2, <1>3, <1>4, <1>5, <1>6, <1>7, <1>8, Steps DEF Moves, Others

-----------------------------------------------------------------------------
(* Theorems *)

LEMMA Inductive == Spec => []IInv
<1>1. Init => IInv
  <2> SUFFICES ASSUME Init PROVE IInv
    OBVIOUS
  <2> USE DEF Init
  <2>1. Nothing \in Fetch /\ ~Nothing.sent /\ Nothing.at = 0 /\ 0 \in 0..MaxChanges
    BY DashboardAssumption DEF Nothing, Fetch
  <2>2. TablesOK
    BY <2>1 DEF TablesOK
  <2>3. desk \in Desk /\ "pricing" # "login" /\ 0 \in 0..MaxLogins
    BY DashboardAssumption DEF Desk, NoDesk
  <2>4. SessionOK
    BY <2>3, DashboardAssumption DEF SessionOK
  <2>5. AuthorsOK /\ FreshOK
    BY <2>1 DEF AuthorsOK, FreshOK, LogoutLeavesNothing, OwnChangesAreShown, Held, Absent
  <2>6. FormOK
    BY DEF FormOK, NoDesk
  <2>7. QED
    BY <2>2, <2>4, <2>5, <2>6 DEF IInv
<1>2. IInv /\ [Next]_vars => IInv'
  BY TablesKept, SessionStep, AuthorsStep, FreshStep, FormStep DEF IInv
<1>3. QED
  BY <1>1, <1>2, PTL DEF Spec

\* The user that the application shows has the organization it shows, remembered
\* or not, and no page is mounted without one (session.tsx).
THEOREM DashboardTypeCorrect == Spec => []DashboardTypeOK
<1>1. IInv => DashboardTypeOK
  <2> SUFFICES ASSUME IInv PROVE DashboardTypeOK
    OBVIOUS
  <2>1. TablesOK /\ SessionOK
    BY DEF IInv
  <2>2. \A k \in followed : /\ cache[k] \in Result \cup {Absent}
                            /\ fetch[k].by \in Users \cup {NoUser} /\ fetch[k].at <= version[k]
                            /\ told[k] <= version[k] /\ version[k] <= MaxChanges
    BY <2>1, DashboardAssumption DEF TablesOK, Fetch
  <2>3. QED
    BY <2>1, <2>2 DEF DashboardTypeOK, TablesOK, SessionOK, Desk
<1>2. QED
  BY <1>1, Inductive, PTL

\* After a logout nothing that was asked for before it is held, whatever was on its
\* way, unless the session ended otherwise (session.tsx, logout).
THEOREM NothingLeft == Spec => []LogoutLeavesNothing
<1>1. IInv => LogoutLeavesNothing
  BY DEF IInv, AuthorsOK
<1>2. QED
  BY <1>1, Inductive, PTL

\* A result that counts as current has every change that this tab was told of, on
\* every page, but for copies and for fetches that were left to land (onSuccess).
THEOREM OwnChanges == Spec => []OwnChangesAreShown
<1>1. IInv => OwnChangesAreShown
  BY DEF IInv, FreshOK
<1>2. QED
  BY <1>1, Inductive, PTL

\* The rules that are saved were typed over those of the merchant they are saved
\* for, unless an answer is known to have crossed (PlatformPricingPage.tsx).
THEOREM RulesOfTheirMerchant == Spec => RulesComeFromTheirMerchant
<1>1. IInv /\ [Next]_vars =>
          [\A t \in Tenants :
              LET k == KeyOf("admin-pricing", t)
              IN k \in followed /\ version'[k] # version[k] => desk.form = t \/ desk.crossed]_vars
  <2> SUFFICES ASSUME IInv, [Next]_vars, NEW t \in Tenants, KeyOf("admin-pricing", t) \in followed,
                      version'[KeyOf("admin-pricing", t)] # version[KeyOf("admin-pricing", t)]
               PROVE  desk.form = t \/ desk.crossed
    OBVIOUS
  <2> DEFINE k == KeyOf("admin-pricing", t)
  <2>1. TablesOK /\ SessionOK /\ FormOK
    BY DEF IInv
  <2>2. ~Others
    BY <2>1, OthersAsk DEF Asks
  <2>3. PICK o \in Orders : Send(o)
    BY <2>2, Steps DEF Moves, Logout, Lands, LandsFailed, Answered, serverVars
  <2>4. PICK s \in Tenants :
            /\ s = IF page = "pricing" THEN desk.merchant ELSE tenant
            /\ version' = [j \in followed |-> IF j \in KeysOf(OrderOf(o).writes, s)
                                            THEN version[j] + 1 ELSE version[j]]
    BY <2>1, <2>3, SendShape
  <2>5. k \in KeysOf(OrderOf(o).writes, s)
    BY <2>4
  <2>6. t = s /\ "admin-pricing" \in OrderOf(o).writes
    BY <2>5, KeysOfTenant
  <2>7. page = "pricing"
    BY <2>3, <2>6, OrderDeclared DEF Send
  <2>8. Current(desk, cache) # NoVersion
    BY <2>3, <2>7 DEF Send, FormOn
  <2>9. QED
    BY <2>1, <2>4, <2>6, <2>7, <2>8 DEF FormOK
<1>2. QED
  BY <1>1, Inductive, PTL DEF Spec, RulesComeFromTheirMerchant

=============================================================================
