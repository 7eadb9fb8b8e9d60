------------------------------- MODULE Dashboard -------------------------------
(***************************************************************************)
(* The React application: its session, the cache of query results and the  *)
(* pages that read it and send orders.                                     *)
(*                                                                         *)
(* The cache is react-query's, as main.tsx configures it: a result is      *)
(* fresh for a while, a page that opens fetches what is not fresh, and an  *)
(* order that succeeded invalidates the keys its page names.  The page is  *)
(* the same component before and after another tenant is selected, so the  *)
(* keys are those of the tenant shown when the answer comes.  One browser  *)
(* tab is modelled; a fetch is read by the server when it is sent.         *)
(***************************************************************************)
EXTENDS Naturals, FiniteSets

CONSTANTS
    Users,
    NoUser,
    Tenants,        \* organizations; an organization and its merchant are one
    NoTenant,
    Memberships,    \* the organizations of each user
    Admins,         \* administrators of the platform
    Pages,          \* the pages that are visited
    Followings,     \* sets of keys: a behaviour follows the queries of one of them
    MaxChanges,     \* bound on the changes of one key
    MaxLogins       \* bound on logins

\* The organizations of a user are organizations, and the login page is not visited.
ASSUME DashboardAssumption ==
    /\ NoUser \notin Users /\ NoTenant \notin Tenants
    /\ Memberships \in [Users -> SUBSET Tenants]
    /\ "login" \notin Pages
    /\ MaxChanges \in Nat /\ MaxLogins \in Nat

VARIABLES
    followed,   \* the keys of this behaviour; queries of other keys are not in its state
    cookie,     \* the user of the session cookie, as the server sees it
    me,         \* the user that the application shows, NoUser on the login page
    logins,     \* how many logins there were
    tenant,     \* the selected organization, kept in localStorage
    page,
    desk,       \* the merchant picked on a platform page, and its pricing form
    cache,      \* the result held under each key
    fetch,      \* the answer on its way for each key
    orders,     \* the request of each order
    version,    \* how often the server has changed what each key names
    told,       \* the last change of each key that this tab was told of
    overlooked, \* keys with a change that its order could not refresh
    lingering   \* users whose session ended without a logout

sessionVars == <<cookie, me, logins, tenant, lingering>>
serverVars == <<version, told, overlooked>>
vars == <<followed, sessionVars, page, desk, cache, fetch, orders, serverVars>>

(***************************************************************************)
(* The pages: the queries of each, those it cannot show its forms without, *)
(* and its orders, with what they change and what they invalidate.         *)
(***************************************************************************)
Order(writes, refreshes) == [writes |-> writes, refreshes |-> refreshes]
Reader(reads) == [reads |-> reads, gates |-> {}, orders |-> <<>>]

HomePage == Reader({"summary", "transactions", "provider-connections"})
AccountsPage == Reader({"accounts", "summary"})

\* Mutant: the balance on the home page is forgotten.
TransactionsPage_ForgetsSummary ==
    [reads |-> {"transactions"}, gates |-> {"transactions"},
     orders |-> [reconcile |-> Order({"transactions", "summary", "platform-org-summary",
                                      "platform-org-transactions"},
                                     {"transactions"})]]
TransactionsPage ==
    [reads |-> {"transactions"}, gates |-> {"transactions"},
     orders |-> [reconcile |-> Order({"transactions", "summary", "platform-org-summary",
                                      "platform-org-transactions"},
                                     {"transactions", "summary"})]]

CustomersPage ==
    [reads |-> {"access", "customers", "transactions"},
     gates |-> {"access", "customers", "transactions"},
     orders |-> [createCustomer |-> Order({"customers"}, {"customers"})]]

WebhooksPage ==
    [reads |-> {"access", "webhook-endpoints"}, gates |-> {"access", "webhook-endpoints"},
     orders |-> [createWebhook |-> Order({"webhook-endpoints"}, {"webhook-endpoints"}),
                 deleteWebhook |-> Order({"webhook-endpoints"}, {"webhook-endpoints"})]]

ConnectionsPage ==
    [reads |-> {"provider-connections"}, gates |-> {"provider-connections"},
     orders |-> [createConnection |-> Order({"provider-connections", "platform-org-connections"},
                                            {"provider-connections"})]]

ApiKeysPage ==
    [reads |-> {"access", "api-keys"}, gates |-> {"access", "api-keys"},
     orders |-> [createKey |-> Order({"api-keys"}, {"api-keys"}),
                 revokeKey |-> Order({"api-keys"}, {"api-keys"})]]

\* A role is also what "access" answers.
OrganizationPage ==
    LET members == Order({"members", "access"}, {"members"})
    IN [reads |-> {"access", "members"}, gates |-> {"access", "members"},
        orders |-> [createMember |-> members, updateMember |-> members, removeMember |-> members]]

WithdrawalsPage ==
    LET destination == Order({"withdrawal-destinations"}, {"withdrawal-destinations"})
        withdrawal == Order({"summary", "transactions", "platform-org-summary",
                             "platform-org-transactions"}, {"summary", "transactions"})
    IN [reads |-> {"withdrawal-destinations", "summary"},
        gates |-> {"withdrawal-destinations", "summary"},
        orders |-> [createDestination |-> destination, disableDestination |-> destination,
                    withdraw |-> withdrawal]]

PlatformOrganizationsPage ==
    [reads |-> {"platform-tenants", "platform-org-kyc", "platform-org-pricing",
                "platform-org-summary", "platform-org-connections", "platform-org-transactions"},
     gates |-> {},
     orders |-> [provision |-> Order({"platform-tenants"}, {"platform-tenants"})]]

PlatformPricingPage ==
    [reads |-> {"platform-tenants", "admin-pricing"}, gates |-> {},
     orders |-> [savePricing |-> Order({"admin-pricing", "platform-org-pricing"},
                                       {"admin-pricing"})]]

PageOf(p) ==
    CASE p = "home" -> HomePage                   [] p = "accounts" -> AccountsPage
      [] p = "transactions" -> TransactionsPage   [] p = "customers" -> CustomersPage
      [] p = "webhooks" -> WebhooksPage           [] p = "connections" -> ConnectionsPage
      [] p = "api-keys" -> ApiKeysPage            [] p = "organization" -> OrganizationPage
      [] p = "withdrawals" -> WithdrawalsPage     [] p = "pricing" -> PlatformPricingPage
      [] p = "platform-organizations" -> PlatformOrganizationsPage
      [] OTHER -> Reader({})

PlatformPages == {"platform-organizations", "pricing"}
\* The shell around the pages of an organization has queries of its own.
Shell(p) == IF p \in PlatformPages \cup {"login"} THEN {} ELSE {"access", "kyc-shell"}
\* Keys that repeat the data of others, for another page: no order names them.
Copies == {"access", "kyc-shell", "platform-org-summary", "platform-org-transactions",
           "platform-org-connections", "platform-org-pricing"}

OrdersOn(p) == DOMAIN PageOf(p).orders
Orders == UNION {OrdersOn(p) : p \in Pages}
OrderOf(o) == LET p == CHOOSE q \in Pages : o \in OrdersOn(q) IN PageOf(p).orders[o]

(***************************************************************************)
(* Keys, results and forms.                                                *)
(***************************************************************************)
KeyOf(k, t) == <<k, IF k = "platform-tenants" THEN NoTenant ELSE t>>
KeysOf(ks, t) == {KeyOf(k, t) : k \in ks} \cap followed

\* The keys a page observes; its queries are enabled only with a tenant.
Observed(p, t, merchant) ==
    CASE p = "pricing" -> KeysOf(PageOf(p).reads, merchant)
      [] p \in PlatformPages \ {"pricing"} -> UNION {KeysOf(PageOf(p).reads, x) : x \in Tenants}
      [] OTHER -> IF t = NoTenant THEN {} ELSE KeysOf(PageOf(p).reads \cup Shell(p), t)

OnScreen == IF me = NoUser THEN {} ELSE Observed(page, tenant, desk.merchant)

Absent == [state |-> "absent"]
Result == [state: {"good", "invalid", "failed"}, at: 0..MaxChanges, by: Users]
Nothing == [by |-> NoUser, at |-> 0, sent |-> FALSE]
AnswerTo(u, k) == [by |-> u, at |-> version[k], sent |-> TRUE]
Held(k) == cache[k] # Absent

\* A pricing form was filled from the rules of one merchant.
NoDesk == [merchant |-> NoTenant, form |-> NoTenant, crossed |-> FALSE]

\* An order is live while the page that sent it is mounted; its answer invalidates
\* the keys of the tenant of the page's last rendering.
Idle == [pc |-> "idle"]
Sent == [pc: {"sent"}, tenant: Tenants, shown: Tenants, live: BOOLEAN]

Loaded(p) == \A k \in KeysOf(PageOf(p).gates, tenant) : Held(k) /\ cache[k].state # "failed"

Init ==
    /\ followed \in Followings
    /\ cookie = NoUser
    /\ me = NoUser
    /\ logins = 0
    /\ tenant = NoTenant
    /\ page = "login"
    /\ desk = NoDesk
    /\ cache = [k \in followed |-> Absent]
    /\ fetch = [k \in followed |-> Nothing]
    /\ orders = [o \in Orders |-> Idle]
    /\ version = [k \in followed |-> 0]
    /\ told = [k \in followed |-> 0]
    /\ overlooked = {}
    /\ lingering = {}

\* A query that begins to be observed is fetched unless it is on its way, or was
\* answered less than staleTime ago and not invalidated since.
FetchAs(u, ks) ==
    \E recent \in SUBSET {k \in ks : cache[k].state = "good"} :
       fetch' = [k \in followed |-> IF k \in ks \ recent /\ ~fetch[k].sent
                                  THEN AnswerTo(u, k) ELSE fetch[k]]

Unmounted == [o \in Orders |-> IF orders[o] = Idle THEN Idle ELSE [orders[o] EXCEPT !.live = FALSE]]
Rerendered(t) ==
    [o \in Orders |-> IF orders[o] # Idle /\ orders[o].live
                     THEN [orders[o] EXCEPT !.shown = t] ELSE orders[o]]

\* The version whose rules the pricing page shows, as its effect depends on it.
NoVersion == <<NoTenant, 0>>
Current(d, c) ==
    LET k == KeyOf("admin-pricing", d.merchant)
    IN IF k \in followed /\ c[k] # Absent THEN <<d.merchant, c[k].at>> ELSE NoVersion

\* The effect fills the form when another version is shown than before.
Filled(d, c, before) ==
    IF Current(d, c) \in {before, NoVersion} THEN d
    ELSE [d EXCEPT !.form = d.merchant, !.crossed = FALSE]

(***************************************************************************)
(* The session.                                                            *)
(***************************************************************************)
\* The page of the address is mounted; the merchant picked is the first listed.
Mount(p, u, t) ==
    /\ page' = p
    /\ \E m \in IF p = "pricing" THEN Tenants ELSE {NoTenant} :
          /\ desk' = Filled([NoDesk EXCEPT !.merchant = m], cache, NoVersion)
          /\ FetchAs(u, Observed(p, t, m))

\* A page of the platform shows nothing to anyone but its administrators.
MayVisit(u) == IF u \in Admins THEN Pages ELSE Pages \ PlatformPages

\* Mutant: the organization remembered is taken without looking for it.
Remembered_Any(u) == IF tenant = NoTenant THEN Memberships[u] ELSE {tenant}
\* The organization remembered, when the user has it, or the first of theirs.
Remembered(u) == IF tenant \in Memberships[u] THEN {tenant} ELSE Memberships[u]

\* A login, with the answer of "me" that lets the pages be mounted.
Login(u) ==
    /\ me = NoUser /\ logins < MaxLogins
    /\ cookie' = u /\ me' = u /\ logins' = logins + 1
    /\ \E t \in Remembered(u), p \in MayVisit(u) : tenant' = t /\ Mount(p, u, t)
    /\ UNCHANGED <<cache, orders, serverVars, lingering>>

LeavePages == page' = "login" /\ desk' = NoDesk /\ orders' = Unmounted

\* Mutant: queries on their way are left to answer.
Logout_LeavesFetches ==
    /\ me # NoUser /\ cookie # NoUser
    /\ cookie' = NoUser /\ me' = NoUser /\ tenant' = NoTenant /\ lingering' = {}
    /\ cache' = [k \in followed |-> Absent]
    /\ LeavePages
    /\ UNCHANGED <<logins, fetch, serverVars>>

\* logout, answered: clear() drops the results, and the queries still to be answered.
Logout ==
    /\ me # NoUser /\ cookie # NoUser
    /\ cookie' = NoUser /\ me' = NoUser /\ tenant' = NoTenant /\ lingering' = {}
    /\ cache' = [k \in followed |-> Absent] /\ fetch' = [k \in followed |-> Nothing]
    /\ LeavePages
    /\ UNCHANGED <<logins, serverVars>>

\* The session expires or is revoked, by a logout too whose answer is lost: then
\* logout throws before it clears anything.
SessionEnds ==
    /\ cookie # NoUser /\ cookie' = NoUser
    /\ UNCHANGED <<me, logins, tenant, lingering, page, desk, cache, fetch, orders, serverVars>>

\* "me" is asked again and refused: the login page is shown, and nothing is cleared.
Refused ==
    /\ me # NoUser /\ cookie = NoUser
    /\ me' = NoUser /\ lingering' = lingering \cup {me}
    /\ LeavePages
    /\ UNCHANGED <<cookie, logins, tenant, cache, fetch, serverVars>>

(***************************************************************************)
(* Pages and queries.                                                      *)
(***************************************************************************)
OpenPage(p) ==
    /\ me # NoUser /\ p \in MayVisit(me) \ {page}
    /\ Mount(p, cookie, tenant)
    /\ orders' = Unmounted
    /\ UNCHANGED <<sessionVars, cache, serverVars>>

\* setOrganizationId, from the header or from the page of the organization.
SelectTenant(t) ==
    /\ me # NoUser /\ page \notin PlatformPages
    /\ t \in Memberships[me] \ {tenant}
    /\ tenant' = t
    /\ orders' = Rerendered(t)
    /\ FetchAs(cookie, Observed(page, t, NoTenant))
    /\ UNCHANGED <<cookie, me, logins, lingering, page, desk, cache, serverVars>>

SelectMerchant(m) ==
    /\ page = "pricing" /\ m # desk.merchant
    /\ desk' = Filled([desk EXCEPT !.merchant = m], cache, Current(desk, cache))
    /\ orders' = Rerendered(m)
    /\ FetchAs(cookie, Observed(page, tenant, m))
    /\ UNCHANGED <<sessionVars, page, cache, serverVars>>

\* The network is back, or the user asks again after an error.
Refetch ==
    /\ FetchAs(cookie, OnScreen) /\ fetch' # fetch
    /\ UNCHANGED <<sessionVars, page, desk, cache, orders, serverVars>>

Lands(k) ==
    /\ fetch[k].sent /\ fetch[k].by # NoUser
    /\ cache' = [cache EXCEPT ![k] = [state |-> "good", at |-> fetch[k].at, by |-> fetch[k].by]]
    /\ fetch' = [fetch EXCEPT ![k] = Nothing]
    /\ desk' = Filled(desk, cache', Current(desk, cache))
    /\ overlooked' = IF fetch[k].at < told[k] THEN overlooked ELSE overlooked \ {k}
    /\ UNCHANGED <<sessionVars, page, orders, version, told>>

\* The answer is an error, as every answer without a session is.
LandsFailed(k) ==
    /\ fetch[k].sent
    /\ fetch' = [fetch EXCEPT ![k] = Nothing]
    /\ cache' = IF Held(k) THEN [cache EXCEPT ![k].state = "failed"] ELSE cache
    /\ UNCHANGED <<sessionVars, page, desk, orders, serverVars>>

(***************************************************************************)
(* Orders.                                                                 *)
(***************************************************************************)
\* Mutant: the pricing form is there while its rules are being fetched.
FormOn_Always(p) == Loaded(p)
FormOn(p) ==
    /\ Loaded(p)
    /\ p = "pricing" => Current(desk, cache) # NoVersion

\* The order is sent for the tenant of the page, and carried out.  One that changes
\* no key that is followed is left out.
Send(o) ==
    LET t == IF page = "pricing" THEN desk.merchant ELSE tenant
        changed == KeysOf(OrderOf(o).writes, t)
    IN /\ me # NoUser /\ cookie # NoUser
       /\ o \in OrdersOn(page) /\ orders[o] = Idle
       /\ FormOn(page)
       /\ changed # {}
       /\ \A k \in changed : version[k] < MaxChanges
       /\ version' = [k \in followed |-> IF k \in changed THEN version[k] + 1 ELSE version[k]]
       /\ orders' = [orders EXCEPT ![o] = [pc |-> "sent", tenant |-> t, shown |-> t, live |-> TRUE]]
       /\ UNCHANGED <<sessionVars, page, desk, cache, fetch, told, overlooked>>

\* The form of the pricing page takes the rules that were saved, whoever is shown.
TakeSaved(o) ==
    desk' = IF o = "savePricing" /\ orders[o].live
            THEN [desk EXCEPT !.form = orders[o].tenant,
                              !.crossed = orders[o].tenant # desk.merchant]
            ELSE desk

\* onSuccess: the keys of the order are invalidated and, where they are observed,
\* fetched anew; a first fetch, or one nobody observes, is left to land.
Answered(o) ==
    LET refreshed == KeysOf(OrderOf(o).refreshes, orders[o].shown)
        changed == KeysOf(OrderOf(o).writes, orders[o].tenant)
        missed(k) == \/ k[1] \in Copies
                     \/ orders[o].shown # orders[o].tenant
                     \/ fetch[k].sent /\ ~(k \in OnScreen /\ Held(k))
    IN /\ orders[o] # Idle
       /\ orders' = [orders EXCEPT ![o] = Idle]
       /\ cache' = [k \in followed |-> IF k \in refreshed /\ cache[k].state = "good"
                                     THEN [cache[k] EXCEPT !.state = "invalid"] ELSE cache[k]]
       /\ fetch' = [k \in followed |->
                      IF k \in refreshed \cap OnScreen /\ (Held(k) \/ ~fetch[k].sent)
                      THEN AnswerTo(cookie, k) ELSE fetch[k]]
       /\ TakeSaved(o)
       /\ told' = [k \in followed |-> IF k \in changed THEN version[k] ELSE told[k]]
       /\ overlooked' = (overlooked \ changed) \cup {k \in changed : missed(k)}
       /\ UNCHANGED <<sessionVars, page, version>>

\* An error, or no answer: nothing is invalidated.
Unanswered(o) ==
    /\ orders[o] # Idle
    /\ orders' = [orders EXCEPT ![o] = Idle]
    /\ UNCHANGED <<sessionVars, page, desk, cache, fetch, serverVars>>

Next ==
    /\ \/ \E u \in Users : Login(u)
       \/ Logout \/ SessionEnds \/ Refused \/ Refetch
       \/ \E p \in Pages : OpenPage(p)
       \/ \E t \in Tenants : SelectTenant(t) \/ SelectMerchant(t)
       \/ \E k \in followed : Lands(k) \/ LandsFailed(k)
       \/ \E o \in Orders : Send(o) \/ Answered(o) \/ Unanswered(o)
    /\ UNCHANGED followed

Spec == Init /\ [][Next]_vars

(***************************************************************************)
(* Properties.                                                             *)
(***************************************************************************)
\* Every variable has its type; a user on screen has the tenant that is selected
\* (session.tsx looks the remembered one up), and no page is mounted without one.
DashboardTypeOK ==
    /\ cookie \in Users \cup {NoUser} /\ me \in Users \cup {NoUser}
    /\ logins \in 0..MaxLogins
    /\ tenant \in Tenants \cup {NoTenant}
    /\ page \in Pages \cup {"login"}
    /\ desk \in [merchant: Tenants \cup {NoTenant}, form: Tenants \cup {NoTenant}, crossed: BOOLEAN]
    /\ \A k \in followed :
          /\ cache[k] \in Result \cup {Absent}
          /\ fetch[k].by \in Users \cup {NoUser} /\ fetch[k].at <= version[k]
          /\ told[k] <= version[k] /\ version[k] <= MaxChanges
    /\ \A o \in Orders : orders[o] \in Sent \cup {Idle}
    /\ overlooked \subseteq followed /\ lingering \subseteq Users
    /\ me = NoUser <=> page = "login"
    /\ me # NoUser => tenant \in Memberships[me]

\* What is cached was answered to the user on screen, or to one whose session ended
\* without a logout that was answered: a logout leaves nothing behind, and nothing
\* asked before it lands after it (session.tsx, logout).
LogoutLeavesNothing ==
    \A k \in followed : Held(k) => cache[k].by \in lingering \cup {me}

\* A result that is not invalidated has every change that this tab was told of, but
\* for those its order could not refresh: a copy kept under another key, an answer
\* that came when another tenant was shown, and a fetch that was left to land
\* (the onSuccess of the pages).
OwnChangesAreShown ==
    \A k \in followed : cache[k].state = "good" => cache[k].at >= told[k] \/ k \in overlooked

\* The rules saved for a merchant were typed over that merchant's rules, unless the
\* answer of an earlier save came after another merchant was picked and has put its
\* own into the form (PlatformPricingPage.tsx, saveMutation and the two effects).
RulesComeFromTheirMerchant ==
    [][\A t \in Tenants :
          LET k == KeyOf("admin-pricing", t)
          IN k \in followed /\ version'[k] # version[k] => desk.form = t \/ desk.crossed]_vars
=============================================================================
