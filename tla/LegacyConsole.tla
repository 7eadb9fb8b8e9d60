---------------------------- MODULE LegacyConsole ----------------------------
(***************************************************************************)
(* The console served from internal/ui: app.js with the layers loaded      *)
(* after it.  One page, one content element, one drawer and the tenant     *)
(* that every request names, all of them shared by whatever is running.    *)
(*                                                                         *)
(* A view is a function that fetches, then replaces the content.  Nothing  *)
(* tells a late answer from a current one, nothing cancels a load, and an  *)
(* answered form refreshes its view whatever view is on.  The list of the  *)
(* user's tenants is fetched again after some forms and at every start of  *)
(* the console; a tenant that is not on it is replaced by one that is.     *)
(***************************************************************************)
EXTENDS Naturals, FiniteSets

CONSTANTS
    Orgs,
    NoOrg,
    Views,          \* the views the user visits
    Forms,          \* the forms the user fills in
    MaxLoads,       \* bound on loads in flight
    MaxSends,       \* bound on answers awaited by forms
    MaxAccepts      \* bound on orders accepted from one review

Synchronous == {"organizations", "admin", "developer"}
AllViews == Synchronous \cup
    {"dashboard", "transactions", "transfers", "customers", "integrations", "webhooks", "accounts"}

AllForms == {"customer", "provider", "apikey", "webhook", "merchant", "organization",
             "member", "reconcile", "review"}

ASSUME LegacyAssumption ==
    /\ Orgs # {} /\ NoOrg \notin Orgs
    /\ Views \subseteq AllViews /\ "dashboard" \in Views
    /\ Forms \subseteq AllForms
    /\ {MaxLoads, MaxSends, MaxAccepts} \subseteq Nat

VARIABLES
    signed,     \* the session cookie is good, and the page shows the console
    listed,     \* state.me: the organizations of the last answer of /me
    remembered, \* localStorage: the organization selected last
    orgId,      \* state.orgId: the tenant that requests name, shown by the select
    view,       \* state.view
    loads,      \* views that are being fetched
    content,    \* what #content shows
    drawer,     \* what the drawer shows
    sends       \* requests of forms that are being answered, by slot

tenantVars == <<listed, remembered, orgId>>
screenVars == <<loads, content>>
formVars == <<drawer, sends>>
vars == <<signed, view, tenantVars, screenVars, formVars>>

Slots == 1..MaxSends

\* A load knows the tenant its requests named.  It is outrun when another begins.
Load == [view: AllViews \ Synchronous, org: Orgs \cup {NoOrg}, outrun: BOOLEAN,
         routed: BOOLEAN,       \* started by loadView, not by a form
         settles: {0} \cup Slots]

\* The tenant of the data, whether they came late, and the tenant asked for, and
\* answered by, the second request that decorates the balance of the dashboard.
Shows(v, org, late) == [view |-> v, org |-> org, late |-> late, asked |-> NoOrg, hero |-> NoOrg]
Content == [view: AllViews \cup {"skeleton", "error", "unscoped"}, org: Orgs \cup {NoOrg},
            late: BOOLEAN, asked: Orgs \cup {NoOrg}, hero: Orgs \cup {NoOrg}]
Blank(kind) == Shows(kind, NoOrg, FALSE)

(***************************************************************************)
(* The forms: whether they close the drawer when answered, and the view    *)
(* they then render.  A form that does not close shows a secret once and   *)
(* fetches without rendering.                                              *)
(***************************************************************************)
CustomerForm == [closes |-> TRUE, renders |-> "customers"]
ProviderForm == [closes |-> TRUE, renders |-> "integrations"]
ApiKeyForm == [closes |-> FALSE, renders |-> "none"]
WebhookForm == [closes |-> FALSE, renders |-> "none"]
MerchantForm == [closes |-> TRUE, renders |-> "admin"]
OrganizationForm == [closes |-> TRUE, renders |-> "admin"]
MemberForm == [closes |-> TRUE, renders |-> "admin"]
ReconcileForm == [closes |-> TRUE, renders |-> "transactions"]
\* The review of an outgoing Pix renders first and closes only then.
ReviewForm == [closes |-> FALSE, renders |-> "transfers"]

FormOf == [f \in AllForms |->
    CASE f = "customer" -> CustomerForm [] f = "provider" -> ProviderForm
      [] f = "apikey" -> ApiKeyForm     [] f = "webhook" -> WebhookForm
      [] f = "merchant" -> MerchantForm [] f = "organization" -> OrganizationForm
      [] f = "member" -> MemberForm     [] f = "reconcile" -> ReconcileForm
      [] f = "review" -> ReviewForm]

\* The forms that a view offers once it is rendered; rows of transactions open a
\* detail that can be reconciled.
DashboardScreen == {"reconcile"}
TransactionsScreen == {"reconcile"}
TransfersScreen == {"reconcile", "review"}
CustomersScreen == {"customer"}
IntegrationsScreen == {"provider", "apikey"}
WebhooksScreen == {"webhook"}
AccountsScreen == {}
OrganizationsScreen == {}
AdminScreen == {"merchant", "organization", "member"}
DeveloperScreen == {}

FormsOn(v) ==
    CASE v = "dashboard" -> DashboardScreen         [] v = "transactions" -> TransactionsScreen
      [] v = "transfers" -> TransfersScreen         [] v = "customers" -> CustomersScreen
      [] v = "integrations" -> IntegrationsScreen   [] v = "webhooks" -> WebhooksScreen
      [] v = "accounts" -> AccountsScreen           [] v = "organizations" -> OrganizationsScreen
      [] v = "admin" -> AdminScreen                 [] v = "developer" -> DeveloperScreen
      [] OTHER -> {}

Closed == [form |-> "none"]
\* A review keeps the tenant of the screen where it was composed.
Opened(f) == [form |-> f, shown |-> IF f = "review" THEN content.org ELSE NoOrg,
              late |-> f = "review" /\ content.late, moved |-> FALSE, busy |-> FALSE,
              accepted |-> 0, faulted |-> FALSE]
\* moved: the list of tenants came back without the one that was current.
Drawer == {Closed} \cup [form: Forms, shown: Orgs \cup {NoOrg}, late: BOOLEAN, moved: BOOLEAN,
                         busy: BOOLEAN, accepted: 0..MaxAccepts, faulted: BOOLEAN]

\* A request is attached while its form is still in the drawer.  An answered form
\* may wait for the refresh of its view, or for the list of tenants.
Unsent == [pc |-> "none"]
Send == {Unsent} \cup [pc: {"post", "refresh", "me"}, form: Forms, attached: BOOLEAN]

Detached(ss) == [k \in Slots |-> IF ss[k] = Unsent THEN Unsent ELSE [ss[k] EXCEPT !.attached = FALSE]]

(***************************************************************************)
(* Rendering and loading.                                                  *)
(***************************************************************************)
Outrun == {[l EXCEPT !.outrun = TRUE] : l \in loads}
InFlight(v, o, routed, k) ==
    [view |-> v, org |-> o, outrun |-> FALSE, routed |-> routed, settles |-> k]

\* A view function is called, with the requests it issues at once.
Begin(v, o, routed, k) ==
    IF v \in Synchronous
    THEN /\ content' = Shows(v, o, FALSE)
         /\ loads' = Outrun
    ELSE /\ Cardinality(loads) < MaxLoads
         /\ content' = IF routed THEN Blank("skeleton") ELSE content
         /\ loads' = Outrun \cup {InFlight(v, o, routed, k)}

CloseDrawer == drawer' = Closed /\ sends' = Detached(sends)

\* Mutant: the drawer is left to the views.
LoadView_KeepsDrawer(v, o) ==
    /\ UNCHANGED formVars
    /\ IF o = NoOrg /\ v \notin Synchronous
       THEN content' = Blank("unscoped") /\ loads' = Outrun
       ELSE Begin(v, o, TRUE, 0)

\* loadView, through all the layers that wrap it.
LoadView(v, o) ==
    /\ CloseDrawer
    /\ IF o = NoOrg /\ v \notin Synchronous
       THEN content' = Blank("unscoped") /\ loads' = Outrun
       ELSE Begin(v, o, TRUE, 0)

\* Mutant: the remembered organization is not looked up.
ShowApp_Remembered ==
    /\ listed' \in SUBSET Orgs
    /\ orgId' = remembered
    /\ LoadView(view, remembered)

\* The remembered organization if the user still has it, else the first, else none.
ShowApp ==
    /\ listed' \in SUBSET Orgs
    /\ orgId' \in IF remembered \in listed' THEN {remembered}
                  ELSE IF listed' = {} THEN {NoOrg} ELSE listed'
    /\ LoadView(view, orgId')

Init ==
    /\ signed = [cookie |-> TRUE, console |-> FALSE]
    /\ listed = {}
    /\ remembered \in Orgs \cup {NoOrg}
    /\ orgId = NoOrg
    /\ view = "dashboard"
    /\ loads = {}
    /\ content = Blank("skeleton")
    /\ drawer = Closed
    /\ sends = [k \in Slots |-> Unsent]

\* boot, or the form of the login page: it never gets a session cookie of its own
\* (the server asks for the second factor), so /me answers only to an older one.
SignIn ==
    /\ ~signed.console
    /\ signed.cookie
    /\ signed' = [signed EXCEPT !.console = TRUE]
    /\ ShowApp
    /\ UNCHANGED <<view, remembered>>

\* The console is hidden even when the session could not be deleted.
Logout ==
    /\ signed.console
    /\ \E cookie \in BOOLEAN : signed' = [cookie |-> cookie, console |-> FALSE]
    /\ listed' = {}
    /\ UNCHANGED <<view, remembered, orgId, screenVars, formVars>>

\* The user signs in through the other console, /app, which shares the cookie.
SignInElsewhere ==
    /\ ~signed.cookie
    /\ signed' = [signed EXCEPT !.cookie = TRUE]
    /\ UNCHANGED <<view, tenantVars, screenVars, formVars>>

Navigate(v) ==
    /\ signed.console
    /\ view' = v
    /\ LoadView(v, orgId)
    /\ UNCHANGED <<signed, listed, remembered, orgId>>

\* Mutant: the select only remembers the organization.
SelectOrg_NoLoad(o) ==
    /\ signed.console
    /\ o \in listed \ {orgId}
    /\ orgId' = o
    /\ remembered' = o
    /\ UNCHANGED <<signed, view, listed, screenVars, formVars>>

\* The select of the top bar.
SelectOrg(o) ==
    /\ signed.console
    /\ o \in listed \ {orgId}
    /\ orgId' = o
    /\ remembered' = o
    /\ LoadView(view, o)
    /\ UNCHANGED <<signed, view, listed>>

\* "Usar organização" renders the view again.
Choose(o) ==
    /\ signed.console
    /\ content.view = "organizations"
    /\ o \in listed \ {content.org}
    /\ orgId' = o
    /\ remembered' = o
    /\ Begin("organizations", o, FALSE, 0)
    /\ UNCHANGED <<signed, view, listed, formVars>>

\* An answer is rendered, whatever is on the screen by now; requests that named no
\* tenant are refused.  The dashboard then
\* asks for the balance again, for the tenant of that moment.  The confirmation
\* of a review, waiting for this, closes the drawer.
Land(l) ==
    /\ l \in loads
    /\ l.org # NoOrg
    /\ loads' = loads \ {l}
    /\ content' = [Shows(l.view, l.org, l.outrun) EXCEPT
                      !.asked = IF l.view = "dashboard" THEN orgId ELSE NoOrg]
    /\ IF l.settles = 0 THEN UNCHANGED formVars
       ELSE /\ drawer' = Closed
            /\ sends' = [Detached(sends) EXCEPT ![l.settles] = Unsent]
    /\ UNCHANGED <<signed, view, tenantVars>>

\* A load that fails shows an error.  A refresh that fails leaves the screen, and
\* the form that waits for it reports the error as its own: it may be sent again.
LoadFails(l) ==
    /\ l \in loads
    /\ loads' = loads \ {l}
    /\ content' = IF l.routed THEN Blank("error") ELSE content
    /\ IF l.settles = 0 THEN UNCHANGED formVars
       ELSE /\ sends' = [sends EXCEPT ![l.settles] = Unsent]
            /\ drawer' = IF sends[l.settles].attached
                         THEN [drawer EXCEPT !.busy = FALSE, !.faulted = TRUE] ELSE drawer
    /\ UNCHANGED <<signed, view, tenantVars>>

\* decorateDashboardBalance: the card it fills is gone when the content is.
Decorate ==
    /\ content.asked # NoOrg
    /\ \E hero \in {content.asked, NoOrg} :
          content' = [content EXCEPT !.asked = NoOrg, !.hero = hero]
    /\ UNCHANGED <<signed, view, tenantVars, loads, formVars>>

(***************************************************************************)
(* Drawers.                                                                *)
(***************************************************************************)
OpenDrawer(f) ==
    /\ signed.console
    /\ drawer = Closed
    /\ f \in FormsOn(content.view)
    /\ drawer' = Opened(f)
    /\ UNCHANGED <<signed, view, tenantVars, screenVars, sends>>

\* The cross, the backdrop and the Escape key work while a request is in flight.
DismissDrawer ==
    /\ drawer # Closed
    /\ CloseDrawer
    /\ UNCHANGED <<signed, view, tenantVars, screenVars>>

\* Mutant: the button stays enabled while the order is sent.
Enabled_Always == drawer # Closed
Enabled == drawer # Closed /\ ~drawer.busy

\* The request names the tenant of the moment it is sent, orgId.  The drawer is not
\* part of the console that a logout hides.
Submit ==
    /\ Enabled
    /\ \E k \in Slots :
          /\ sends[k] = Unsent
          /\ sends' = [sends EXCEPT ![k] =
                           [pc |-> "post", form |-> drawer.form, attached |-> TRUE]]
    /\ drawer' = [drawer EXCEPT !.busy = TRUE]
    /\ UNCHANGED <<signed, view, tenantVars, screenVars>>

\* An order that the server took counts for the review it was confirmed in.
Taken(s, d) ==
    IF s.form = "review" /\ s.attached /\ d.accepted < MaxAccepts
    THEN [d EXCEPT !.accepted = @ + 1] ELSE d

\* The forms after which the list of tenants is fetched again.
AsksMe == {"merchant", "organization"}

Answered(k) ==
    /\ sends[k].pc = "post"
    /\ LET s == sends[k]  form == FormOf[sends[k].form]
       IN \/ /\ s.form = "review"
             /\ drawer' = Taken(s, drawer)
             /\ sends' = [sends EXCEPT ![k].pc = "refresh"]
             /\ Begin("transfers", orgId, FALSE, k)
          \/ /\ form.closes
             /\ s.form \in AsksMe
             /\ drawer' = Closed
             /\ sends' = [Detached(sends) EXCEPT ![k] = [s EXCEPT !.pc = "me", !.attached = FALSE]]
             /\ UNCHANGED screenVars
          \/ /\ form.closes
             /\ s.form \notin AsksMe
             /\ drawer' = Closed
             /\ sends' = [Detached(sends) EXCEPT ![k] = Unsent]
             /\ Begin(form.renders, orgId, FALSE, 0)
          \/ /\ s.form \in {"apikey", "webhook"}
             /\ sends' = [sends EXCEPT ![k] = Unsent]
             /\ UNCHANGED <<drawer, screenVars>>
    /\ UNCHANGED <<signed, view, tenantVars>>

\* refreshMe(false): the tenant is kept if it is still on the list.  The list of who
\* has just created an organization is not empty.  A drawer may be open again.
MeAnswered(k) ==
    /\ sends[k].pc = "me"
    /\ signed.cookie
    /\ listed' \in SUBSET Orgs
    /\ sends[k].form = "organization" => listed' # {}
    /\ orgId' \in IF orgId \in listed' THEN {orgId} ELSE IF listed' = {} THEN {NoOrg} ELSE listed'
    /\ sends' = [sends EXCEPT ![k] = Unsent]
    /\ drawer' = IF drawer = Closed \/ orgId' = orgId THEN drawer ELSE [drawer EXCEPT !.moved = TRUE]
    /\ Begin(FormOf[sends[k].form].renders, orgId', FALSE, 0)
    /\ UNCHANGED <<signed, view, remembered>>

MeFails(k) ==
    /\ sends[k].pc = "me"
    /\ sends' = [sends EXCEPT ![k] = Unsent]
    /\ UNCHANGED <<signed, view, tenantVars, screenVars, drawer>>

\* Refused, or the answer is lost after the server did what it was asked.
Failed(k) ==
    /\ sends[k].pc = "post"
    /\ sends' = [sends EXCEPT ![k] = Unsent]
    /\ \E d \in {drawer, Taken(sends[k], drawer)} :
          drawer' = IF sends[k].attached THEN [d EXCEPT !.busy = FALSE, !.faulted = TRUE] ELSE drawer
    /\ UNCHANGED <<signed, view, tenantVars, screenVars>>

Next ==
    \/ SignIn \/ Logout \/ SignInElsewhere \/ Decorate \/ DismissDrawer \/ Submit
    \/ \E v \in Views : Navigate(v)
    \/ \E o \in Orgs : SelectOrg(o) \/ Choose(o)
    \/ \E l \in loads : Land(l) \/ LoadFails(l)
    \/ \E f \in Forms : OpenDrawer(f)
    \/ \E k \in Slots : Answered(k) \/ Failed(k) \/ MeAnswered(k) \/ MeFails(k)

Spec == Init /\ [][Next]_vars

(***************************************************************************)
(* Properties.                                                             *)
(***************************************************************************)

\* The values the variables take; the console names a tenant of the last list.
LegacyTypeOK ==
    /\ signed \in [cookie: BOOLEAN, console: BOOLEAN]
    /\ listed \subseteq Orgs
    /\ {remembered, orgId} \subseteq Orgs \cup {NoOrg}
    /\ signed.console => orgId \in listed \cup {NoOrg}
    /\ view \in Views
    /\ loads \subseteq Load
    /\ content \in Content
    /\ drawer \in Drawer
    /\ sends \in [Slots -> Send]

\* "Ao trocar o tenant, clientes, transações, contas, providers, API keys e webhooks
\* passam a usar o novo contexto" (revolut-structure.js): the content and the
\* decorated balance are those of the tenant that requests name,
\* however tenants are switched, chosen, replaced and signed in to while views load
\* and forms are answered; the one exception is an answer that came after a later
\* load had begun.
ScreenFollowsTenant ==
    /\ content.org \in {NoOrg, orgId} \/ content.late
    /\ content.hero \in {NoOrg, content.org} \/ content.late

\* An outgoing Pix leaves the tenant whose balance stood on the screen where it
\* was composed, although the request names its tenant only when it is confirmed;
\* except from a screen that was itself late, and when the list of tenants came back
\* without that tenant while the review was open.
OrdersLeaveTheTenantShown ==
    [][\A k \in Slots :
          sends[k] = Unsent /\ sends'[k] # Unsent /\ sends'[k].form = "review" =>
              orgId = drawer.shown \/ drawer.late \/ drawer.moved]_vars

\* A review is accepted more than once only after it reported an error: an answer
\* that was lost, or the refresh that follows an accepted order.
AcceptedTwiceOnlyAfterError ==
    drawer # Closed /\ drawer.accepted > 1 => drawer.faulted

=============================================================================
