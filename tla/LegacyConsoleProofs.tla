------------------------- MODULE LegacyConsoleProofs --------------------------
(***************************************************************************)
(* Theorems about LegacyConsole for every set of organizations, views and  *)
(* forms, and any number of loads and answers in flight.                   *)
(*                                                                         *)
(* Three arguments, one invariant for each: every load, and whatever it    *)
(* left on the screen, is of the tenant of the page or is known to be      *)
(* late; an open review keeps the tenant of the page, because every way to *)
(* change the tenant closes the drawer, needs another screen or leaves its *)
(* mark on it; and an unfaulted review has at most one order on its way.   *)
(***************************************************************************)
EXTENDS LegacyConsole, TLAPS

Asynchronous == AllViews \ Synchronous

-----------------------------------------------------------------------------
(* The inductive invariant *)

\* A load names the tenant of the page unless another began after it; the
\* slot it settles is that of a review waiting for it, and of it only.
LoadsOK ==
    /\ \A l \in loads : /\ l.org = orgId \/ l.outrun
                        /\ l.settles # 0 => sends[l.settles].pc = "refresh"
    /\ \A l, m \in loads : l.settles # 0 /\ l.settles = m.settles => l = m

\* What is on the screen is of one tenant, that of the page unless it is late,
\* and a view that was fetched has a tenant.
ScreenOK ==
    /\ content.org \in {NoOrg, orgId} \/ content.late
    /\ content.hero \in {NoOrg, content.org} \/ content.late
    /\ content.asked \in {NoOrg, content.org} \/ content.late
    /\ content.view \in Asynchronous => content.org # NoOrg

\* A review stands over a screen where no other tenant can be chosen, and has
\* the tenant of the page unless a new list has replaced that.
ReviewOK ==
    drawer.form = "review" =>
        /\ content.view # "organizations"
        /\ drawer.shown = orgId \/ drawer.late \/ drawer.moved

\* The list of tenants is asked for by the forms that may change it.
AsksOK == \A k \in Slots : sends[k].pc = "me" => sends[k].form \in AsksMe

Attached(k) == sends[k] # Unsent /\ sends[k].attached

\* Only an open drawer has attached requests, one at most until it reports an
\* error; while that one is on its way the button is disabled, and it counts
\* as accepted only when it is no longer awaited.
AttachedOK ==
    /\ drawer = Closed => \A k \in Slots : ~Attached(k)
    /\ drawer # Closed /\ ~drawer.faulted =>
          /\ \A j, k \in Slots : Attached(j) /\ Attached(k) => j = k
          /\ ~drawer.busy => drawer.accepted = 0 /\ \A k \in Slots : ~Attached(k)
          /\ drawer.accepted <= 1
          /\ \A k \in Slots : Attached(k) /\ sends[k].pc = "post" => drawer.accepted = 0

IInv == LegacyTypeOK /\ LoadsOK /\ ScreenOK /\ ReviewOK /\ AsksOK /\ AttachedOK

-----------------------------------------------------------------------------
(* Drawers, requests and loads *)

LEMMA Screens ==
    /\ Synchronous \subseteq AllViews /\ Asynchronous \subseteq AllViews
    /\ \A v \in AllViews : v \in Asynchronous <=> v \notin Synchronous
    /\ \A f \in AllForms : /\ f # "none" /\ FormOf[f].renders \in AllViews \cup {"none"}
                           /\ FormOf[f].closes => FormOf[f].renders \in AllViews
                           /\ f \in AsksMe => FormOf[f].closes /\ FormOf[f].renders = "admin"
                           /\ f = "review" => ~FormOf[f].closes
BY DEF Synchronous, AllViews, Asynchronous, AsksMe, AllForms, FormOf, CustomerForm,
       ProviderForm, ApiKeyForm, WebhookForm, MerchantForm, OrganizationForm, MemberForm,
       ReconcileForm, ReviewForm

\* Closing the drawer detaches the requests and changes nothing else of them.
LEMMA DetachedOnly ==
    ASSUME NEW ss \in [Slots -> Send]
    PROVE  /\ Detached(ss) \in [Slots -> Send]
           /\ \A k \in Slots : /\ Detached(ss)[k].pc = ss[k].pc
                               /\ Detached(ss)[k] = Unsent <=> ss[k] = Unsent
                               /\ ss[k] # Unsent => /\ Detached(ss)[k].form = ss[k].form
                                                    /\ ~Detached(ss)[k].attached
<1> SUFFICES ASSUME NEW k \in Slots
             PROVE  LET s == IF ss[k] = Unsent THEN Unsent ELSE [ss[k] EXCEPT !.attached = FALSE]
                    IN /\ s \in Send /\ s.pc = ss[k].pc /\ (s = Unsent <=> ss[k] = Unsent)
                       /\ ss[k] # Unsent => s.form = ss[k].form /\ ~s.attached
  BY DEF Detached
<1>1. CASE ss[k] = Unsent
  BY <1>1 DEF Send
<1>2. CASE ss[k] # Unsent
  <2>1. ss[k] \in [pc: {"post", "refresh", "me"}, form: Forms, attached: BOOLEAN]
    BY <1>2 DEF Send
  <2>2. [ss[k] EXCEPT !.attached = FALSE].pc # "none"
    BY <2>1
  <2>3. QED
    BY <1>2, <2>1, <2>2 DEF Send, Unsent
<1>3. QED
  BY <1>1, <1>2

LEMMA SendType ==
    ASSUME NEW s \in Send
    PROVE  /\ s = Unsent <=> s.pc = "none"
           /\ s # Unsent => /\ s \in [pc: {"post", "refresh", "me"}, form: Forms, attached: BOOLEAN]
                            /\ [s EXCEPT !.pc = "refresh"] \in Send \ {Unsent}
                            /\ [s EXCEPT !.pc = "me", !.attached = FALSE] \in Send \ {Unsent}
<1>1. s # Unsent => s \in [pc: {"post", "refresh", "me"}, form: Forms, attached: BOOLEAN]
  BY DEF Send
<1>2. s # Unsent =>
         /\ [s EXCEPT !.pc = "refresh"] \in [pc: {"post", "refresh", "me"}, form: Forms, attached: BOOLEAN]
         /\ [s EXCEPT !.pc = "me", !.attached = FALSE]
               \in [pc: {"post", "refresh", "me"}, form: Forms, attached: BOOLEAN]
  BY <1>1
<1>3. s # Unsent => /\ [s EXCEPT !.pc = "refresh"].pc = "refresh"
                    /\ [s EXCEPT !.pc = "me", !.attached = FALSE].pc = "me"
  BY <1>1
<1>4. QED
  BY <1>1, <1>2, <1>3 DEF Send, Unsent

OpenDrawerRecord == [form: Forms, shown: Orgs \cup {NoOrg}, late: BOOLEAN, moved: BOOLEAN,
                     busy: BOOLEAN, accepted: 0..MaxAccepts, faulted: BOOLEAN]

Reenabled(d) == [d EXCEPT !.busy = FALSE, !.faulted = TRUE]

LEMMA DrawerType ==
    ASSUME NEW d \in Drawer
    PROVE  /\ d = Closed <=> d.form = "none"
           /\ d # Closed <=> d \in OpenDrawerRecord
           /\ d \in OpenDrawerRecord =>
                 /\ [d EXCEPT !.busy = TRUE] \in OpenDrawerRecord
                 /\ Reenabled(d) \in OpenDrawerRecord
                 /\ Reenabled(d).form = d.form /\ Reenabled(d).shown = d.shown
                 /\ Reenabled(d).late = d.late /\ Reenabled(d).moved = d.moved
                 /\ Reenabled(d).faulted
<1>1. d \in OpenDrawerRecord => d.form # "none"
  BY LegacyAssumption DEF OpenDrawerRecord, AllForms
<1>2. /\ d = Closed <=> d.form = "none"
      /\ d # Closed <=> d \in OpenDrawerRecord
  BY <1>1 DEF Drawer, OpenDrawerRecord, Closed
<1>3. ASSUME d \in OpenDrawerRecord
      PROVE  /\ [d EXCEPT !.busy = TRUE] \in OpenDrawerRecord
             /\ Reenabled(d) \in OpenDrawerRecord
             /\ Reenabled(d).form = d.form /\ Reenabled(d).shown = d.shown
             /\ Reenabled(d).late = d.late /\ Reenabled(d).moved = d.moved
             /\ Reenabled(d).faulted
  BY <1>3 DEF OpenDrawerRecord, Reenabled
<1>4. QED
  BY <1>2, <1>3

LEMMA TakenType ==
    ASSUME NEW s, NEW d \in OpenDrawerRecord
    PROVE  /\ Taken(s, d) \in OpenDrawerRecord
           /\ Taken(s, d).form = d.form /\ Taken(s, d).shown = d.shown
           /\ Taken(s, d).late = d.late /\ Taken(s, d).moved = d.moved
           /\ Taken(s, d).busy = d.busy /\ Taken(s, d).faulted = d.faulted
           /\ Taken(s, d).accepted = d.accepted
                 \/ (s.attached /\ Taken(s, d).accepted = d.accepted + 1)
BY LegacyAssumption DEF Taken, OpenDrawerRecord

OutrunOf(l, m) == l = [m EXCEPT !.outrun = TRUE] /\ l.outrun /\ l.settles = m.settles

LEMMA OutrunType ==
    ASSUME loads \subseteq Load
    PROVE  Outrun \subseteq Load /\ \A l \in Outrun : \E m \in loads : OutrunOf(l, m)
<1>1. \A m \in loads : /\ [m EXCEPT !.outrun = TRUE] \in Load
                       /\ [m EXCEPT !.outrun = TRUE].outrun
                       /\ [m EXCEPT !.outrun = TRUE].settles = m.settles
  BY DEF Load
<1>2. QED
  BY <1>1 DEF Outrun, OutrunOf

\* What follows a call of a view function.
LEMMA Begun ==
    ASSUME loads \subseteq Load, content \in Content,
           NEW v \in AllViews, NEW o \in Orgs \cup {NoOrg},
           NEW routed \in BOOLEAN, NEW k \in {0} \cup Slots,
           Begin(v, o, routed, k)
    PROVE  /\ loads' \subseteq Load
           /\ \A l \in loads' : \/ \E m \in loads : OutrunOf(l, m)
                                \/ v \in Asynchronous /\ l = InFlight(v, o, routed, k)
           /\ v \in Synchronous => content' = Shows(v, o, FALSE)
           /\ v \in Asynchronous => content' = IF routed THEN Blank("skeleton") ELSE content
           /\ content' \in Content
<1>1. v \in Asynchronous => InFlight(v, o, routed, k) \in Load
  BY DEF InFlight, Load, Asynchronous
<1>2. v \in Synchronous <=> v \notin Asynchronous
  BY Screens
<1>3. Shows(v, o, FALSE) \in Content /\ Blank("skeleton") \in Content
  BY DEF Shows, Blank, Content
<1>4. CASE v \in Synchronous
  <2>1. content' = Shows(v, o, FALSE) /\ loads' = Outrun
    BY <1>4 DEF Begin
  <2>2. QED
    BY <1>2, <1>3, <1>4, <2>1, OutrunType
<1>5. CASE v \in Asynchronous
  <2>1. /\ content' = IF routed THEN Blank("skeleton") ELSE content
        /\ loads' = Outrun \cup {InFlight(v, o, routed, k)}
    BY <1>2, <1>5 DEF Begin
  <2>2. QED
    BY <1>1, <1>2, <1>3, <1>5, <2>1, OutrunType
<1>6. QED
  BY <1>2, <1>4, <1>5

-----------------------------------------------------------------------------
(* The steps *)

\* The types of what is neither on the screen nor about a form.
PageOK ==
    /\ signed \in [cookie: BOOLEAN, console: BOOLEAN]
    /\ listed \subseteq Orgs
    /\ remembered \in Orgs \cup {NoOrg} /\ orgId \in Orgs \cup {NoOrg}
    /\ signed.console => orgId \in listed \cup {NoOrg}
    /\ view \in Views

LEMMA PageType ==
    ASSUME LegacyTypeOK
    PROVE  PageOK
BY DEF LegacyTypeOK, PageOK

\* The steps that route: a start of the console, a navigation, the select.
Routing(v, o) == LoadView(v, o) /\ orgId' = o /\ PageOK'

\* The answer of a review, of a form that closes the drawer and renders its view, of
\* one that asks for the list of tenants, of one that shows a secret; and that list.
ReviewAnswered(k) ==
    /\ sends[k].pc = "post" /\ sends[k].form = "review"
    /\ drawer' = Taken(sends[k], drawer)
    /\ sends' = [sends EXCEPT ![k].pc = "refresh"]
    /\ Begin("transfers", orgId, FALSE, k)
    /\ UNCHANGED <<signed, view, tenantVars>>

FormAnswered(k, v) ==
    /\ sends[k].pc = "post"
    /\ drawer' = Closed
    /\ sends' = [Detached(sends) EXCEPT ![k] = Unsent]
    /\ Begin(v, orgId, FALSE, 0)
    /\ UNCHANGED <<signed, view, tenantVars>>

MeAsked(k) ==
    /\ sends[k].pc = "post" /\ sends[k].form \in AsksMe
    /\ drawer' = Closed
    /\ sends' = [Detached(sends) EXCEPT ![k] = [sends[k] EXCEPT !.pc = "me", !.attached = FALSE]]
    /\ UNCHANGED <<signed, view, tenantVars, screenVars>>

\* Also the end of a request for the list that fails.
Forgotten(k) ==
    /\ sends[k].pc \in {"post", "me"}
    /\ sends' = [sends EXCEPT ![k] = Unsent]
    /\ UNCHANGED <<signed, view, tenantVars, screenVars, drawer>>

Listed(k) ==
    /\ sends[k].pc = "me"
    /\ PageOK'
    /\ sends' = [sends EXCEPT ![k] = Unsent]
    /\ \/ drawer' = drawer /\ (drawer = Closed \/ orgId' = orgId)
       \/ drawer # Closed /\ drawer' = [drawer EXCEPT !.moved = TRUE]
    /\ Begin("admin", orgId', FALSE, 0)

LEMMA Sent ==
    ASSUME LegacyTypeOK, NEW k \in Slots, sends[k].pc \in {"post", "me"}
    PROVE  /\ sends[k] # Unsent
           /\ sends[k] \in [pc: {"post", "refresh", "me"}, form: Forms, attached: BOOLEAN]
           /\ sends[k].form \in AllForms
BY SendType, LegacyAssumption DEF LegacyTypeOK, Unsent

LEMMA SignInRoutes ==
    ASSUME LegacyTypeOK, SignIn
    PROVE  \E v \in Views, o \in Orgs \cup {NoOrg} : Routing(v, o)
<1>0. PageOK
  BY PageType
<1>1. /\ listed' \subseteq Orgs /\ orgId' \in listed' \cup {NoOrg}
      /\ LoadView(view, orgId') /\ view' = view /\ remembered' = remembered
  BY DEF SignIn, ShowApp
<1>2. signed' \in [cookie: BOOLEAN, console: BOOLEAN]
  BY <1>0 DEF SignIn, PageOK
<1>3. PageOK' /\ orgId' \in Orgs \cup {NoOrg}
  BY <1>0, <1>1, <1>2 DEF PageOK
<1>4. Routing(view, orgId') /\ view \in Views
  BY <1>0, <1>1, <1>3 DEF Routing, PageOK
<1>5. QED
  BY <1>3, <1>4

LEMMA NavigateRoutes ==
    ASSUME LegacyTypeOK, NEW v \in Views, Navigate(v)
    PROVE  \E w \in Views, o \in Orgs \cup {NoOrg} : Routing(w, o)
<1>1. PageOK
  BY PageType
<1>2. PageOK'
  BY <1>1 DEF Navigate, PageOK
<1>3. Routing(v, orgId) /\ orgId \in Orgs \cup {NoOrg}
  BY <1>1, <1>2 DEF Routing, Navigate, PageOK
<1>4. QED
  BY <1>3

LEMMA SelectRoutes ==
    ASSUME LegacyTypeOK, NEW o \in Orgs, SelectOrg(o)
    PROVE  Routing(view, o) /\ view \in Views
<1>1. PageOK
  BY PageType
<1>2. PageOK'
  BY <1>1 DEF SelectOrg, PageOK
<1>3. QED
  BY <1>1, <1>2 DEF Routing, SelectOrg, PageOK

LEMMA Answers ==
    ASSUME LegacyTypeOK, NEW k \in Slots, Answered(k)
    PROVE  \/ ReviewAnswered(k) \/ MeAsked(k) \/ Forgotten(k)
           \/ \E v \in AllViews : FormAnswered(k, v)
<1> DEFINE s == sends[k]
           form == FormOf[s.form]
<1>0. s.pc = "post" /\ s.form \in AllForms /\ UNCHANGED <<signed, view, tenantVars>>
  BY Sent DEF Answered
<1>1. ASSUME s.form = "review", drawer' = Taken(s, drawer), sends' = [sends EXCEPT ![k].pc = "refresh"],
             Begin("transfers", orgId, FALSE, k)
      PROVE  ReviewAnswered(k)
  BY <1>0, <1>1 DEF ReviewAnswered
<1>2. ASSUME form.closes, drawer' = Closed, sends' = [Detached(sends) EXCEPT ![k] = Unsent],
             Begin(form.renders, orgId, FALSE, 0)
      PROVE  \E v \in AllViews : FormAnswered(k, v)
  <2>1. form.renders \in AllViews
    BY <1>0, <1>2, Screens
  <2>2. FormAnswered(k, form.renders)
    BY <1>0, <1>2 DEF FormAnswered
  <2>3. QED
    BY <2>1, <2>2
<1>3. ASSUME s.form \in AsksMe, drawer' = Closed, UNCHANGED screenVars,
             sends' = [Detached(sends) EXCEPT ![k] = [s EXCEPT !.pc = "me", !.attached = FALSE]]
      PROVE  MeAsked(k)
  BY <1>0, <1>3 DEF MeAsked
<1>4. ASSUME sends' = [sends EXCEPT ![k] = Unsent], UNCHANGED <<drawer, screenVars>>
      PROVE  Forgotten(k)
  BY <1>0, <1>4 DEF Forgotten
<1>5. QED
  BY <1>1, <1>2, <1>3, <1>4 DEF Answered

LEMMA MeLists ==
    ASSUME LegacyTypeOK, AsksOK, NEW k \in Slots, MeAnswered(k)
    PROVE  Listed(k)
<1>1. PageOK
  BY PageType
<1>2. listed' \subseteq Orgs /\ orgId' \in listed' \cup {NoOrg} /\ UNCHANGED <<signed, view, remembered>>
  BY DEF MeAnswered
<1>3. PageOK'
  BY <1>1, <1>2 DEF PageOK
<1>4. sends[k].form \in AsksMe /\ sends[k].form \in AllForms
  BY Sent DEF AsksOK, MeAnswered
<1>5. Begin("admin", orgId', FALSE, 0)
  BY <1>4, Screens DEF MeAnswered
<1>6. QED
  BY <1>3, <1>5 DEF MeAnswered, Listed

LEMMA Steps ==
    ASSUME LegacyTypeOK, AsksOK, [Next]_vars
    PROVE  \/ \E v \in Views, o \in Orgs \cup {NoOrg} : Routing(v, o)
           \/ \E o \in Orgs : Choose(o)
           \/ \E l \in loads : Land(l)
           \/ \E l \in loads : LoadFails(l)
           \/ \E f \in Forms : OpenDrawer(f)
           \/ \E k \in Slots : ReviewAnswered(k)
           \/ \E k \in Slots, v \in AllViews : FormAnswered(k, v)
           \/ \E k \in Slots : MeAsked(k)
           \/ \E k \in Slots : Forgotten(k)
           \/ \E k \in Slots : Listed(k)
           \/ \E k \in Slots : Failed(k)
           \/ Logout \/ SignInElsewhere \/ Decorate \/ DismissDrawer \/ Submit \/ UNCHANGED vars
<1>1. ASSUME NEW k \in Slots, MeFails(k) PROVE Forgotten(k)
  BY <1>1 DEF MeFails, Forgotten
<1>2. QED
  BY <1>1, SignInRoutes, NavigateRoutes, SelectRoutes, Answers, MeLists DEF Next

LEMMA Pieces ==
    ASSUME LegacyTypeOK
    PROVE  /\ drawer \in Drawer /\ sends \in [Slots -> Send]
           /\ loads \subseteq Load /\ content \in Content
           /\ Views \subseteq AllViews /\ view \in Views
           /\ orgId \in Orgs \cup {NoOrg}
BY LegacyAssumption DEF LegacyTypeOK

\* What a routed view leaves: no drawer, no load that is not outrun but its own,
\* and a screen of the tenant, or of none, that is still to be fetched.
LEMMA Routed ==
    ASSUME LegacyTypeOK, NEW v \in Views, NEW o \in Orgs \cup {NoOrg}, Routing(v, o)
    PROVE  /\ loads' \subseteq Load /\ content' \in Content
           /\ \A l \in loads' : \/ \E m \in loads : OutrunOf(l, m)
                                \/ l = InFlight(v, o, TRUE, 0)
           /\ content'.org \in {NoOrg, o} /\ content'.hero = NoOrg /\ content'.asked = NoOrg
           /\ content'.view \notin Asynchronous
           /\ drawer' = Closed /\ sends' = Detached(sends)
<1>1. drawer' = Closed /\ sends' = Detached(sends)
  BY DEF Routing, LoadView, CloseDrawer
<1>2. v \in AllViews /\ (v \in Asynchronous <=> v \notin Synchronous)
  BY Pieces, Screens
<1>3. /\ Blank("unscoped") \in Content /\ Blank("skeleton") \in Content
      /\ \A kind \in {"unscoped", "skeleton"} :
            /\ Blank(kind).org = NoOrg /\ Blank(kind).hero = NoOrg /\ Blank(kind).asked = NoOrg
            /\ Blank(kind).view \notin Asynchronous
      /\ Shows(v, o, FALSE).org = o /\ Shows(v, o, FALSE).hero = NoOrg
      /\ Shows(v, o, FALSE).asked = NoOrg /\ Shows(v, o, FALSE).view = v
  BY DEF Blank, Shows, Content, Asynchronous, AllViews
<1>4. CASE o = NoOrg /\ v \notin Synchronous
  <2>1. content' = Blank("unscoped") /\ loads' = Outrun
    BY <1>4 DEF Routing, LoadView
  <2>2. QED
    BY <1>1, <1>3, <2>1, OutrunType, Pieces
<1>5. CASE ~(o = NoOrg /\ v \notin Synchronous)
  <2>1. Begin(v, o, TRUE, 0)
    BY <1>5 DEF Routing, LoadView
  <2>2. /\ loads' \subseteq Load /\ content' \in Content
        /\ \A l \in loads' :
              \/ \E m \in loads : OutrunOf(l, m)
              \/ v \in Asynchronous /\ l = InFlight(v, o, TRUE, 0)
        /\ v \in Synchronous => content' = Shows(v, o, FALSE)
        /\ v \in Asynchronous => content' = Blank("skeleton")
    BY <1>2, <2>1, Begun, Pieces
  <2>3. QED
    BY <1>1, <1>2, <1>3, <2>2
<1>6. QED
  BY <1>4, <1>5

\* The same for the views that other steps render.
LEMMA ChosenView ==
    ASSUME LegacyTypeOK, NEW o \in Orgs, Choose(o)
    PROVE  /\ loads' \subseteq Load /\ content' \in Content
           /\ \A l \in loads' : \E m \in loads : OutrunOf(l, m)
           /\ content' = Shows("organizations", o, FALSE)
           /\ orgId' = o
<1>1. "organizations" \in Synchronous /\ "organizations" \in AllViews
  BY DEF Synchronous, AllViews
<1>2. "organizations" \notin Asynchronous
  BY <1>1, Screens
<1>3. Begin("organizations", o, FALSE, 0) /\ orgId' = o
  BY DEF Choose
<1>4. QED
  BY <1>1, <1>2, <1>3, Begun, Pieces

LEMMA ListedView ==
    ASSUME LegacyTypeOK, NEW k \in Slots, Listed(k)
    PROVE  /\ loads' \subseteq Load /\ content' \in Content
           /\ \A l \in loads' : \E m \in loads : OutrunOf(l, m)
           /\ content' = Shows("admin", orgId', FALSE)
<1>1. "admin" \in Synchronous /\ "admin" \in AllViews
  BY DEF Synchronous, AllViews
<1>2. "admin" \notin Asynchronous
  BY <1>1, Screens
<1>3. Begin("admin", orgId', FALSE, 0) /\ orgId' \in Orgs \cup {NoOrg}
  BY DEF Listed, PageOK
<1>4. QED
  BY <1>1, <1>2, <1>3, Begun, Pieces

LEMMA ReviewRefresh ==
    ASSUME LegacyTypeOK, NEW k \in Slots, ReviewAnswered(k)
    PROVE  /\ loads' \subseteq Load /\ content' = content
           /\ \A l \in loads' : \/ \E m \in loads : OutrunOf(l, m)
                                \/ l = InFlight("transfers", orgId, FALSE, k)
           /\ orgId' = orgId
<1>1. "transfers" \in Asynchronous /\ "transfers" \in AllViews
  BY DEF Synchronous, AllViews, Asynchronous
<1>2. orgId' = orgId /\ Begin("transfers", orgId, FALSE, k)
  BY DEF ReviewAnswered, tenantVars
<1>3. QED
  BY <1>1, <1>2, Begun, Pieces

LEMMA FormRefresh ==
    ASSUME LegacyTypeOK, NEW k \in Slots, NEW v \in AllViews, FormAnswered(k, v)
    PROVE  /\ loads' \subseteq Load /\ content' \in Content
           /\ \A l \in loads' : \/ \E m \in loads : OutrunOf(l, m)
                                \/ l = InFlight(v, orgId, FALSE, 0)
           /\ \/ content' = content
              \/ content' = Shows(v, orgId, FALSE) /\ v \notin Asynchronous
           /\ orgId' = orgId
<1>1. orgId' = orgId /\ Begin(v, orgId, FALSE, 0)
  BY DEF FormAnswered, tenantVars
<1>2. v \in Asynchronous <=> v \notin Synchronous
  BY Screens
<1>3. QED
  BY <1>1, <1>2, Begun, Pieces

-----------------------------------------------------------------------------
(* Types *)

LEMMA SlotChange ==
    ASSUME NEW ss \in [Slots -> Send], NEW k \in Slots, NEW s \in Send
    PROVE  /\ [ss EXCEPT ![k] = s] \in [Slots -> Send]
           /\ [ss EXCEPT ![k] = s][k] = s
           /\ \A j \in Slots : j # k => [ss EXCEPT ![k] = s][j] = ss[j]
OBVIOUS

LEMMA DrawerNames ==
    ASSUME LegacyTypeOK, drawer # Closed
    PROVE  drawer \in OpenDrawerRecord /\ drawer.form \in Forms /\ drawer.form \in AllForms
BY DrawerType, Pieces, LegacyAssumption DEF OpenDrawerRecord

LEMMA SubmitShape ==
    ASSUME LegacyTypeOK, Submit
    PROVE  \E k \in Slots, s \in Send :
               /\ sends[k] = Unsent /\ sends' = [sends EXCEPT ![k] = s]
               /\ s # Unsent /\ s.pc = "post" /\ s.form = drawer.form /\ s.attached
               /\ drawer # Closed /\ ~drawer.busy
               /\ drawer' = [drawer EXCEPT !.busy = TRUE]
               /\ drawer' \in OpenDrawerRecord
               /\ UNCHANGED <<signed, view, tenantVars, screenVars>>
<1>1. PICK k \in Slots : /\ sends[k] = Unsent
                         /\ sends' = [sends EXCEPT ![k] = [pc |-> "post", form |-> drawer.form, attached |-> TRUE]]
  BY DEF Submit
<1>2. drawer # Closed /\ drawer \in OpenDrawerRecord /\ drawer.form \in Forms
  BY DrawerNames DEF Submit, Enabled
<1>3. [drawer EXCEPT !.busy = TRUE] \in OpenDrawerRecord
  BY <1>2, DrawerType, Pieces
<1>4. [pc |-> "post", form |-> drawer.form, attached |-> TRUE] \in Send
  BY <1>2 DEF Send
<1>5. QED
  BY <1>1, <1>2, <1>3, <1>4, SendType DEF Submit, Enabled

LEMMA OpenedType ==
    ASSUME LegacyTypeOK, NEW f \in Forms
    PROVE  /\ Opened(f) \in OpenDrawerRecord /\ Opened(f).form = f
           /\ Opened(f).accepted = 0 /\ ~Opened(f).busy /\ ~Opened(f).faulted
           /\ f = "review" => Opened(f).shown = content.org /\ Opened(f).late = content.late
<1>1. content.org \in Orgs \cup {NoOrg} /\ content.late \in BOOLEAN /\ 0 \in 0..MaxAccepts
  BY Pieces, LegacyAssumption DEF Content
<1>2. QED
  BY <1>1 DEF Opened, OpenDrawerRecord

\* What an answer, a failure and the end of a load leave of a drawer that stays.
LEMMA DrawerStays ==
    ASSUME LegacyTypeOK, drawer # Closed, NEW s
    PROVE  \A d \in {Taken(s, drawer), Reenabled(drawer), Reenabled(Taken(s, drawer))} :
              /\ d \in OpenDrawerRecord /\ d \in Drawer /\ d # Closed
              /\ d.form = drawer.form /\ d.shown = drawer.shown /\ d.late = drawer.late
              /\ d.moved = drawer.moved
<1>1. drawer \in OpenDrawerRecord
  BY DrawerNames
<1>2. OpenDrawerRecord \subseteq Drawer
  BY DEF Drawer, OpenDrawerRecord
<1>3. /\ Taken(s, drawer) \in OpenDrawerRecord /\ Taken(s, drawer).form = drawer.form
      /\ Taken(s, drawer).shown = drawer.shown /\ Taken(s, drawer).late = drawer.late
      /\ Taken(s, drawer).moved = drawer.moved
  BY <1>1, TakenType
<1>4. \A d \in OpenDrawerRecord :
          /\ Reenabled(d) \in OpenDrawerRecord
          /\ Reenabled(d).form = d.form /\ Reenabled(d).shown = d.shown /\ Reenabled(d).late = d.late
          /\ Reenabled(d).moved = d.moved
  BY <1>2, DrawerType
<1>5. \A d \in OpenDrawerRecord : d # Closed
  BY <1>2, DrawerType
<1>6. QED
  BY <1>1, <1>2, <1>3, <1>4, <1>5

\* A new list marks the drawer, and nothing else of it.
LEMMA MarkedDrawer ==
    ASSUME LegacyTypeOK, drawer # Closed
    PROVE  LET d == [drawer EXCEPT !.moved = TRUE] IN
           /\ d \in OpenDrawerRecord /\ d \in Drawer /\ d # Closed /\ d.moved
           /\ d.form = drawer.form /\ d.shown = drawer.shown /\ d.late = drawer.late
           /\ d.busy = drawer.busy /\ d.accepted = drawer.accepted /\ d.faulted = drawer.faulted
<1>1. drawer \in OpenDrawerRecord
  BY DrawerNames
<1> DEFINE d == [drawer EXCEPT !.moved = TRUE]
<1>2. /\ d \in OpenDrawerRecord /\ d.moved
      /\ d.form = drawer.form /\ d.shown = drawer.shown /\ d.late = drawer.late
      /\ d.busy = drawer.busy /\ d.accepted = drawer.accepted /\ d.faulted = drawer.faulted
  BY <1>1 DEF OpenDrawerRecord
<1> HIDE DEF d
<1>3. d \in Drawer /\ d # Closed
  BY <1>2, DrawerType DEF Drawer, OpenDrawerRecord
<1>4. QED
  BY <1>2, <1>3 DEF d

\* A failed request, and a refresh that fails.
LEMMA FailedShape ==
    ASSUME LegacyTypeOK, NEW k \in Slots, Failed(k)
    PROVE  /\ sends' = [sends EXCEPT ![k] = Unsent]
           /\ drawer' \in IF sends[k].attached
                          THEN {Reenabled(drawer), Reenabled(Taken(sends[k], drawer))} ELSE {drawer}
           /\ UNCHANGED <<signed, view, tenantVars, screenVars>>
BY DEF Failed, Reenabled

LEMMA LoadFailsShape ==
    ASSUME LegacyTypeOK, NEW l \in loads, LoadFails(l)
    PROVE  /\ loads' = loads \ {l}
           /\ content' = IF l.routed THEN Blank("error") ELSE content
           /\ l.settles = 0 => UNCHANGED formVars
           /\ l.settles # 0 => /\ l.settles \in Slots
                               /\ sends' = [sends EXCEPT ![l.settles] = Unsent]
                               /\ drawer' = IF sends[l.settles].attached THEN Reenabled(drawer) ELSE drawer
<1>1. l.settles \in {0} \cup Slots
  BY Pieces DEF Load
<1>2. QED
  BY <1>1 DEF LoadFails, Reenabled

LEMMA LandShape ==
    ASSUME LegacyTypeOK, NEW l \in loads, Land(l)
    PROVE  /\ loads' = loads \ {l}
           /\ content' \in Content
           /\ content'.view = l.view /\ content'.org = l.org /\ content'.late = l.outrun
           /\ content'.asked \in {NoOrg, orgId} /\ content'.hero = NoOrg
           /\ l.org \in Orgs
           /\ l.settles = 0 => UNCHANGED formVars
           /\ l.settles # 0 => /\ l.settles \in Slots
                               /\ drawer' = Closed
                               /\ sends' = [Detached(sends) EXCEPT ![l.settles] = Unsent]
<1>1. /\ l.settles \in {0} \cup Slots /\ l.view \in AllViews /\ l.org \in Orgs \cup {NoOrg}
      /\ l.outrun \in BOOLEAN
      /\ orgId \in Orgs \cup {NoOrg}
  BY Pieces, Screens DEF Load
<1>2. PICK asked \in {NoOrg, orgId} : content' = [Shows(l.view, l.org, l.outrun) EXCEPT !.asked = asked]
  BY DEF Land
<1>3. /\ content' \in Content
      /\ content'.view = l.view /\ content'.org = l.org /\ content'.late = l.outrun
      /\ content'.asked \in {NoOrg, orgId} /\ content'.hero = NoOrg
  BY <1>1, <1>2 DEF Shows, Content
<1>4. QED
  BY <1>1, <1>3 DEF Land

LEMMA MeAskedShape ==
    ASSUME LegacyTypeOK, NEW k \in Slots, MeAsked(k)
    PROVE  /\ sends[k] # Unsent /\ sends[k].pc = "post"
           /\ \E s \in Send : /\ sends' = [Detached(sends) EXCEPT ![k] = s]
                              /\ s # Unsent /\ s.pc = "me" /\ ~s.attached
                              /\ s.form = sends[k].form /\ s.form \in AsksMe
<1> DEFINE s == [sends[k] EXCEPT !.pc = "me", !.attached = FALSE]
<1>1. /\ sends[k].pc = "post" /\ sends[k] # Unsent /\ sends[k].form \in AsksMe
      /\ sends[k] \in [pc: {"post", "refresh", "me"}, form: Forms, attached: BOOLEAN]
  BY Sent DEF MeAsked
<1>2. s \in Send /\ s # Unsent
  BY <1>1, SendType, Pieces
<1>3. s.pc = "me" /\ ~s.attached /\ s.form = sends[k].form
  BY <1>1
<1>4. sends' = [Detached(sends) EXCEPT ![k] = s]
  BY DEF MeAsked
<1> HIDE DEF s
<1>5. QED
  BY <1>1, <1>2, <1>3, <1>4

LEMMA AttachedDrawer ==
    ASSUME IInv, NEW k \in Slots, sends[k].pc # "none", sends[k].attached
    PROVE  drawer # Closed /\ sends[k] # Unsent
<1>1. sends[k] # Unsent
  BY DEF Unsent
<1>2. QED
  BY <1>1 DEF IInv, AttachedOK, Attached

LEMMA Refreshing ==
    ASSUME IInv, NEW l \in loads, l.settles # 0
    PROVE  /\ l.settles \in Slots /\ sends[l.settles].pc = "refresh" /\ sends[l.settles] # Unsent
           /\ sends[l.settles] \in [pc: {"post", "refresh", "me"}, form: Forms, attached: BOOLEAN]
<1>1. l.settles \in Slots
  BY Pieces DEF IInv, Load
<1>2. sends[l.settles].pc = "refresh"
  BY DEF IInv, LoadsOK
<1>3. QED
  BY <1>1, <1>2, SendType, Pieces DEF IInv, Unsent

LEMMA FormVarsType ==
    ASSUME IInv, [Next]_vars
    PROVE  drawer' \in Drawer /\ sends' \in [Slots -> Send]
<1> LegacyTypeOK /\ AsksOK /\ ScreenOK /\ LoadsOK
  BY DEF IInv
<1> drawer \in Drawer /\ sends \in [Slots -> Send] /\ Closed \in Drawer /\ Unsent \in Send
  BY Pieces DEF Drawer, Send
<1> OpenDrawerRecord \subseteq Drawer
  BY DEF Drawer, OpenDrawerRecord
<1>d. Detached(sends) \in [Slots -> Send]
  BY DetachedOnly
<1>1. ASSUME NEW v \in Views, NEW o \in Orgs \cup {NoOrg}, Routing(v, o)
      PROVE  drawer' \in Drawer /\ sends' \in [Slots -> Send]
  BY <1>1, <1>d, Routed
<1>2. ASSUME NEW o \in Orgs, Choose(o) PROVE drawer' \in Drawer /\ sends' \in [Slots -> Send]
  BY <1>2 DEF Choose, formVars
<1>3. ASSUME NEW l \in loads, Land(l) PROVE drawer' \in Drawer /\ sends' \in [Slots -> Send]
  BY <1>3, <1>d, LandShape, SlotChange DEF formVars
<1>4. ASSUME NEW l \in loads, LoadFails(l) PROVE drawer' \in Drawer /\ sends' \in [Slots -> Send]
  <2>1. CASE l.settles = 0
    BY <1>4, <2>1, LoadFailsShape DEF formVars
  <2>2. CASE l.settles # 0
    <3>1. sends[l.settles].attached => drawer # Closed
      BY <2>2, Refreshing, AttachedDrawer
    <3>2. QED
      BY <1>4, <2>2, <3>1, LoadFailsShape, SlotChange, DrawerStays
  <2>3. QED
    BY <2>1, <2>2
<1>5. ASSUME NEW f \in Forms, OpenDrawer(f) PROVE drawer' \in Drawer /\ sends' \in [Slots -> Send]
  BY <1>5, OpenedType DEF OpenDrawer
<1>6. ASSUME NEW k \in Slots, ReviewAnswered(k) PROVE drawer' \in Drawer /\ sends' \in [Slots -> Send]
  <2>1. sends[k] # Unsent /\ sends[k].pc # "none"
    BY <1>6, Sent DEF ReviewAnswered
  <2>2. [sends[k] EXCEPT !.pc = "refresh"] \in Send
    BY <2>1, SendType
  <2>3. drawer' = drawer \/ (drawer # Closed /\ drawer' = Taken(sends[k], drawer))
    BY <1>6, <2>1, AttachedDrawer DEF ReviewAnswered, Taken
  <2>4. sends' = [sends EXCEPT ![k] = [sends[k] EXCEPT !.pc = "refresh"]]
    BY <1>6 DEF ReviewAnswered
  <2>5. QED
    BY <2>2, <2>3, <2>4, SlotChange, DrawerStays
<1>7. ASSUME NEW k \in Slots, NEW v \in AllViews, FormAnswered(k, v)
      PROVE  drawer' \in Drawer /\ sends' \in [Slots -> Send]
  BY <1>7, <1>d, SlotChange DEF FormAnswered
<1>8. ASSUME NEW k \in Slots, Forgotten(k) PROVE drawer' \in Drawer /\ sends' \in [Slots -> Send]
  BY <1>8, SlotChange DEF Forgotten
<1>m. ASSUME NEW k \in Slots, MeAsked(k) PROVE drawer' \in Drawer /\ sends' \in [Slots -> Send]
  <2>1. drawer' = Closed
    BY <1>m DEF MeAsked
  <2>2. QED
    BY <1>m, <1>d, <2>1, MeAskedShape, SlotChange
<1>l. ASSUME NEW k \in Slots, Listed(k) PROVE drawer' \in Drawer /\ sends' \in [Slots -> Send]
  BY <1>l, MarkedDrawer, SlotChange DEF Listed
<1>9. ASSUME NEW k \in Slots, Failed(k) PROVE drawer' \in Drawer /\ sends' \in [Slots -> Send]
  <2>1. sends[k].attached => drawer # Closed
    BY <1>9, AttachedDrawer DEF Failed
  <2>2. QED
    BY <1>9, <2>1, FailedShape, SlotChange, DrawerStays
<1>10. ASSUME DismissDrawer PROVE drawer' \in Drawer /\ sends' \in [Slots -> Send]
  BY <1>10, <1>d DEF DismissDrawer, CloseDrawer
<1>11. ASSUME Submit PROVE drawer' \in Drawer /\ sends' \in [Slots -> Send]
  <2>1. PICK k \in Slots, s \in Send : sends' = [sends EXCEPT ![k] = s] /\ drawer' \in OpenDrawerRecord
    BY <1>11, SubmitShape
  <2>2. QED
    BY <2>1, SlotChange
<1>12. ASSUME Logout \/ SignInElsewhere \/ Decorate \/ UNCHANGED vars
       PROVE  drawer' \in Drawer /\ sends' \in [Slots -> Send]
  BY <1>12 DEF Logout, SignInElsewhere, Decorate, vars, formVars
<1>13. QED
  BY <1>1, <1>2, <1>3, <1>4, <1>5, <1>6, <1>7, <1>8, <1>m, <1>l, <1>9, <1>10, <1>11, <1>12, Steps

ScreenTypeOK == PageOK /\ loads \subseteq Load /\ content \in Content

LEMMA ScreenType ==
    ASSUME IInv, [Next]_vars
    PROVE  ScreenTypeOK'
<1> LegacyTypeOK /\ AsksOK /\ ScreenOK /\ LoadsOK
  BY DEF IInv
<1> PageOK /\ loads \subseteq Load /\ content \in Content
  BY PageType, Pieces
<1>p. UNCHANGED <<signed, view, tenantVars>> => PageOK'
  BY DEF PageOK, tenantVars
<1>s. UNCHANGED screenVars => loads' \subseteq Load /\ content' \in Content
  BY DEF screenVars
<1>1. ASSUME NEW v \in Views, NEW o \in Orgs \cup {NoOrg}, Routing(v, o)
      PROVE  ScreenTypeOK'
  BY <1>1, Routed DEF Routing, ScreenTypeOK
<1>2. ASSUME NEW o \in Orgs, Choose(o) PROVE ScreenTypeOK'
  <2>1. PageOK'
    BY <1>2 DEF PageOK, Choose
  <2>2. QED
    BY <1>2, <2>1, ChosenView DEF ScreenTypeOK
<1>e. ASSUME NEW l \in loads, Land(l) \/ LoadFails(l) PROVE PageOK'
  BY <1>e, <1>p DEF Land, LoadFails
<1>3. ASSUME NEW l \in loads, Land(l) PROVE ScreenTypeOK'
  BY <1>3, <1>e, LandShape DEF ScreenTypeOK
<1>4. ASSUME NEW l \in loads, LoadFails(l) PROVE ScreenTypeOK'
  <2>1. Blank("error") \in Content
    BY DEF Blank, Shows, Content
  <2>2. QED
    BY <1>4, <1>e, <2>1, LoadFailsShape DEF ScreenTypeOK
<1>5. ASSUME NEW k \in Slots, ReviewAnswered(k) PROVE ScreenTypeOK'
  BY <1>5, <1>p, ReviewRefresh DEF ScreenTypeOK, ReviewAnswered
<1>6. ASSUME NEW k \in Slots, NEW v \in AllViews, FormAnswered(k, v)
      PROVE  ScreenTypeOK'
  BY <1>6, <1>p, FormRefresh DEF ScreenTypeOK, FormAnswered
<1>l. ASSUME NEW k \in Slots, Listed(k) PROVE ScreenTypeOK'
  BY <1>l, ListedView DEF ScreenTypeOK, Listed
<1>7. ASSUME Logout PROVE ScreenTypeOK'
  <2>1. /\ signed' \in [cookie: BOOLEAN, console: BOOLEAN] /\ ~signed'.console
        /\ listed' = {} /\ UNCHANGED <<view, remembered, orgId, screenVars>>
    BY <1>7 DEF Logout
  <2>2. PageOK'
    BY <2>1 DEF PageOK
  <2>3. QED
    BY <1>s, <2>1, <2>2 DEF ScreenTypeOK
<1>i. ASSUME SignInElsewhere PROVE ScreenTypeOK'
  <2>1. signed' \in [cookie: BOOLEAN, console: BOOLEAN] /\ signed'.console = signed.console
    BY <1>i DEF SignInElsewhere, PageOK
  <2>2. PageOK'
    BY <1>i, <2>1 DEF SignInElsewhere, PageOK, tenantVars
  <2>3. QED
    BY <1>i, <1>s, <2>2 DEF SignInElsewhere, ScreenTypeOK
<1>8. ASSUME Decorate PROVE ScreenTypeOK'
  <2>1. PICK hero \in {content.asked, NoOrg} : content' = [content EXCEPT !.asked = NoOrg, !.hero = hero]
    BY <1>8 DEF Decorate
  <2>2. hero \in Orgs \cup {NoOrg}
    BY DEF Content
  <2>3. content' \in Content
    BY <2>1, <2>2 DEF Content
  <2>4. QED
    BY <1>8, <1>p, <2>3 DEF ScreenTypeOK, Decorate
<1>9. ASSUME NEW k \in Slots, MeAsked(k) \/ Forgotten(k) \/ Failed(k) PROVE ScreenTypeOK'
  BY <1>9, <1>p, <1>s DEF ScreenTypeOK, MeAsked, Forgotten, Failed
<1>10. ASSUME NEW f \in Forms, OpenDrawer(f) PROVE ScreenTypeOK'
  BY <1>10, <1>p, <1>s DEF ScreenTypeOK, OpenDrawer
<1>11. ASSUME DismissDrawer \/ Submit \/ UNCHANGED vars PROVE ScreenTypeOK'
  BY <1>11, <1>p, <1>s DEF ScreenTypeOK, DismissDrawer, Submit, vars
<1>12. QED
  BY <1>1, <1>2, <1>3, <1>4, <1>5, <1>6, <1>l, <1>7, <1>i, <1>8, <1>9, <1>10, <1>11, Steps

LEMMA Typed ==
    ASSUME IInv, [Next]_vars
    PROVE  LegacyTypeOK'
<1>1. ScreenTypeOK' /\ drawer' \in Drawer /\ sends' \in [Slots -> Send]
  BY FormVarsType, ScreenType
<1>2. QED
  BY <1>1 DEF ScreenTypeOK, PageOK, LegacyTypeOK

-----------------------------------------------------------------------------
(* The tenant of the loads and of the screen *)

LEMMA LoadsFollow ==
    ASSUME LegacyTypeOK, LegacyTypeOK', LoadsOK,
           NEW v, NEW routed, NEW k \in {0} \cup Slots,
           \A l \in loads' : \/ \E m \in loads : OutrunOf(l, m)
                             \/ l = InFlight(v, orgId', routed, k),
           k # 0 => sends[k].pc # "refresh" /\ sends'[k].pc = "refresh",
           \A j \in Slots : sends[j].pc = "refresh" => sends'[j].pc = "refresh"
    PROVE  LoadsOK'
<1>1. \A l \in loads : l.settles \in {0} \cup Slots
  BY Pieces DEF Load
<1>2. InFlight(v, orgId', routed, k).org = orgId' /\ InFlight(v, orgId', routed, k).settles = k
  BY DEF InFlight
<1>3. \A l \in loads' : /\ l.org = orgId' \/ l.outrun
                        /\ l.settles # 0 => sends'[l.settles].pc = "refresh"
  BY <1>1, <1>2 DEF LoadsOK, OutrunOf
<1>4. ASSUME NEW l \in loads', NEW m \in loads', l.settles # 0, l.settles = m.settles
      PROVE  l = m
  <2>1. CASE l.settles = k
    <3>1. \A n \in loads : n.settles # k
      BY <1>4, <2>1 DEF LoadsOK
    <3>2. QED
      BY <1>4, <2>1, <3>1 DEF OutrunOf
  <2>2. CASE l.settles # k
    <3>1. /\ \E l0 \in loads : OutrunOf(l, l0)
          /\ \E m0 \in loads : OutrunOf(m, m0)
      BY <1>2, <1>4, <2>2
    <3>2. PICK l0 \in loads, m0 \in loads : OutrunOf(l, l0) /\ OutrunOf(m, m0)
      BY <3>1
    <3>3. l0.settles # 0 /\ l0.settles = m0.settles
      BY <1>4, <3>2 DEF OutrunOf
    <3>4. l0 = m0
      BY <3>3 DEF LoadsOK
    <3>5. QED
      BY <3>2, <3>4 DEF OutrunOf
  <2>3. QED
    BY <2>1, <2>2
<1>5. QED
  BY <1>3, <1>4 DEF LoadsOK

LEMMA LoadEnds ==
    ASSUME LegacyTypeOK, LoadsOK, NEW l \in loads, loads' = loads \ {l}, orgId' = orgId,
           \A j \in Slots : j # l.settles => sends'[j].pc = sends[j].pc
    PROVE  LoadsOK'
<1>1. \A m \in loads : m.settles \in {0} \cup Slots
  BY Pieces DEF Load
<1>2. \A m \in loads' : m.settles # 0 => m.settles # l.settles /\ m.settles \in Slots
  BY <1>1 DEF LoadsOK
<1>3. QED
  BY <1>2 DEF LoadsOK

LEMMA LoadsUntouched ==
    ASSUME LegacyTypeOK, LoadsOK, loads' = loads, orgId' = orgId,
           \A j \in Slots : sends[j].pc = "refresh" => sends'[j].pc = "refresh"
    PROVE  LoadsOK'
<1>1. \A m \in loads : m.settles \in {0} \cup Slots
  BY Pieces DEF Load
<1>2. QED
  BY <1>1 DEF LoadsOK

LEMMA LoadsStep ==
    ASSUME IInv, [Next]_vars
    PROVE  LoadsOK'
<1> LegacyTypeOK /\ LegacyTypeOK' /\ AsksOK /\ ScreenOK /\ LoadsOK
  BY Typed DEF IInv
<1> sends \in [Slots -> Send]
  BY Pieces
<1>u. Unsent \in Send /\ Unsent.pc = "none"
  BY DEF Send, Unsent
<1>d. Detached(sends) \in [Slots -> Send] /\ \A j \in Slots : Detached(sends)[j].pc = sends[j].pc
  BY DetachedOnly
<1>1. ASSUME NEW v \in Views, NEW o \in Orgs \cup {NoOrg}, Routing(v, o)
      PROVE  LoadsOK'
  <2>1. /\ \A l \in loads' : (\E m \in loads : OutrunOf(l, m)) \/ l = InFlight(v, orgId', TRUE, 0)
        /\ sends' = Detached(sends)
    BY <1>1, Routed DEF Routing
  <2>2. QED
    BY <1>d, <2>1, LoadsFollow
<1>2. ASSUME NEW o \in Orgs, Choose(o) PROVE LoadsOK'
  <2>1. /\ \A l \in loads' : (\E m \in loads : OutrunOf(l, m)) \/ l = InFlight("none", orgId', TRUE, 0)
        /\ sends' = sends
    BY <1>2, ChosenView DEF Choose, formVars
  <2>2. QED
    BY <2>1, LoadsFollow
<1>3. ASSUME NEW l \in loads, Land(l) PROVE LoadsOK'
  <2>1. loads' = loads \ {l} /\ orgId' = orgId
    BY <1>3 DEF Land, tenantVars
  <2>2. \A j \in Slots : j # l.settles => sends'[j].pc = sends[j].pc
    BY <1>3, <1>d, LandShape, <1>u, SlotChange DEF formVars
  <2>3. QED
    BY <2>1, <2>2, LoadEnds
<1>4. ASSUME NEW l \in loads, LoadFails(l) PROVE LoadsOK'
  <2>1. loads' = loads \ {l} /\ orgId' = orgId
    BY <1>4 DEF LoadFails, tenantVars
  <2>2. \A j \in Slots : j # l.settles => sends'[j].pc = sends[j].pc
    BY <1>4, LoadFailsShape, <1>u, SlotChange DEF formVars
  <2>3. QED
    BY <2>1, <2>2, LoadEnds
<1>5. ASSUME NEW k \in Slots, ReviewAnswered(k) PROVE LoadsOK'
  <2>1. \A l \in loads' : (\E m \in loads : OutrunOf(l, m)) \/ l = InFlight("transfers", orgId', FALSE, k)
    BY <1>5, ReviewRefresh
  <2>2. sends[k].pc = "post" /\ sends' = [sends EXCEPT ![k] = [sends[k] EXCEPT !.pc = "refresh"]]
    BY <1>5 DEF ReviewAnswered
  <2>3. [sends[k] EXCEPT !.pc = "refresh"].pc = "refresh" /\ [sends[k] EXCEPT !.pc = "refresh"] \in Send
    BY <2>2, Sent, SendType
  <2>4. sends'[k].pc = "refresh" /\ \A j \in Slots : j # k => sends'[j] = sends[j]
    BY <2>2, <2>3, SlotChange
  <2>5. \A j \in Slots : sends[j].pc = "refresh" => sends'[j].pc = "refresh"
    BY <2>4
  <2>6. k # 0 => sends[k].pc # "refresh" /\ sends'[k].pc = "refresh"
    BY <2>2, <2>4
  <2>7. QED
    BY <2>1, <2>5, <2>6, LoadsFollow
<1>6. ASSUME NEW k \in Slots, NEW v \in AllViews, FormAnswered(k, v)
      PROVE  LoadsOK'
  <2>1. \A l \in loads' : (\E m \in loads : OutrunOf(l, m)) \/ l = InFlight(v, orgId', FALSE, 0)
    BY <1>6, FormRefresh DEF FormAnswered
  <2>2. \A j \in Slots : sends[j].pc = "refresh" => sends'[j].pc = "refresh"
    BY <1>6, <1>d, <1>u, SlotChange DEF FormAnswered
  <2>3. QED
    BY <2>1, <2>2, LoadsFollow
<1>m. ASSUME NEW k \in Slots, MeAsked(k) PROVE LoadsOK'
  <2>1. loads' = loads /\ orgId' = orgId
    BY <1>m DEF MeAsked, tenantVars, screenVars
  <2>2. \A j \in Slots : sends[j].pc = "refresh" => sends'[j].pc = "refresh"
    BY <1>m, <1>d, MeAskedShape, SlotChange
  <2>3. QED
    BY <2>1, <2>2, LoadsUntouched
<1>l. ASSUME NEW k \in Slots, Listed(k) PROVE LoadsOK'
  <2>1. \A l \in loads' : (\E m \in loads : OutrunOf(l, m)) \/ l = InFlight("none", orgId', TRUE, 0)
    BY <1>l, ListedView
  <2>2. \A j \in Slots : sends[j].pc = "refresh" => sends'[j].pc = "refresh"
    BY <1>l, <1>u, SlotChange DEF Listed
  <2>3. QED
    BY <2>1, <2>2, LoadsFollow
<1>7. ASSUME NEW k \in Slots, Forgotten(k) \/ Failed(k) PROVE LoadsOK'
  <2>1. /\ sends[k].pc \in {"post", "me"} /\ sends' = [sends EXCEPT ![k] = Unsent]
        /\ loads' = loads /\ orgId' = orgId
    BY <1>7 DEF Forgotten, Failed, tenantVars, screenVars
  <2>2. \A j \in Slots : sends[j].pc = "refresh" => sends'[j].pc = "refresh"
    BY <2>1, <1>u, SlotChange
  <2>3. QED
    BY <2>1, <2>2, LoadsUntouched
<1>8. ASSUME Submit PROVE LoadsOK'
  <2>1. PICK k \in Slots, s \in Send :
            /\ sends[k] = Unsent /\ sends' = [sends EXCEPT ![k] = s]
            /\ UNCHANGED <<signed, view, tenantVars, screenVars>>
    BY <1>8, SubmitShape
  <2>2. \A j \in Slots : sends[j].pc = "refresh" => sends'[j].pc = "refresh"
    BY <2>1, <1>u, SlotChange
  <2>3. QED
    BY <2>1, <2>2, LoadsUntouched DEF tenantVars, screenVars
<1>9. ASSUME DismissDrawer PROVE LoadsOK'
  BY <1>9, <1>d, LoadsUntouched DEF DismissDrawer, CloseDrawer, tenantVars, screenVars
<1>10. ASSUME \/ Logout \/ SignInElsewhere \/ Decorate \/ UNCHANGED vars
              \/ \E f \in Forms : OpenDrawer(f)
       PROVE  LoadsOK'
  BY <1>10, LoadsUntouched DEF Logout, SignInElsewhere, Decorate, OpenDrawer, vars, tenantVars,
                               screenVars, formVars
<1>11. QED
  BY <1>1, <1>2, <1>3, <1>4, <1>5, <1>6, <1>m, <1>l, <1>7, <1>8, <1>9, <1>10, Steps

\* ScreenOK of a screen c and a page of tenant o.
Fits(c, o) ==
    /\ c.org \in {NoOrg, o} \/ c.late
    /\ c.hero \in {NoOrg, c.org} \/ c.late
    /\ c.asked \in {NoOrg, c.org} \/ c.late
    /\ c.view \in Asynchronous => c.org # NoOrg

LEMMA ShowsFits ==
    ASSUME NEW v \in AllViews \cup {"skeleton", "error", "unscoped"}, v \notin Asynchronous, NEW o
    PROVE  Fits(Shows(v, o, FALSE), o) /\ Fits(Shows(v, NoOrg, FALSE), o)
BY DEF Shows, Fits

LEMMA ScreenStep ==
    ASSUME IInv, [Next]_vars
    PROVE  ScreenOK'
<1> LegacyTypeOK /\ AsksOK /\ ScreenOK /\ LoadsOK
  BY DEF IInv
<1>f. Fits(content, orgId)
  BY DEF ScreenOK, Fits
<1> SUFFICES Fits(content', orgId')
  BY DEF ScreenOK, Fits
<1>u. UNCHANGED <<tenantVars, screenVars>> => Fits(content', orgId')
  BY <1>f DEF tenantVars, screenVars
<1>1. ASSUME NEW v \in Views, NEW o \in Orgs \cup {NoOrg}, Routing(v, o) PROVE Fits(content', orgId')
  BY <1>1, Routed DEF Routing, Fits
<1>2. ASSUME NEW o \in Orgs, Choose(o) PROVE Fits(content', orgId')
  <2>1. "organizations" \notin Asynchronous /\ "organizations" \in AllViews
    BY DEF Asynchronous, Synchronous, AllViews
  <2>2. QED
    BY <1>2, <2>1, ChosenView, ShowsFits
<1>3. ASSUME NEW l \in loads, Land(l) PROVE Fits(content', orgId')
  <2>1. orgId' = orgId
    BY <1>3 DEF Land, tenantVars
  <2>2. l.org \in Orgs /\ (l.org = orgId \/ l.outrun)
    BY <1>3, LandShape DEF LoadsOK
  <2>3. Fits(content', orgId)
    BY <1>3, <2>2, LandShape, LegacyAssumption DEF Fits
  <2>4. QED
    BY <2>1, <2>3
<1>4. ASSUME NEW l \in loads, LoadFails(l) PROVE Fits(content', orgId')
  <2>1. orgId' = orgId /\ content' \in {content, Blank("error")}
    BY <1>4 DEF LoadFails, tenantVars
  <2>2. "error" \notin Asynchronous
    BY DEF Asynchronous, AllViews
  <2>3. Fits(Blank("error"), orgId)
    BY <2>2, ShowsFits DEF Blank
  <2>4. QED
    BY <1>f, <2>1, <2>3
<1>5. ASSUME NEW k \in Slots, ReviewAnswered(k) PROVE Fits(content', orgId')
  BY <1>5, <1>f, ReviewRefresh
<1>6. ASSUME NEW k \in Slots, NEW v \in AllViews, FormAnswered(k, v) PROVE Fits(content', orgId')
  BY <1>6, <1>f, FormRefresh, ShowsFits
<1>l. ASSUME NEW k \in Slots, Listed(k) PROVE Fits(content', orgId')
  <2>1. "admin" \notin Asynchronous /\ "admin" \in AllViews
    BY DEF Asynchronous, Synchronous, AllViews
  <2>2. QED
    BY <1>l, <2>1, ListedView, ShowsFits
<1>7. ASSUME Decorate PROVE Fits(content', orgId')
  <2>1. PICK hero \in {content.asked, NoOrg} : content' = [content EXCEPT !.asked = NoOrg, !.hero = hero]
    BY <1>7 DEF Decorate
  <2>2. Fits(content', orgId)
    BY <2>1, <1>f, Pieces DEF Fits, Content
  <2>3. QED
    BY <1>7, <2>2 DEF Decorate, tenantVars
<1>8. ASSUME NEW k \in Slots, MeAsked(k) \/ Forgotten(k) \/ Failed(k) PROVE Fits(content', orgId')
  BY <1>8, <1>u DEF MeAsked, Forgotten, Failed
<1>9. ASSUME NEW f \in Forms, OpenDrawer(f) PROVE Fits(content', orgId')
  BY <1>9, <1>u DEF OpenDrawer
<1>10. ASSUME Logout \/ SignInElsewhere \/ DismissDrawer \/ Submit \/ UNCHANGED vars
       PROVE  Fits(content', orgId')
  BY <1>10, <1>f DEF Logout, SignInElsewhere, DismissDrawer, Submit, vars, tenantVars, screenVars
<1>11. QED
  BY <1>1, <1>2, <1>3, <1>4, <1>5, <1>6, <1>l, <1>7, <1>8, <1>9, <1>10, Steps

-----------------------------------------------------------------------------
(* The drawer *)

LEMMA FormsOfScreens ==
    ASSUME NEW v, "review" \in FormsOn(v)
    PROVE  v = "transfers"
BY DEF FormsOn, DashboardScreen, TransactionsScreen, TransfersScreen, CustomersScreen,
       IntegrationsScreen, WebhooksScreen, AccountsScreen, OrganizationsScreen, AdminScreen,
       DeveloperScreen

\* What each step does with the drawer: it closes it, keeps the form and the tenant
\* that stand there, or opens one.
DrawerKept ==
    /\ drawer'.form = drawer.form /\ drawer'.shown = drawer.shown /\ drawer'.late = drawer.late
    /\ drawer.moved => drawer'.moved

LEMMA DrawerMoves ==
    ASSUME IInv, [Next]_vars
    PROVE  \/ drawer' = Closed
           \/ /\ drawer # Closed => DrawerKept
              /\ drawer = Closed => drawer' = Closed
              /\ \/ content'.view = content.view /\ orgId' = orgId
                 \/ /\ content'.view # "organizations"
                    /\ drawer = Closed \/ orgId' = orgId \/ drawer'.moved
                 \/ content.view = "organizations"
           \/ \E f \in Forms : OpenDrawer(f)
<1> LegacyTypeOK /\ AsksOK /\ ScreenOK /\ LoadsOK
  BY DEF IInv
<1> DEFINE Kept == /\ drawer # Closed => DrawerKept
                   /\ drawer = Closed => drawer' = Closed
           Same == content'.view = content.view /\ orgId' = orgId
           Fetched == /\ content'.view # "organizations"
                      /\ drawer = Closed \/ orgId' = orgId \/ drawer'.moved
<1>e. drawer' = drawer => Kept
  BY DEF DrawerKept
<1>1. ASSUME NEW v \in Views, NEW o \in Orgs \cup {NoOrg}, Routing(v, o) PROVE drawer' = Closed
  BY <1>1, Routed
<1>2. ASSUME NEW o \in Orgs, Choose(o)
      PROVE  Kept /\ content.view = "organizations"
  BY <1>2, <1>e DEF Choose, formVars
<1>3. ASSUME NEW l \in loads, Land(l)
      PROVE  drawer' = Closed \/ (Kept /\ Fetched)
  <2>1. l.view # "organizations"
    BY Pieces DEF Load, Synchronous
  <2>2. QED
    BY <1>3, <1>e, <2>1, LandShape DEF Land, formVars, tenantVars
<1>4. ASSUME NEW l \in loads, LoadFails(l)
      PROVE  Kept /\ (Same \/ Fetched)
  <2>1. Kept
    <3>1. CASE l.settles = 0
      BY <1>4, <1>e, <3>1, LoadFailsShape DEF formVars
    <3>2. CASE l.settles # 0
      <4>1. sends[l.settles].attached => drawer # Closed
        BY <3>2, Refreshing, AttachedDrawer
      <4>2. sends[l.settles].attached => DrawerKept
        BY <1>4, <3>2, <4>1, LoadFailsShape, DrawerStays DEF DrawerKept
      <4>3. QED
        BY <1>4, <1>e, <3>2, <4>1, <4>2, LoadFailsShape
    <3>3. QED
      BY <3>1, <3>2
  <2>2. QED
    BY <1>4, <2>1 DEF LoadFails, tenantVars, Blank, Shows
<1>5. ASSUME NEW k \in Slots, ReviewAnswered(k) PROVE Kept /\ Same
  <2>1. sends[k].pc # "none"
    BY <1>5 DEF ReviewAnswered
  <2>2. drawer' = drawer \/ (drawer # Closed /\ drawer' = Taken(sends[k], drawer))
    BY <1>5, <2>1, AttachedDrawer DEF ReviewAnswered, Taken
  <2>3. Kept
    BY <1>e, <2>2, DrawerStays DEF DrawerKept
  <2>4. QED
    BY <1>5, <2>3, ReviewRefresh
<1>6. ASSUME NEW k \in Slots, NEW v \in AllViews, FormAnswered(k, v)
      PROVE  drawer' = Closed
  BY <1>6 DEF FormAnswered
<1>m. ASSUME NEW k \in Slots, MeAsked(k) PROVE drawer' = Closed
  BY <1>m DEF MeAsked
<1>l. ASSUME NEW k \in Slots, Listed(k) PROVE Kept /\ Fetched
  <2>1. content'.view # "organizations"
    BY <1>l, ListedView DEF Shows
  <2>2. CASE drawer' = drawer /\ (drawer = Closed \/ orgId' = orgId)
    BY <1>e, <2>1, <2>2
  <2>3. CASE drawer # Closed /\ drawer' = [drawer EXCEPT !.moved = TRUE]
    BY <2>1, <2>3, MarkedDrawer DEF DrawerKept
  <2>4. QED
    BY <1>l, <2>2, <2>3 DEF Listed
<1>7. ASSUME NEW k \in Slots, Forgotten(k) PROVE Kept /\ Same
  BY <1>7, <1>e DEF Forgotten, tenantVars, screenVars
<1>8. ASSUME NEW k \in Slots, Failed(k) PROVE Kept /\ Same
  <2>1. sends[k].attached => drawer # Closed
    BY <1>8, AttachedDrawer DEF Failed
  <2>2. Kept
    BY <1>8, <1>e, <2>1, FailedShape, DrawerStays DEF DrawerKept
  <2>3. QED
    BY <1>8, <2>2 DEF Failed, tenantVars, screenVars
<1>9. ASSUME DismissDrawer PROVE drawer' = Closed
  BY <1>9 DEF DismissDrawer, CloseDrawer
<1>10. ASSUME Submit PROVE Kept /\ Same
  <2>1. drawer # Closed /\ drawer \in OpenDrawerRecord
    BY <1>10, DrawerNames DEF Submit, Enabled
  <2>2. DrawerKept
    BY <1>10, <2>1 DEF Submit, OpenDrawerRecord, DrawerKept
  <2>3. QED
    BY <1>10, <2>1, <2>2 DEF Submit, tenantVars, screenVars
<1>11. ASSUME Decorate PROVE Kept /\ Same
  BY <1>11, <1>e, Pieces DEF Decorate, tenantVars, formVars, Content
<1>12. ASSUME Logout \/ SignInElsewhere \/ UNCHANGED vars PROVE Kept /\ Same
  BY <1>12, <1>e DEF Logout, SignInElsewhere, vars, tenantVars, screenVars, formVars
<1>13. QED
  <2> HIDE DEF Kept, Same, Fetched
  <2>2. CASE drawer' = Closed
    BY <2>2
  <2>3. CASE \E f \in Forms : OpenDrawer(f)
    BY <2>3
  <2>4. CASE Kept /\ Same
    BY <2>4 DEF Kept, Same
  <2>5. CASE Kept /\ content.view = "organizations"
    BY <2>5 DEF Kept
  <2>6. CASE Kept /\ Fetched
    BY <2>6 DEF Kept, Fetched
  <2>7. QED
    BY <1>1, <1>2, <1>3, <1>4, <1>5, <1>6, <1>m, <1>l, <1>7, <1>8, <1>9, <1>10, <1>11, <1>12,
       <2>2, <2>3, <2>4, <2>5, <2>6, Steps

LEMMA ReviewStep ==
    ASSUME IInv, [Next]_vars
    PROVE  ReviewOK'
<1> LegacyTypeOK /\ ScreenOK /\ ReviewOK
  BY DEF IInv
<1>c. Closed.form # "review"
  BY DEF Closed
<1>1. CASE drawer' = Closed
  BY <1>1, <1>c DEF ReviewOK
<1>2. CASE /\ drawer # Closed => DrawerKept
           /\ drawer = Closed => drawer' = Closed
           /\ \/ content'.view = content.view /\ orgId' = orgId
              \/ /\ content'.view # "organizations"
                 /\ drawer = Closed \/ orgId' = orgId \/ drawer'.moved
              \/ content.view = "organizations"
  BY <1>1, <1>2 DEF ReviewOK, DrawerKept
<1>3. ASSUME NEW f \in Forms, OpenDrawer(f) PROVE ReviewOK'
  <2>1. /\ drawer' = Opened(f) /\ content' = content /\ orgId' = orgId /\ f \in FormsOn(content.view)
        /\ content.view \in AllViews \cup {"skeleton", "error", "unscoped"}
    BY <1>3, Pieces DEF OpenDrawer, tenantVars, screenVars, Content
  <2>2. f = "review" => content.view = "transfers"
    BY <2>1, FormsOfScreens
  <2>3. f = "review" => content.org = orgId \/ content.late
    BY <2>2 DEF ScreenOK, Asynchronous, AllViews, Synchronous
  <2>4. QED
    BY <2>1, <2>2, <2>3, OpenedType DEF ReviewOK
<1>4. QED
  BY <1>1, <1>2, <1>3, DrawerMoves

\* Only Submit sends a request, that of the form in the drawer; every other step
\* keeps the form of a request, or forgets it.
SameForm(s, t) == t # Unsent => s # Unsent /\ t.form = s.form

LEMMA OneSends ==
    ASSUME IInv, [Next]_vars
    PROVE  \A k \in Slots : \/ SameForm(sends[k], sends'[k])
                            \/ Submit /\ drawer # Closed /\ sends'[k].form = drawer.form
<1> LegacyTypeOK /\ AsksOK /\ ScreenOK
  BY DEF IInv
<1> sends \in [Slots -> Send] /\ Unsent \in Send
  BY Pieces DEF Send
<1>d. Detached(sends) \in [Slots -> Send] /\ \A k \in Slots : SameForm(sends[k], Detached(sends)[k])
  BY DetachedOnly DEF SameForm
<1> DEFINE Goal == \A k \in Slots : SameForm(sends[k], sends'[k])
<1>u. sends' = sends \/ sends' = Detached(sends) => Goal
  BY <1>d DEF SameForm
<1>f. \A k \in Slots : \/ sends' = [sends EXCEPT ![k] = Unsent]
                       \/ sends' = [Detached(sends) EXCEPT ![k] = Unsent]
                       => Goal
  BY <1>d, SlotChange DEF SameForm
<1>1. ASSUME NEW v \in Views, NEW o \in Orgs \cup {NoOrg}, Routing(v, o) PROVE Goal
  BY <1>1, <1>u, Routed
<1>2. ASSUME NEW o \in Orgs, Choose(o) PROVE Goal
  BY <1>2, <1>u DEF Choose, formVars
<1>3. ASSUME NEW l \in loads, Land(l) PROVE Goal
  BY <1>3, <1>u, <1>f, LandShape DEF formVars
<1>4. ASSUME NEW l \in loads, LoadFails(l) PROVE Goal
  BY <1>4, <1>u, <1>f, LoadFailsShape DEF formVars
<1>5. ASSUME NEW k \in Slots, ReviewAnswered(k) PROVE Goal
  <2> DEFINE s == [sends[k] EXCEPT !.pc = "refresh"]
  <2>1. sends[k] # Unsent /\ s \in Send /\ s.form = sends[k].form
    BY <1>5, Sent, SendType DEF ReviewAnswered
  <2>2. sends' = [sends EXCEPT ![k] = s]
    BY <1>5 DEF ReviewAnswered
  <2> HIDE DEF s
  <2>3. QED
    BY <2>1, <2>2, SlotChange DEF SameForm
<1>6. ASSUME NEW k \in Slots, NEW v \in AllViews, FormAnswered(k, v)
      PROVE  Goal
  BY <1>6, <1>f DEF FormAnswered
<1>m. ASSUME NEW k \in Slots, MeAsked(k) PROVE Goal
  BY <1>m, <1>d, MeAskedShape, SlotChange DEF SameForm
<1>7. ASSUME NEW k \in Slots, Forgotten(k) \/ Failed(k) \/ Listed(k) PROVE Goal
  BY <1>7, <1>f DEF Forgotten, Failed, Listed
<1>8. ASSUME Submit
      PROVE  \A k \in Slots : \/ SameForm(sends[k], sends'[k])
                              \/ drawer # Closed /\ sends'[k].form = drawer.form
  <2>1. PICK k \in Slots, s \in Send :
            /\ sends' = [sends EXCEPT ![k] = s] /\ s.form = drawer.form /\ drawer # Closed
    BY <1>8, SubmitShape
  <2>2. QED
    BY <2>1, SlotChange DEF SameForm
<1>9. ASSUME DismissDrawer PROVE Goal
  BY <1>9, <1>u DEF DismissDrawer, CloseDrawer
<1>10. ASSUME \/ Logout \/ SignInElsewhere \/ Decorate \/ UNCHANGED vars
              \/ \E f \in Forms : OpenDrawer(f)
       PROVE  Goal
  BY <1>10, <1>u DEF Logout, SignInElsewhere, Decorate, OpenDrawer, vars, formVars
<1>11. QED
  BY <1>1, <1>2, <1>3, <1>4, <1>5, <1>6, <1>m, <1>7, <1>8, <1>9, <1>10, Steps

LEMMA AsksStep ==
    ASSUME IInv, [Next]_vars
    PROVE  AsksOK'
<1> LegacyTypeOK /\ AsksOK
  BY DEF IInv
<1> sends \in [Slots -> Send]
  BY Pieces
<1>u. Unsent \in Send /\ Unsent.pc = "none"
  BY DEF Send, Unsent
<1>d. /\ Detached(sends) \in [Slots -> Send]
      /\ \A k \in Slots : /\ Detached(sends)[k].pc = sends[k].pc
                          /\ sends[k] # Unsent => Detached(sends)[k].form = sends[k].form
  BY DetachedOnly
<1> DEFINE Asks(ss) == \A k \in Slots : ss[k].pc = "me" => ss[k].form \in AsksMe
<1>a. Asks(sends) /\ Asks(Detached(sends))
  BY <1>u, <1>d DEF AsksOK
<1>f. \A ss \in [Slots -> Send], k \in Slots, s \in Send :
         Asks(ss) /\ (s.pc = "me" => s.form \in AsksMe) => Asks([ss EXCEPT ![k] = s])
  BY SlotChange
<1> SUFFICES Asks(sends')
  BY DEF AsksOK
<1> HIDE DEF Asks
<1>1. ASSUME NEW v \in Views, NEW o \in Orgs \cup {NoOrg}, Routing(v, o) PROVE Asks(sends')
  BY <1>1, <1>a, Routed
<1>2. ASSUME NEW o \in Orgs, Choose(o) PROVE Asks(sends')
  BY <1>2, <1>a DEF Choose, formVars
<1>3. ASSUME NEW l \in loads, Land(l) \/ LoadFails(l) PROVE Asks(sends')
  BY <1>3, <1>a, <1>d, <1>f, <1>u, LandShape, LoadFailsShape DEF formVars
<1>4. ASSUME NEW k \in Slots, ReviewAnswered(k) PROVE Asks(sends')
  <2>1. sends[k] # Unsent /\ sends' = [sends EXCEPT ![k] = [sends[k] EXCEPT !.pc = "refresh"]]
    BY <1>4, Sent DEF ReviewAnswered
  <2>2. /\ [sends[k] EXCEPT !.pc = "refresh"] \in Send
        /\ [sends[k] EXCEPT !.pc = "refresh"].pc = "refresh"
    BY <2>1, SendType
  <2>3. QED
    BY <1>a, <1>f, <2>1, <2>2
<1>5. ASSUME NEW k \in Slots, NEW v \in AllViews, FormAnswered(k, v) PROVE Asks(sends')
  BY <1>5, <1>a, <1>d, <1>f, <1>u DEF FormAnswered
<1>6. ASSUME NEW k \in Slots, MeAsked(k) PROVE Asks(sends')
  BY <1>6, <1>a, <1>d, <1>f, MeAskedShape
<1>7. ASSUME NEW k \in Slots, Forgotten(k) \/ Failed(k) \/ Listed(k) PROVE Asks(sends')
  <2>1. sends' = [sends EXCEPT ![k] = Unsent]
    BY <1>7 DEF Forgotten, Failed, Listed
  <2>2. QED
    BY <1>a, <1>f, <1>u, <2>1
<1>8. ASSUME Submit PROVE Asks(sends')
  BY <1>8, <1>a, <1>f, SubmitShape
<1>9. ASSUME DismissDrawer PROVE Asks(sends')
  BY <1>9, <1>a DEF DismissDrawer, CloseDrawer
<1>10. ASSUME \/ Logout \/ SignInElsewhere \/ Decorate \/ UNCHANGED vars
              \/ \E f \in Forms : OpenDrawer(f)
       PROVE  Asks(sends')
  BY <1>10, <1>a DEF Logout, SignInElsewhere, Decorate, OpenDrawer, vars, formVars
<1>11. QED
  BY <1>1, <1>2, <1>3, <1>4, <1>5, <1>6, <1>7, <1>8, <1>9, <1>10, Steps

-----------------------------------------------------------------------------
(* The orders of a review *)

\* AttachedOK of a drawer and the requests.
Joined(s) == s # Unsent /\ s.attached

Guarded(d, ss) ==
    /\ d = Closed => \A k \in Slots : ~Joined(ss[k])
    /\ d # Closed /\ ~d.faulted =>
          /\ \A j, k \in Slots : Joined(ss[j]) /\ Joined(ss[k]) => j = k
          /\ ~d.busy => d.accepted = 0 /\ \A k \in Slots : ~Joined(ss[k])
          /\ d.accepted <= 1
          /\ \A k \in Slots : Joined(ss[k]) /\ ss[k].pc = "post" => d.accepted = 0

LEMMA GuardedAlone ==
    ASSUME NEW d, NEW ss \in [Slots -> Send], d = Closed \/ (~d.busy /\ ~d.faulted /\ d.accepted = 0),
           \A k \in Slots : ~Joined(ss[k])
    PROVE  Guarded(d, ss)
BY DEF Guarded, Closed

LEMMA GuardedLess ==
    ASSUME NEW d \in Drawer, NEW ss \in [Slots -> Send], Guarded(d, ss), NEW k \in Slots
    PROVE  Guarded(d, [ss EXCEPT ![k] = Unsent])
<1>1. Unsent \in Send /\ ~Joined(Unsent)
  BY DEF Joined, Send
<1>2. \A j \in Slots : \/ [ss EXCEPT ![k] = Unsent][j] = ss[j]
                       \/ ~Joined([ss EXCEPT ![k] = Unsent][j])
  BY <1>1, SlotChange
<1>3. QED
  BY <1>2 DEF Guarded

LEMMA AttachedStep ==
    ASSUME IInv, [Next]_vars
    PROVE  AttachedOK'
<1> LegacyTypeOK /\ AsksOK /\ ScreenOK
  BY DEF IInv
<1> drawer \in Drawer /\ sends \in [Slots -> Send] /\ Unsent \in Send
  BY Pieces DEF Send
<1>g. Guarded(drawer, sends)
  BY DEF IInv, AttachedOK, Attached, Guarded, Joined
<1> SUFFICES Guarded(drawer', sends')
  BY DEF AttachedOK, Attached, Guarded, Joined
<1>d. Detached(sends) \in [Slots -> Send] /\ \A k \in Slots : ~Joined(Detached(sends)[k])
  BY DetachedOnly DEF Joined
<1>c. Guarded(Closed, Detached(sends))
  BY <1>d DEF Guarded
<1>k. Closed \in Drawer
  BY DEF Drawer
<1>l. \A k \in Slots : /\ Guarded(Closed, [Detached(sends) EXCEPT ![k] = Unsent])
                       /\ Guarded(drawer, [sends EXCEPT ![k] = Unsent])
  BY <1>g, <1>d, <1>c, <1>k, GuardedLess
<1>f. \A e \in OpenDrawerRecord, ss \in [Slots -> Send] : e.faulted => Guarded(e, ss)
  <2>1. \A e \in OpenDrawerRecord : e # Closed
    BY DrawerType DEF Drawer, OpenDrawerRecord
  <2>2. QED
    BY <2>1 DEF Guarded
<1>1. ASSUME NEW v \in Views, NEW o \in Orgs \cup {NoOrg}, Routing(v, o) PROVE Guarded(drawer', sends')
  BY <1>1, <1>c, Routed
<1>2. ASSUME NEW o \in Orgs, Choose(o) PROVE Guarded(drawer', sends')
  BY <1>2, <1>g DEF Choose, formVars
<1>3. ASSUME NEW l \in loads, Land(l) PROVE Guarded(drawer', sends')
  BY <1>3, <1>g, <1>l, LandShape DEF formVars
<1>r. ASSUME drawer # Closed, NEW s PROVE \A e \in {Reenabled(drawer), Reenabled(Taken(s, drawer))} :
                                             e \in OpenDrawerRecord /\ e.faulted
  <2>1. drawer \in OpenDrawerRecord /\ Taken(s, drawer) \in OpenDrawerRecord
    BY <1>r, DrawerNames, TakenType
  <2>2. Taken(s, drawer) \in Drawer
    BY <2>1 DEF Drawer, OpenDrawerRecord
  <2>3. Reenabled(drawer) \in OpenDrawerRecord /\ Reenabled(drawer).faulted
    BY <2>1, DrawerType
  <2>4. Reenabled(Taken(s, drawer)) \in OpenDrawerRecord /\ Reenabled(Taken(s, drawer)).faulted
    BY <2>1, <2>2, DrawerType
  <2>5. QED
    BY <2>3, <2>4
<1>4. ASSUME NEW l \in loads, LoadFails(l) PROVE Guarded(drawer', sends')
  <2>1. CASE l.settles = 0
    BY <1>4, <1>g, <2>1, LoadFailsShape DEF formVars
  <2>2. CASE l.settles # 0 /\ sends[l.settles].attached
    <3>1. drawer # Closed
      BY <2>2, Refreshing, AttachedDrawer
    <3>2. drawer' = Reenabled(drawer) /\ sends' \in [Slots -> Send]
      BY <1>4, <2>2, LoadFailsShape, SlotChange
    <3>3. QED
      BY <1>f, <1>r, <3>1, <3>2
  <2>3. CASE l.settles # 0 /\ ~sends[l.settles].attached
    BY <1>4, <1>l, <2>3, LoadFailsShape
  <2>4. QED
    BY <2>1, <2>2, <2>3
<1>5. ASSUME NEW f \in Forms, OpenDrawer(f) PROVE Guarded(drawer', sends')
  <2>1. drawer = Closed /\ drawer' = Opened(f) /\ sends' = sends
    BY <1>5 DEF OpenDrawer
  <2>2. \A k \in Slots : ~Joined(sends[k])
    BY <1>g, <2>1 DEF Guarded
  <2>3. QED
    BY <2>1, <2>2, OpenedType, GuardedAlone
<1>6. ASSUME NEW k \in Slots, ReviewAnswered(k) PROVE Guarded(drawer', sends')
  <2> DEFINE s == [sends[k] EXCEPT !.pc = "refresh"]
  <2>1. /\ sends[k].pc = "post" /\ sends[k] # Unsent
        /\ sends[k] \in [pc: {"post", "refresh", "me"}, form: Forms, attached: BOOLEAN]
    BY <1>6, Sent DEF ReviewAnswered
  <2>2. s \in Send /\ s.pc = "refresh" /\ s.attached = sends[k].attached /\ s # Unsent
    BY <2>1, SendType
  <2>3. sends' = [sends EXCEPT ![k] = s] /\ drawer' = Taken(sends[k], drawer)
    BY <1>6 DEF ReviewAnswered
  <2> HIDE DEF s
  <2>4. /\ sends'[k] = s /\ \A j \in Slots : j # k => sends'[j] = sends[j]
    BY <2>2, <2>3, SlotChange
  <2>5. \A j \in Slots : Joined(sends'[j]) = Joined(sends[j])
    BY <2>1, <2>2, <2>4 DEF Joined
  <2>6. CASE ~sends[k].attached
    <3>1. drawer' = drawer
      BY <2>3, <2>6 DEF Taken
    <3>2. QED
      BY <1>g, <2>2, <2>4, <2>5, <3>1 DEF Guarded
  <2>7. CASE sends[k].attached
    <3>1. Joined(sends[k])
      BY <2>1, <2>7 DEF Joined
    <3>2. drawer # Closed /\ drawer \in OpenDrawerRecord
      BY <1>g, <3>1, DrawerNames DEF Guarded
    <3>3. /\ drawer' \in OpenDrawerRecord
          /\ drawer'.busy = drawer.busy /\ drawer'.faulted = drawer.faulted
          /\ drawer'.accepted = drawer.accepted \/ drawer'.accepted = drawer.accepted + 1
      BY <2>3, <3>2, TakenType
    <3>4. drawer' # Closed
      BY <3>3, DrawerType DEF Drawer, OpenDrawerRecord
    <3>5. ASSUME ~drawer.faulted
          PROVE  /\ \A i, j \in Slots : Joined(sends'[i]) /\ Joined(sends'[j]) => i = j
                 /\ drawer.busy /\ drawer'.accepted <= 1
                 /\ \A j \in Slots : Joined(sends'[j]) => sends'[j].pc = "refresh"
      <4>1. /\ \A i, j \in Slots : Joined(sends[i]) /\ Joined(sends[j]) => i = j
            /\ drawer.busy /\ drawer.accepted = 0
        BY <1>g, <2>1, <3>1, <3>2, <3>5 DEF Guarded
      <4>2. QED
        BY <2>2, <2>4, <2>5, <3>1, <3>3, <4>1
    <3>6. QED
      BY <3>3, <3>4, <3>5 DEF Guarded
  <2>8. QED
    BY <2>6, <2>7
<1>7. ASSUME NEW k \in Slots, NEW v \in AllViews, FormAnswered(k, v)
      PROVE  Guarded(drawer', sends')
  BY <1>7, <1>l DEF FormAnswered
<1>8. ASSUME NEW k \in Slots, Forgotten(k) PROVE Guarded(drawer', sends')
  BY <1>8, <1>l DEF Forgotten
<1>m. ASSUME NEW k \in Slots, MeAsked(k) PROVE Guarded(drawer', sends')
  <2>1. drawer' = Closed
    BY <1>m DEF MeAsked
  <2>2. \A j \in Slots : ~Joined(sends'[j])
    BY <1>m, <1>d, MeAskedShape, SlotChange DEF Joined
  <2>3. QED
    BY <2>1, <2>2 DEF Guarded
<1>n. ASSUME NEW k \in Slots, Listed(k) PROVE Guarded(drawer', sends')
  <2>1. Guarded(drawer, sends')
    BY <1>n, <1>l DEF Listed
  <2>2. CASE drawer' = drawer
    BY <2>1, <2>2
  <2>3. CASE drawer # Closed /\ drawer' = [drawer EXCEPT !.moved = TRUE]
    <3>1. /\ drawer' # Closed /\ drawer'.busy = drawer.busy
          /\ drawer'.accepted = drawer.accepted /\ drawer'.faulted = drawer.faulted
      BY <2>3, MarkedDrawer
    <3>2. QED
      BY <2>1, <2>3, <3>1 DEF Guarded
  <2>4. QED
    BY <1>n, <2>2, <2>3 DEF Listed
<1>9. ASSUME NEW k \in Slots, Failed(k) PROVE Guarded(drawer', sends')
  <2>1. CASE sends[k].attached
    <3>1. drawer # Closed
      BY <1>9, <2>1, AttachedDrawer DEF Failed
    <3>2. drawer' \in {Reenabled(drawer), Reenabled(Taken(sends[k], drawer))} /\ sends' \in [Slots -> Send]
      BY <1>9, <2>1, FailedShape, SlotChange
    <3>3. QED
      BY <1>f, <1>r, <3>1, <3>2
  <2>2. CASE ~sends[k].attached
    BY <1>9, <1>l, <2>2, FailedShape
  <2>3. QED
    BY <2>1, <2>2
<1>10. ASSUME Submit PROVE Guarded(drawer', sends')
  <2>1. PICK k \in Slots, s \in Send :
            /\ sends' = [sends EXCEPT ![k] = s] /\ sends[k] = Unsent
            /\ drawer # Closed /\ ~drawer.busy /\ drawer' = [drawer EXCEPT !.busy = TRUE]
    BY <1>10, SubmitShape
  <2>2. drawer \in OpenDrawerRecord
    BY <2>1, DrawerNames
  <2>3. /\ drawer'.busy /\ drawer'.faulted = drawer.faulted /\ drawer'.accepted = drawer.accepted
        /\ drawer'.form = drawer.form
    BY <2>1, <2>2 DEF OpenDrawerRecord
  <2>4. drawer'.form # "none"
    BY <2>1, <2>3, DrawerType
  <2>5. drawer' # Closed
    BY <2>4 DEF Closed
  <2>6. ~drawer.faulted => drawer.accepted = 0 /\ \A j \in Slots : ~Joined(sends[j])
    BY <1>g, <2>1 DEF Guarded
  <2>7. \A j \in Slots : j # k => sends'[j] = sends[j]
    BY <2>1, SlotChange
  <2>8. QED
    BY <2>3, <2>5, <2>6, <2>7 DEF Guarded
<1>11. ASSUME DismissDrawer PROVE Guarded(drawer', sends')
  BY <1>11, <1>c DEF DismissDrawer, CloseDrawer
<1>12. ASSUME Logout \/ SignInElsewhere \/ Decorate \/ UNCHANGED vars PROVE Guarded(drawer', sends')
  BY <1>12, <1>g DEF Logout, SignInElsewhere, Decorate, vars, formVars
<1>13. QED
  BY <1>1, <1>2, <1>3, <1>4, <1>5, <1>6, <1>7, <1>8, <1>m, <1>n, <1>9, <1>10, <1>11, <1>12, Steps

-----------------------------------------------------------------------------
(* Theorems *)

LEMMA Inductive == Spec => []IInv
<1>1. Init => IInv
  <2> SUFFICES ASSUME Init PROVE IInv
    OBVIOUS
  <2> USE DEF Init
  <2>2. view \in Views
    BY LegacyAssumption
  <2>3. content \in Content /\ content.view = "skeleton" /\ content.org = NoOrg
        /\ content.hero = NoOrg /\ content.asked = NoOrg
    BY DEF Content, Blank, Shows
  <2>4. LegacyTypeOK
    BY <2>2, <2>3 DEF LegacyTypeOK, Drawer, Send
  <2>5. "skeleton" \notin Asynchronous
    BY DEF Asynchronous, AllViews
  <2>6. LoadsOK /\ ScreenOK
    BY <2>3, <2>5 DEF LoadsOK, ScreenOK
  <2>7. ReviewOK /\ AsksOK /\ AttachedOK
    BY DEF ReviewOK, AsksOK, Unsent, AttachedOK, Attached, Closed
  <2>8. QED
    BY <2>4, <2>6, <2>7 DEF IInv
<1>2. IInv /\ [Next]_vars => IInv'
  BY Typed, LoadsStep, ScreenStep, ReviewStep, AsksStep, AttachedStep DEF IInv
<1>3. QED
  BY <1>1, <1>2, PTL DEF Spec

\* Every variable keeps to its values: no answer, however late, leaves a screen, a
\* drawer or a request of a kind the page does not know (app.js, product-v2.js).
THEOREM LegacyTypeCorrect == Spec => []LegacyTypeOK
<1>1. IInv => LegacyTypeOK
  BY DEF IInv
<1>2. QED
  BY <1>1, Inductive, PTL

\* The content and the decorated balance are those of the tenant that requests name,
\* except for answers known to be late, however many loads overlap and however the
\* tenant is changed (loadView, refreshMe, showApp, decorateDashboardBalance).
THEOREM TenantFollowed == Spec => []ScreenFollowsTenant
<1>1. IInv => ScreenFollowsTenant
  BY DEF IInv, ScreenOK, ScreenFollowsTenant
<1>2. QED
  BY <1>1, Inductive, PTL

\* A review whose drawer has reported no error is accepted at most once, whatever
\* was sent before it from drawers that were dismissed (openReview).
THEOREM AcceptedOnce == Spec => []AcceptedTwiceOnlyAfterError
<1>1. IInv => AcceptedTwiceOnlyAfterError
  <2> SUFFICES ASSUME IInv, drawer # Closed, ~drawer.faulted, drawer.accepted > 1 PROVE FALSE
    BY DrawerNames DEF AcceptedTwiceOnlyAfterError, IInv, OpenDrawerRecord
  <2>1. drawer.accepted <= 1 /\ drawer.accepted \in Nat
    BY DrawerNames, LegacyAssumption DEF IInv, AttachedOK, OpenDrawerRecord
  <2>2. QED
    BY <2>1
<1>2. QED
  BY <1>1, Inductive, PTL

\* An order leaves the tenant whose screen the review was composed on, although it
\* names the tenant of the page only when it is confirmed (headers, openReview);
\* unless the list of tenants came back without that one in between.
THEOREM OrdersLeave == Spec => OrdersLeaveTheTenantShown
<1>1. IInv /\ [Next]_vars =>
          [\A k \in Slots : sends[k] = Unsent /\ sends'[k] # Unsent /\ sends'[k].form = "review" =>
               orgId = drawer.shown \/ drawer.late \/ drawer.moved]_vars
  <2> SUFFICES ASSUME IInv, [Next]_vars, NEW k \in Slots,
                      sends[k] = Unsent, sends'[k] # Unsent, sends'[k].form = "review"
               PROVE  orgId = drawer.shown \/ drawer.late \/ drawer.moved
    OBVIOUS
  <2>1. drawer.form = "review"
    BY OneSends DEF SameForm
  <2>2. QED
    BY <2>1 DEF IInv, ReviewOK
<1>2. QED
  BY <1>1, Inductive, PTL DEF Spec, OrdersLeaveTheTenantShown

=============================================================================
