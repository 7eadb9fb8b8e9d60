------------------------------- MODULE Gateway -------------------------------
(***************************************************************************)
(* The payment handlers of Flash Pag around the Ledger: creation of        *)
(* charges and outbound payments under an idempotency key, provider        *)
(* callbacks, and reconciliation, running concurrently, each database or   *)
(* provider call a step of its own.  A call may fail before it has an      *)
(* effect, or after (the answer is lost); a handler may stop for good      *)
(* between two calls (its process dies, or its client disconnects and the  *)
(* request context cancels every later call).                              *)
(*                                                                         *)
(* Each request draws a fresh UUID for its transaction, so a request is    *)
(* named by it: TxIds is also the set of create requests.                  *)
(***************************************************************************)
EXTENDS Ledger

CONSTANTS
    Keys,           \* idempotency keys the clients send
    RequestKinds,   \* operations they ask for
    Callbacks,      \* concurrent provider callback handlers
    Reconcilers,    \* concurrent reconciliation handlers
    MaxFaults,      \* bound on failed calls, lost answers and dead handlers
    NoKey           \* an idempotency key not claimed yet

VARIABLES
    req,        \* create handlers: where each one is and what it has read
    idem,       \* api_idempotency_keys, by operation and key
    order,      \* what the provider knows of each operation id
    evidence,   \* provider_events, by transaction and reported status
    callback,   \* provider callback handlers
    reconcile,  \* reconciliation handlers
    sent,       \* merchant events enqueued per transaction, by status
    faults      \* faults so far

handlers == <<req, callback, reconcile>>
vars == <<ledgerVars, handlers, idem, order, evidence, sent, faults>>

Reports == {"pending", "succeeded", "failed"}
Places == {"begin", "call", "store", "apply", "fetch", "finish", "notify",
           "reject", "reject_finish", "reject_notify", "unknown", "unknown_finish"}

\* A create request: not sent yet; running, with its operation, key and body
\* (the amount stands for the fingerprint), the provider's answer and the
\* status it last fetched; and done, with what it told the client: a new
\* transaction (201), a stored one (200), a refusal (4xx), or a server error or
\* an ambiguous outcome (5xx, or no answer).
New == [pc |-> "new"]
Running == [pc: Places, kind: RequestKinds, key: Keys, amount: Amounts,
            result: Reports, seen: Statuses \cup {"none"}]
Replies == {"created", "replayed", "refused", "unknown"}
Done == [pc: {"done"}, kind: RequestKinds, key: Keys, reply: Replies]
Request == {New} \cup Running \cup Done

KeyRow == [amount: Amounts, tx: TxIds, response: Statuses \cup {"none"},
           status: {"processing", "succeeded", "failed_final", "ambiguous"}]
Orders == {"none", "open", "paid", "refused"}

\* The handlers serve the kinds of the ledger.
ASSUME GatewayAssumption ==
    /\ RequestKinds \subseteq Kinds
    /\ MaxFaults \in Nat
    /\ NoKey \notin KeyRow

Idle == [pc |-> "idle"]
Callback == {Idle} \cup [pc: {"find", "apply", "notify", "mark"}, tx: TxIds, report: Reports]
Reconcile == {Idle} \cup
    [pc: {"lookup", "apply", "notify"}, tx: TxIds, report: Reports, before: Statuses \ Terminal]

-----------------------------------------------------------------------------
(* Faults *)

Fault == faults < MaxFaults /\ faults' = faults + 1

\* A call with this effect: it works and the handler goes on as ok says, or it
\* fails, before or after the effect, and the handler goes on as failed says.
Attempt(effect, noEffect, ok, failed) ==
    \/ effect /\ ok /\ UNCHANGED faults
    \/ Fault /\ failed /\ (effect \/ noEffect)

-----------------------------------------------------------------------------
(* The provider, modelled from what the adapters accept of it *)

Truth == [open |-> "pending", paid |-> "succeeded", refused |-> "failed"]

\* What a lookup of t returns: its present state, or with an adapter that
\* answers a status of its own (mock), anything.
LookupsOf(t) == IF ProvidersAgree THEN {Truth[order[t]]} ELSE Reports

\* The events of t that may arrive: those of its present and its past states,
\* or with an adapter that takes any status from a signed callback, anything.
EventsOf(t) ==
    IF order[t] = "none" THEN {}
    ELSE IF ProvidersAgree THEN {"pending", Truth[order[t]]} ELSE Reports

\* The provider executes or refuses a payment it has accepted.
Resolve(t) ==
    /\ order[t] = "open"
    /\ order' \in {[order EXCEPT ![t] = "paid"], [order EXCEPT ![t] = "refused"]}
    /\ UNCHANGED <<ledgerVars, handlers, idem, evidence, sent, faults>>

-----------------------------------------------------------------------------
(* Helpers shared by the handlers *)

\* applyProviderStatus(t, report): the calls that change the row, those that
\* find nothing to do, and the ones the database refuses.
ApplyRaises(t, report) ==
    \/ report = "succeeded" /\ txn[t].status = "failed"
    \/ report = "failed" /\ txn[t].kind # "pix_in" /\ txn[t].status = "succeeded"

ApplyIdles(t, report) ==
    \/ report = "pending"
    \/ report = "succeeded" /\ txn[t].status = "succeeded"
    \/ report = "failed" /\ txn[t].kind # "pix_in" /\ txn[t].status = "failed"

ApplyStatus(t, report) ==
    \/ report = "succeeded" /\ (SettlePixIn(t) \/ CompleteOutbound(t))
    \/ report = "failed" /\ IF txn[t].kind = "pix_in" THEN PatchStatus(t, "failed") ELSE FailOutbound(t)
    \/ ApplyIdles(t, report) /\ UNCHANGED ledgerVars

\* enqueueTransactionWebhook: read the row again and enqueue its status; every
\* error is ignored.  Only events of a final status are kept.
Enqueue(t) == sent' = [sent EXCEPT ![t] = @ \cup ({txn[t].status} \cap Terminal)]
Notify(t, next) == Attempt(Enqueue(t), UNCHANGED sent, next, next)

-----------------------------------------------------------------------------
(* createChargeForOrg and createOutboundForOrg *)

Step(r, pc) == req' = [req EXCEPT ![r].pc = pc]
DoneBy(kind, key, reply) == [pc |-> "done", kind |-> kind, key |-> key, reply |-> reply]
Answer(r, reply) == req' = [req EXCEPT ![r] = DoneBy(@.kind, @.key, reply)]
KeyOf(r) == <<req[r].kind, req[r].key>>

\* Mutant: an ambiguous key may be claimed again, to retry the payment.
ClaimFirst_RetriesAmbiguous(r, kind, key, amount) ==
    /\ idem[<<kind, key>>] # NoKey => idem[<<kind, key>>].status = "ambiguous"
    /\ idem' = [idem EXCEPT ![<<kind, key>>] =
                   [amount |-> amount, tx |-> r, status |-> "processing", response |-> "none"]]
    /\ req' = [req EXCEPT ![r] = [pc |-> "begin", kind |-> kind, key |-> key, amount |-> amount,
                                  result |-> "pending", seen |-> "none"]]
    /\ UNCHANGED faults

\* claim_idempotency: the first request inserts the row, later ones are told
\* how the first one stands.
ClaimFirst(r, kind, key, amount) ==
    /\ idem[<<kind, key>>] = NoKey
    /\ Attempt(idem' = [idem EXCEPT ![<<kind, key>>] =
                   [amount |-> amount, tx |-> r, status |-> "processing", response |-> "none"]],
               UNCHANGED idem,
               req' = [req EXCEPT ![r] = [pc |-> "begin", kind |-> kind, key |-> key, amount |-> amount,
                                          result |-> "pending", seen |-> "none"]],
               req' = [req EXCEPT ![r] = DoneBy(kind, key, "unknown")])

ClaimAgain(r, kind, key, amount) ==
    LET row == idem[<<kind, key>>]
        replay == row.amount = amount /\ row.status \in {"succeeded", "failed_final"}
        Told(reply) == req' = [req EXCEPT ![r] = DoneBy(kind, key, reply)]
    IN  /\ row # NoKey
        /\ \/ Told(IF replay THEN "replayed" ELSE "refused") /\ UNCHANGED faults
           \/ Fault /\ Told("unknown")
        /\ UNCHANGED idem

Claim(r) ==
    /\ req[r] = New
    /\ \E kind \in RequestKinds, key \in Keys, amount \in Amounts :
          ClaimFirst(r, kind, key, amount) \/ ClaimAgain(r, kind, key, amount)
    /\ UNCHANGED <<ledgerVars, callback, reconcile, order, evidence, sent>>

\* begin_pix_in or begin_outbound; any error ends the request with 422 and
\* leaves its key as it is.
BeginPayment(r) ==
    \E a \in Accounts :
        LET me == req[r]
            v  == Len(pricing)
            Begins == IF me.kind = "pix_in" THEN BeginPixIn(r, a, me.amount, v)
                                            ELSE BeginOutbound(r, a, me.kind, me.amount, v)
            Accepted == IF me.kind = "pix_in" THEN CanBeginPixIn(r, a, me.amount, v)
                                              ELSE CanBeginOutbound(r, a, me.kind, me.amount, v)
        IN  /\ me.pc = "begin"
            /\ IF Accepted
               THEN Attempt(Begins, UNCHANGED ledgerVars, Step(r, "call"), Answer(r, "refused"))
               ELSE Answer(r, "refused") /\ UNCHANGED <<ledgerVars, faults>>
            /\ UNCHANGED <<callback, reconcile, idem, order, evidence, sent>>

\* CreateCharge or CreateTransfer: the provider accepts the operation id and
\* reports a status, rejects it for good (a FinalError: HTTP 4xx or a local
\* check), or no answer tells which of the two it was.
CallProvider(r) ==
    /\ req[r].pc = "call"
    /\ \/ \E o \in {"open", "paid", "refused"} :
            /\ order' = [order EXCEPT ![r] = o]
            /\ req' = [req EXCEPT ![r].pc = "store", ![r].result = Truth[o]]
            /\ UNCHANGED faults
       \/ Step(r, "reject") /\ UNCHANGED <<order, faults>>
       \/ /\ Fault
          /\ Step(r, "unknown")
          /\ order' \in {order, [order EXCEPT ![r] = "open"]}
    /\ UNCHANGED <<ledgerVars, callback, reconcile, idem, evidence, sent>>

\* Store the provider's id (and QR code, payload).
StoreExternalId(r) ==
    /\ req[r].pc = "store"
    /\ Attempt(PatchExternalId(r), UNCHANGED ledgerVars,
               Step(r, IF req[r].result = "pending" THEN "fetch" ELSE "apply"), Answer(r, "unknown"))
    /\ UNCHANGED <<callback, reconcile, idem, order, evidence, sent>>

\* The provider answered with a final status already.
ApplyResult(r) ==
    /\ req[r].pc = "apply"
    /\ IF ApplyRaises(r, req[r].result)
       THEN Answer(r, "unknown") /\ UNCHANGED <<ledgerVars, faults>>
       ELSE Attempt(ApplyStatus(r, req[r].result), UNCHANGED ledgerVars, Step(r, "fetch"), Answer(r, "unknown"))
    /\ UNCHANGED <<callback, reconcile, idem, order, evidence, sent>>

FetchRow(r) ==
    /\ req[r].pc = "fetch"
    /\ \/ /\ req' = [req EXCEPT ![r].pc = "finish", ![r].seen = txn[r].status]
          /\ UNCHANGED faults
       \/ Fault /\ Answer(r, "unknown")
    /\ UNCHANGED <<ledgerVars, callback, reconcile, idem, order, evidence, sent>>

\* Mutant: the two arguments are swapped.
FinishKey_Swapped(r, status, response) ==
    idem' = [idem EXCEPT ![KeyOf(r)].status = response, ![KeyOf(r)].response = status]

\* finish_idempotency: the row's new status and the response to replay.
FinishKey(r, status, response) ==
    idem' = [idem EXCEPT ![KeyOf(r)].status = status, ![KeyOf(r)].response = response]

FinishCreated(r) ==
    /\ req[r].pc = "finish"
    /\ Attempt(FinishKey(r, "succeeded", req[r].seen), UNCHANGED idem, Step(r, "notify"), Answer(r, "unknown"))
    /\ UNCHANGED <<ledgerVars, callback, reconcile, order, evidence, sent>>

NotifyCreated(r) ==
    /\ req[r].pc = "notify"
    /\ Notify(r, Answer(r, "created"))
    /\ UNCHANGED <<ledgerVars, callback, reconcile, idem, order, evidence>>

\* The provider refused for good: release the funds or fail the charge, and
\* close the key; errors of these calls are ignored.
Reject(r) ==
    /\ req[r].pc = "reject"
    /\ Attempt(IF req[r].kind = "pix_in" THEN PatchStatus(r, "failed") ELSE FailOutbound(r),
               UNCHANGED ledgerVars, Step(r, "reject_finish"), Step(r, "reject_finish"))
    /\ UNCHANGED <<callback, reconcile, idem, order, evidence, sent>>

\* Mutant: the handler answers without enqueueing the event.
FinishRejected_Silent(r) ==
    /\ req[r].pc = "reject_finish"
    /\ Attempt(FinishKey(r, "failed_final", txn[r].status), UNCHANGED idem,
               Answer(r, "refused"), Answer(r, "refused"))
    /\ UNCHANGED <<ledgerVars, callback, reconcile, order, evidence, sent>>

\* The fetch of the row for the response may fail; the response is then empty
\* and no event follows.  No other handler can reach a row without an external
\* id, so the fetch and the call that stores it are one step.
FinishRejected(r) ==
    /\ req[r].pc = "reject_finish"
    /\ \/ Attempt(FinishKey(r, "failed_final", txn[r].status), UNCHANGED idem,
                  Step(r, "reject_notify"), Step(r, "reject_notify"))
       \/ Fault /\ FinishKey(r, "failed_final", "none") /\ Answer(r, "refused")
    /\ UNCHANGED <<ledgerVars, callback, reconcile, order, evidence, sent>>

\* Mutant: the handler waits for the row to be failed.
NotifyRejected_Waits(r) ==
    /\ req[r].pc = "reject_notify"
    /\ txn[r].status = "failed"
    /\ Notify(r, Answer(r, "refused"))
    /\ UNCHANGED <<ledgerVars, callback, reconcile, idem, order, evidence>>

NotifyRejected(r) ==
    /\ req[r].pc = "reject_notify"
    /\ Notify(r, Answer(r, "refused"))
    /\ UNCHANGED <<ledgerVars, callback, reconcile, idem, order, evidence>>

\* Mutant: no answer is taken for a failure.
MarkAmbiguous_Fails(r) ==
    /\ req[r].pc = "unknown"
    /\ Attempt(IF req[r].kind = "pix_in" THEN PatchStatus(r, "failed") ELSE FailOutbound(r),
               UNCHANGED ledgerVars, Step(r, "unknown_finish"), Step(r, "unknown_finish"))
    /\ UNCHANGED <<callback, reconcile, idem, order, evidence, sent>>

\* The outcome is unknown: say so in the row and in the key, errors ignored.
MarkAmbiguous(r) ==
    /\ req[r].pc = "unknown"
    /\ Attempt(PatchStatus(r, "ambiguous"), UNCHANGED ledgerVars,
               Step(r, "unknown_finish"), Step(r, "unknown_finish"))
    /\ UNCHANGED <<callback, reconcile, idem, order, evidence, sent>>

\* Mutant: the key of an unknown outcome is closed as failed.
FinishAmbiguous_AsFailed(r) ==
    /\ req[r].pc = "unknown_finish"
    /\ Attempt(FinishKey(r, "failed_final", txn[r].status), UNCHANGED idem,
               Answer(r, "unknown"), Answer(r, "unknown"))
    /\ UNCHANGED <<ledgerVars, callback, reconcile, order, evidence, sent>>

FinishAmbiguous(r) ==
    /\ req[r].pc = "unknown_finish"
    /\ \/ Attempt(FinishKey(r, "ambiguous", txn[r].status), UNCHANGED idem,
                  Answer(r, "unknown"), Answer(r, "unknown"))
       \/ Fault /\ FinishKey(r, "ambiguous", "none") /\ Answer(r, "unknown")
    /\ UNCHANGED <<ledgerVars, callback, reconcile, order, evidence, sent>>

Create(r) ==
    \/ Claim(r) \/ BeginPayment(r) \/ CallProvider(r)
    \/ StoreExternalId(r) \/ ApplyResult(r) \/ FetchRow(r) \/ FinishCreated(r) \/ NotifyCreated(r)
    \/ Reject(r) \/ FinishRejected(r) \/ NotifyRejected(r)
    \/ MarkAmbiguous(r) \/ FinishAmbiguous(r)

-----------------------------------------------------------------------------
(* providerWebhook *)

CallbackAt(c, pc) == callback' = [callback EXCEPT ![c].pc = pc]
CallbackEnds(c) == callback' = [callback EXCEPT ![c] = Idle]

\* Mutant: the evidence row is inserted as processed.
ReceiveEvent_MarksFirst(c, t, report) ==
    /\ callback[c] = Idle
    /\ report \in EventsOf(t)
    /\ evidence[<<t, report>>] # "processed"
    /\ Attempt(evidence' = [evidence EXCEPT ![<<t, report>>] = "processed"], UNCHANGED evidence,
               callback' = [callback EXCEPT ![c] = [pc |-> "find", tx |-> t, report |-> report]],
               UNCHANGED callback)
    /\ UNCHANGED <<ledgerVars, req, reconcile, idem, order, sent>>

\* A signed event arrives, maybe again: record it before anything else, and
\* acknowledge at once an event that was fully processed before.
ReceiveEvent(c, t, report) ==
    LET recorded == evidence' = [evidence EXCEPT ![<<t, report>>] = IF @ = "none" THEN "recorded" ELSE @]
    IN  /\ callback[c] = Idle
        /\ report \in EventsOf(t)
        /\ evidence[<<t, report>>] # "processed"
        /\ Attempt(recorded, UNCHANGED evidence,
                   callback' = [callback EXCEPT ![c] = [pc |-> "find", tx |-> t, report |-> report]],
                   UNCHANGED callback)
        /\ UNCHANGED <<ledgerVars, req, reconcile, idem, order, sent>>

\* Find the row by connection and external id; 404 if no row has it yet.
FindRow(c) ==
    LET t == callback[c].tx
    IN  /\ callback[c].pc = "find"
        /\ \/ /\ Exists(t) /\ txn[t].ext
              /\ CallbackAt(c, IF callback[c].report = "pending" THEN "notify" ELSE "apply")
              /\ UNCHANGED faults
           \/ /\ ~(Exists(t) /\ txn[t].ext)
              /\ CallbackEnds(c)
              /\ UNCHANGED faults
           \/ Fault /\ CallbackEnds(c)
        /\ UNCHANGED <<ledgerVars, req, reconcile, idem, order, evidence, sent>>

ApplyEvent(c) ==
    LET t == callback[c].tx
    IN  /\ callback[c].pc = "apply"
        /\ IF ApplyRaises(t, callback[c].report)
           THEN CallbackEnds(c) /\ UNCHANGED <<ledgerVars, faults>>
           ELSE Attempt(ApplyStatus(t, callback[c].report), UNCHANGED ledgerVars,
                        CallbackAt(c, "notify"), CallbackEnds(c))
        /\ UNCHANGED <<req, reconcile, idem, order, evidence, sent>>

NotifyEvent(c) ==
    /\ callback[c].pc = "notify"
    /\ Notify(callback[c].tx, CallbackAt(c, "mark"))
    /\ UNCHANGED <<ledgerVars, req, reconcile, idem, order, evidence>>

MarkProcessed(c) ==
    /\ callback[c].pc = "mark"
    /\ Attempt(evidence' = [evidence EXCEPT ![<<callback[c].tx, callback[c].report>>] = "processed"],
               UNCHANGED evidence, CallbackEnds(c), CallbackEnds(c))
    /\ UNCHANGED <<ledgerVars, req, reconcile, idem, order, sent>>

HandleCallback(c) == FindRow(c) \/ ApplyEvent(c) \/ NotifyEvent(c) \/ MarkProcessed(c)
Receive(t) == \E c \in Callbacks, report \in Reports : ReceiveEvent(c, t, report)

-----------------------------------------------------------------------------
(* consoleReconcileTransaction *)

ReconcileAt(c, pc) == reconcile' = [reconcile EXCEPT ![c].pc = pc]
ReconcileEnds(c) == reconcile' = [reconcile EXCEPT ![c] = Idle]

\* An operator asks; a finished transaction is returned as it is, and one
\* without an external id is refused (422).
OpenReconcile(c, t) ==
    /\ reconcile[c] = Idle
    /\ Exists(t) /\ txn[t].status \notin Terminal /\ txn[t].ext
    /\ reconcile' = [reconcile EXCEPT ![c] =
          [pc |-> "lookup", tx |-> t, report |-> "pending", before |-> txn[t].status]]
    /\ UNCHANGED <<ledgerVars, req, callback, idem, order, evidence, sent, faults>>

\* Read-only lookup of the provider's own id.
LookUp(c) ==
    /\ reconcile[c].pc = "lookup"
    /\ \/ \E report \in LookupsOf(reconcile[c].tx) :
            /\ reconcile' = [reconcile EXCEPT ![c].pc = "apply", ![c].report = report]
            /\ UNCHANGED faults
       \/ Fault /\ ReconcileEnds(c)
    /\ UNCHANGED <<ledgerVars, req, callback, idem, order, evidence, sent>>

\* Mutant: any row the provider still processes becomes pending.
ApplyLookup_AlwaysPending(c) ==
    LET me == reconcile[c]
        Applies == IF me.report = "pending" THEN PatchStatus(me.tx, "pending") ELSE ApplyStatus(me.tx, me.report)
    IN  /\ me.pc = "apply"
        /\ IF ApplyRaises(me.tx, me.report)
           THEN ReconcileEnds(c) /\ UNCHANGED <<ledgerVars, faults>>
           ELSE Attempt(Applies, UNCHANGED ledgerVars, ReconcileAt(c, "notify"), ReconcileEnds(c))
        /\ UNCHANGED <<req, callback, idem, order, evidence, sent>>

\* A provider that still processes makes an ambiguous row pending again; a
\* final status is applied as in a callback.
ApplyLookup(c) ==
    LET me == reconcile[c]
        Applies == IF me.report = "pending" /\ me.before = "ambiguous"
                   THEN PatchStatus(me.tx, "pending") ELSE ApplyStatus(me.tx, me.report)
    IN  /\ me.pc = "apply"
        /\ IF ApplyRaises(me.tx, me.report)
           THEN ReconcileEnds(c) /\ UNCHANGED <<ledgerVars, faults>>
           ELSE Attempt(Applies, UNCHANGED ledgerVars, ReconcileAt(c, "notify"), ReconcileEnds(c))
        /\ UNCHANGED <<req, callback, idem, order, evidence, sent>>

\* The merchant hears of it only if the row is seen to have changed.
NotifyLookup(c) ==
    /\ reconcile[c].pc = "notify"
    /\ IF txn[reconcile[c].tx].status # reconcile[c].before
       THEN Notify(reconcile[c].tx, ReconcileEnds(c))
       ELSE ReconcileEnds(c) /\ UNCHANGED <<sent, faults>>
    /\ UNCHANGED <<ledgerVars, req, callback, idem, order, evidence>>

HandleReconcile(c) == LookUp(c) \/ ApplyLookup(c) \/ NotifyLookup(c)

-----------------------------------------------------------------------------
\* A handler stops for good where it is.
Vanish ==
    /\ Fault
    /\ \/ \E r \in TxIds :
             req[r].pc \notin {"new", "done"} /\ Answer(r, "unknown") /\ UNCHANGED <<callback, reconcile>>
       \/ \E c \in Callbacks :
             callback[c] # Idle /\ CallbackEnds(c) /\ UNCHANGED <<req, reconcile>>
       \/ \E c \in Reconcilers :
             reconcile[c] # Idle /\ ReconcileEnds(c) /\ UNCHANGED <<req, callback>>
    /\ UNCHANGED <<ledgerVars, idem, order, evidence, sent>>

\* An administrator publishes a price list (adminSetPricing), a single call:
\* payments begun before keep the fee that was frozen in their row.
Publish ==
    /\ \E table \in PricingTables : SetMerchantPricing(table)
    /\ UNCHANGED <<handlers, idem, order, evidence, sent, faults>>

Init ==
    /\ LedgerInit
    /\ req = [r \in TxIds |-> New]
    /\ idem = [k \in RequestKinds \X Keys |-> NoKey]
    /\ order = [t \in TxIds |-> "none"]
    /\ evidence = [e \in TxIds \X Reports |-> "none"]
    /\ callback = [c \in Callbacks |-> Idle]
    /\ reconcile = [c \in Reconcilers |-> Idle]
    /\ sent = [t \in TxIds |-> {}]
    /\ faults = 0

Next ==
    \/ \E r \in TxIds : Create(r) \/ Resolve(r) \/ Receive(r)
    \/ \E c \in Callbacks : HandleCallback(c)
    \/ \E c \in Reconcilers : HandleReconcile(c) \/ \E t \in TxIds : OpenReconcile(c, t)
    \/ Publish
    \/ Vanish

Spec == Init /\ [][Next]_vars

\* The scheduler runs every handler that has started; the provider finishes
\* what it has accepted and delivers an event until it is acknowledged.  New
\* requests and reconciliations need not come.
Fairness ==
    /\ \A r \in TxIds : WF_vars(Create(r) /\ req[r].pc # "new")
    /\ \A t \in TxIds : WF_vars(Resolve(t)) /\ SF_vars(Receive(t))
    /\ \A c \in Callbacks : WF_vars(HandleCallback(c))
    /\ \A c \in Reconcilers : WF_vars(HandleReconcile(c))

FairSpec == Spec /\ Fairness

\* The same, with an operator who keeps asking for every transaction.
ReconciledSpec == FairSpec /\ \A t \in TxIds : SF_vars(\E c \in Reconcilers : OpenReconcile(c, t))

-----------------------------------------------------------------------------
(* Properties *)

\* Handlers, keys, orders, evidence and events have their types.
GatewayTypeOK ==
    /\ LedgerTypeOK
    /\ req \in [TxIds -> Request]
    /\ idem \in [RequestKinds \X Keys -> KeyRow \cup {NoKey}]
    /\ order \in [TxIds -> Orders]
    /\ evidence \in [TxIds \X Reports -> {"none", "recorded", "processed"}]
    /\ callback \in [Callbacks -> Callback]
    /\ reconcile \in [Reconcilers -> Reconcile]
    /\ sent \in [TxIds -> SUBSET Terminal]
    /\ faults \in 0..MaxFaults

\* One idempotency key never reaches the provider as two payments, whatever
\* retries, lost answers and dead handlers there are.
OneOrderPerKey ==
    \A t1, t2 \in TxIds :
        t1 # t2 /\ order[t1] # "none" /\ order[t2] # "none" => KeyOf(t1) # KeyOf(t2)

\* The ledger follows the provider: an order stands on a row whose funds were
\* reserved first; a payment booked as succeeded was executed, and funds are
\* released only if the provider refused or never took the payment.
LedgerFollowsProvider ==
    \A t \in TxIds :
        /\ order[t] # "none" => Exists(t)
        /\ Exists(t) /\ txn[t].status = "succeeded" => order[t] = "paid"
        /\ Exists(t) /\ txn[t].status = "failed" => order[t] \in {"none", "refused"}

\* What a client is told is true.  A request that was refused never reaches
\* the provider afterwards; a key closed as finally failed never did; a key
\* closed as succeeded can be found by its external id; and a final status in a
\* stored response is the status of the row from then on.
AnswersAreTrue ==
    /\ \A r \in TxIds : req[r].pc = "done" /\ req[r].reply = "refused" => order[r] = "none"
    /\ \A k \in DOMAIN idem : idem[k] # NoKey =>
        LET row == idem[k]
        IN  /\ row.status = "failed_final" => order[row.tx] = "none"
            /\ row.status = "succeeded" => Exists(row.tx) /\ txn[row.tx].ext
            /\ row.response \in Terminal => txn[row.tx].status = row.response

\* An event that is acknowledged as processed is in the ledger.
ProcessedMeansApplied ==
    \A t \in TxIds, s \in Terminal :
        evidence[<<t, s>>] = "processed" => Exists(t) /\ txn[t].status = s

\* README.md: provider success settles the ledger, final failure releases the
\* funds.  A payment whose provider id is stored always ends.
RecordedPaymentsEnd ==
    \A t \in TxIds : (Exists(t) /\ txn[t].ext) ~> (Exists(t) /\ txn[t].status \in Terminal)

\* Merchants hear of every end: unless a call failed or a handler died, the
\* event of a finished payment is enqueued, whichever of the creating handler,
\* a callback and a reconciliation finished it.
EndsAreNotified ==
    \A t \in TxIds :
        (Exists(t) /\ txn[t].status \in Terminal) ~>
            (faults > 0 \/ (Exists(t) /\ txn[t].status \in sent[t]))

\* Every request that claims a key is answered or dead.
RequestsEnd == \A r \in TxIds : (req[r].pc # "new") ~> (req[r].pc = "done")

\* README.md: "Reconciliar" is available for transactions that are pending or
\* ambiguous; handlers_public.go: an ambiguous outcome keeps the balance
\* reserved until reconciliation.  With an operator who keeps reconciling, an
\* ambiguous payment that the provider took comes to its end.
AmbiguousPaymentsEnd ==
    \A t \in TxIds :
        (Exists(t) /\ txn[t].status = "ambiguous" /\ order[t] # "none") ~> (Exists(t) /\ txn[t].status \in Terminal)
=============================================================================
