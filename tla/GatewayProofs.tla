---------------------------- MODULE GatewayProofs ----------------------------
(***************************************************************************)
(* Theorems about Gateway for every set of transactions, accounts, keys,   *)
(* concurrent callbacks and reconciliations, and any number of faults.     *)
(*                                                                         *)
(* The argument is one inductive invariant, IInv: what each handler's      *)
(* place says about its transaction's row and order.  Its parts are stated *)
(* over one request, callback, reconciliation or key and the row and order *)
(* it is about, so that a step disturbs the parts of one transaction only. *)
(* The parts that need providers that agree with themselves say so.        *)
(***************************************************************************)
EXTENDS Gateway, LedgerProofs

-----------------------------------------------------------------------------
(* The inductive invariant *)

\* A final report agrees with what the provider did with the order o.
Says(report, o) ==
    /\ report = "succeeded" => o = "paid"
    /\ report = "failed" => o = "refused"

\* What the place of a create request q says about its row and order: the row
\* is there from begin_* on and stays pending and unreachable (no external id)
\* until the id is stored; an order exists exactly when the provider was asked.
RequestOK(q, row, o) ==
    /\ q.pc \in {"new", "begin"} => row = NoTxn
    /\ q.pc \in Places \ {"begin"} => row # NoTxn /\ row.kind = q.kind
    /\ q.pc \in {"call", "store", "reject", "unknown"} => row.status = "pending"
    /\ q.pc \in {"call", "store", "reject", "reject_finish", "reject_notify", "unknown", "unknown_finish"} => ~row.ext
    /\ q.pc \in {"apply", "fetch", "finish", "notify"} => row.ext
    /\ q.pc \in {"call", "reject", "reject_finish", "reject_notify"} => o = "none"
    /\ q.pc = "done" /\ q.reply = "refused" => o = "none"
    /\ q.pc = "store" => o # "none"
    /\ ProvidersAgree =>
          /\ q.pc \in {"store", "apply"} => Says(q.result, o)
          /\ q.pc = "finish" /\ q.seen \in Terminal => row.status = q.seen

\* A row and its order: none without a row, one once the external id is
\* stored, when the row can no longer be ambiguous.
RowOK(row, o) ==
    /\ o # "none" => row # NoTxn
    /\ row # NoTxn /\ row.ext => o # "none" /\ row.status # "ambiguous"
    /\ ProvidersAgree /\ row # NoTxn =>
          /\ row.status = "succeeded" => o = "paid"
          /\ row.status = "failed" => o \in {"none", "refused"}

\* A callback past "find" works on a row with an external id, and past "apply"
\* its final report is in the row.
CallbackOK(x, row, o) ==
    /\ x.pc \in {"apply", "notify", "mark"} => row # NoTxn /\ row.ext
    /\ ProvidersAgree =>
          /\ Says(x.report, o)
          /\ x.pc \in {"notify", "mark"} /\ x.report \in Terminal => row.status = x.report

\* A reconciliation works on a row with an external id, which it never found
\* ambiguous.
ReconcileOK(x, row, o) ==
    /\ row # NoTxn /\ row.ext /\ x.before # "ambiguous"
    /\ ProvidersAgree => Says(x.report, o)

\* A closed key tells the truth about the request that claimed it.
KeyOK(k, q, row, o) ==
    /\ k.status = "failed_final" => o = "none" /\ q.pc \in {"reject_notify", "done"}
    /\ k.status = "succeeded" => row # NoTxn /\ row.ext
    /\ ProvidersAgree /\ k.response \in Terminal => row # NoTxn /\ row.status = k.response

\* The request r claimed its key, for good.
Owns(r) == idem[KeyOf(r)] # NoKey /\ idem[KeyOf(r)].tx = r

RequestsOK == \A t \in TxIds : RequestOK(req[t], txn[t], order[t])
RowsOK == \A t \in TxIds : RowOK(txn[t], order[t])
OwnersOK == \A t \in TxIds : req[t].pc \in Places \/ order[t] # "none" => Owns(t)
KeysOK == \A k \in RequestKinds \X Keys : idem[k] # NoKey =>
    KeyOK(idem[k], req[idem[k].tx], txn[idem[k].tx], order[idem[k].tx])
CallbacksOK == \A c \in Callbacks : callback[c] # Idle =>
    CallbackOK(callback[c], txn[callback[c].tx], order[callback[c].tx])
ReconcilesOK == \A c \in Reconcilers : reconcile[c] # Idle =>
    ReconcileOK(reconcile[c], txn[reconcile[c].tx], order[reconcile[c].tx])
EvidenceOK == ProvidersAgree => ProcessedMeansApplied

IInv == /\ GatewayTypeOK /\ PricingOK
        /\ RequestsOK /\ RowsOK /\ OwnersOK /\ KeysOK
        /\ CallbacksOK /\ ReconcilesOK /\ EvidenceOK

-----------------------------------------------------------------------------
(* What the calls do to a row *)

\* Row t becomes (or stays) a row of this kind and status; ext says whether it
\* has an external id.  No other row changes.
RowBecomes(t, kind, status, ext) ==
    /\ txn'[t] \in Txn /\ txn'[t] # NoTxn
    /\ txn'[t].kind = kind /\ txn'[t].status = status /\ txn'[t].ext = ext
    /\ \A u \in TxIds \ {t} : txn'[u] = txn[u]

LEMMA RowTypes ==
    ASSUME LedgerTypeOK
    PROVE  \A t \in TxIds : txn[t] \in Txn \cup {NoTxn} /\ (Exists(t) => txn[t] \in Txn)
BY DEF LedgerTypeOK, Exists

LEMMA StatusRow ==
    ASSUME LedgerTypeOK, NEW t \in TxIds, Exists(t), NEW status \in Statuses,
           txn' = [txn EXCEPT ![t].status = status]
    PROVE  RowBecomes(t, txn[t].kind, status, txn[t].ext)
<1> DEFINE new == [txn[t] EXCEPT !.status = status]
<1>1. txn[t] \in Txn
  BY RowTypes
<1>2. new \in Txn /\ new.kind = txn[t].kind /\ new.status = status /\ new.ext = txn[t].ext
  BY <1>1 DEF Txn
<1>3. txn' = [txn EXCEPT ![t] = new]
  OBVIOUS
<1> HIDE DEF new
<1>4. QED
  BY <1>2, <1>3, LedgerAssumption DEF RowBecomes, LedgerTypeOK

LEMMA ExternalIdRow ==
    ASSUME LedgerTypeOK, NEW t \in TxIds, Exists(t), PatchExternalId(t)
    PROVE  RowBecomes(t, txn[t].kind, txn[t].status, TRUE)
<1> DEFINE new == [txn[t] EXCEPT !.ext = TRUE]
<1>1. txn[t] \in Txn
  BY RowTypes
<1>2. new \in Txn /\ new.kind = txn[t].kind /\ new.status = txn[t].status /\ new.ext = TRUE
  BY <1>1 DEF Txn
<1>3. txn' = [txn EXCEPT ![t] = new]
  BY DEF PatchExternalId
<1> HIDE DEF new
<1>4. QED
  BY <1>2, <1>3, LedgerAssumption DEF RowBecomes, LedgerTypeOK

\* begin_pix_in and begin_outbound insert a pending row of the kind asked for.
LEMMA BeginRow ==
    ASSUME TypeInv, NEW t \in TxIds, NEW a \in Accounts, NEW amount \in Amounts,
           NEW v \in 1..Len(pricing), NEW kind \in Kinds,
           (kind = "pix_in" /\ BeginPixIn(t, a, amount, v)) \/ BeginOutbound(t, a, kind, amount, v)
    PROVE  RowBecomes(t, kind, "pending", FALSE)
<1> DEFINE new == NewTxn(kind, a, amount, v)
<1>1. new \in Txn
  BY NewTxnType, LedgerAssumption DEF TypeInv, PricingOK
<1>2. new.kind = kind /\ new.status = "pending" /\ new.ext = FALSE
  BY DEF NewTxn
<1>3. txn' = [txn EXCEPT ![t] = new]
  BY DEF BeginPixIn, BeginOutbound
<1> HIDE DEF new
<1>4. QED
  BY <1>1, <1>2, <1>3, LedgerAssumption DEF RowBecomes, TypeInv, LedgerTypeOK

\* applyProviderStatus leaves a final report in the row, and a pending one
\* leaves the row alone.
LEMMA ApplyRow ==
    ASSUME LedgerTypeOK, NEW t \in TxIds, Exists(t), NEW report \in Reports, ApplyStatus(t, report)
    PROVE  RowBecomes(t, txn[t].kind, IF report = "pending" THEN txn[t].status ELSE report, txn[t].ext)
<1>1. txn[t] \in Txn /\ txn[t].status \in Statuses
  BY RowTypes DEF Txn
<1>2. CASE report = "succeeded" /\ (SettlePixIn(t) \/ CompleteOutbound(t))
  BY <1>2, StatusRow DEF SettlePixIn, CompleteOutbound, Finalize, Statuses
<1>3. CASE report = "failed" /\ IF txn[t].kind = "pix_in" THEN PatchStatus(t, "failed") ELSE FailOutbound(t)
  BY <1>3, StatusRow DEF PatchStatus, FailOutbound, Finalize, Statuses
<1>4. CASE ApplyIdles(t, report) /\ UNCHANGED ledgerVars
  BY <1>1, <1>4 DEF ApplyIdles, ledgerVars, RowBecomes, Exists
<1>5. QED
  BY <1>2, <1>3, <1>4 DEF ApplyStatus

\* Nothing happens to any row.
LEMMA SameRow ==
    ASSUME LedgerTypeOK, UNCHANGED ledgerVars, NEW t \in TxIds, Exists(t)
    PROVE  RowBecomes(t, txn[t].kind, txn[t].status, txn[t].ext)
BY RowTypes DEF RowBecomes, ledgerVars, Exists

-----------------------------------------------------------------------------
(* What the handlers' moves do to a request *)

\* Request r moves on to a place; its operation and key stay.
Goes(r, pc, result, seen) ==
    /\ req' \in [TxIds -> Request] /\ req'[r] \in Running
    /\ req'[r].pc = pc /\ req'[r].result = result /\ req'[r].seen = seen
    /\ req'[r].kind = req[r].kind /\ req'[r].key = req[r].key
    /\ \A u \in TxIds \ {r} : req'[u] = req[u]

\* Request r ends with this reply.
Ends(r, reply) ==
    /\ req' \in [TxIds -> Request] /\ req'[r] \in Done
    /\ req'[r].pc = "done" /\ req'[r].reply = reply
    /\ req'[r].kind = req[r].kind /\ req'[r].key = req[r].key
    /\ \A u \in TxIds \ {r} : req'[u] = req[u]

LEMMA InPlace ==
    ASSUME GatewayTypeOK, NEW r \in TxIds, req[r].pc \in Places
    PROVE  /\ req[r] \in Running
           /\ req[r].kind \in RequestKinds /\ req[r].key \in Keys /\ req[r].amount \in Amounts
           /\ req[r].result \in Reports /\ req[r].seen \in Statuses \cup {"none"}
           /\ KeyOf(r) \in RequestKinds \X Keys
<1>1. req[r] \in Request
  BY DEF GatewayTypeOK
<1>2. req[r] \notin Done /\ req[r] # New
  BY DEF Places, Done, New
<1>3. req[r] \in Running
  BY <1>1, <1>2 DEF Request
<1>4. QED
  BY <1>3 DEF Running, KeyOf

LEMMA StepGoes ==
    ASSUME GatewayTypeOK, NEW r \in TxIds, req[r].pc \in Places, NEW pc \in Places, Step(r, pc)
    PROVE  Goes(r, pc, req[r].result, req[r].seen)
<1> DEFINE new == [req[r] EXCEPT !.pc = pc]
<1>1. req[r] \in Running
  BY InPlace
<1>2. /\ new \in Running /\ new.pc = pc /\ new.result = req[r].result /\ new.seen = req[r].seen
      /\ new.kind = req[r].kind /\ new.key = req[r].key
  BY <1>1 DEF Running
<1>3. req' = [req EXCEPT ![r] = new]
  BY DEF Step
<1> HIDE DEF new
<1>4. QED
  BY <1>2, <1>3 DEF Goes, GatewayTypeOK, Request

LEMMA AnswerEnds ==
    ASSUME GatewayTypeOK, NEW r \in TxIds, req[r].pc \in Places, NEW reply \in Replies, Answer(r, reply)
    PROVE  Ends(r, reply)
<1> DEFINE new == DoneBy(req[r].kind, req[r].key, reply)
<1>1. new \in Done /\ new.pc = "done" /\ new.reply = reply /\ new.kind = req[r].kind /\ new.key = req[r].key
  BY InPlace DEF Done, DoneBy
<1>2. req' = [req EXCEPT ![r] = new]
  BY DEF Answer
<1> HIDE DEF new
<1>3. QED
  BY <1>1, <1>2 DEF Ends, GatewayTypeOK, Request

-----------------------------------------------------------------------------
(* What a step leaves to the others *)

Busy(t) == req[t].pc \in Places \/ order[t] # "none"

\* Nothing that others rely on is taken back: requests keep their keys and
\* stay ended, orders and rows stay, with their external id and, when the
\* providers agree, their end; and only a request that asks the provider, or
\* the provider, changes an order.
Forward(t) ==
    /\ req[t].pc # "new" => KeyOf(t)' = KeyOf(t)
    /\ req[t].pc \in {"reject_notify", "done"} => req'[t].pc \in {"reject_notify", "done"}
    /\ order'[t] # order[t] => req[t].pc = "call" \/ (order[t] = "open" /\ order'[t] # "none")
    /\ Exists(t) => Exists(t)' /\ (txn[t].ext => txn'[t].ext)
    /\ ProvidersAgree /\ Exists(t) /\ txn[t].status \in Terminal => txn'[t].status = txn[t].status

\* A step about transaction t: it leaves the other requests, rows and orders
\* alone, and t as its new place says.
StepAt(t) ==
    /\ \A u \in TxIds \ {t} : req'[u] = req[u] /\ txn'[u] = txn[u] /\ order'[u] = order[u]
    /\ req' \in [TxIds -> Request] /\ order' \in [TxIds -> Orders]
    /\ Forward(t)
    /\ RequestOK(req'[t], txn'[t], order'[t]) /\ RowOK(txn'[t], order'[t])
    /\ Busy(t)' => Busy(t) \/ Owns(t)'

\* What the invariant says of one transaction, unfolded once.
LEMMA At ==
    ASSUME IInv, NEW t \in TxIds
    PROVE  /\ RequestOK(req[t], txn[t], order[t]) /\ RowOK(txn[t], order[t])
           /\ order[t] \in Orders /\ req[t] \in Request /\ txn[t] \in Txn \cup {NoTxn}
           /\ Exists(t) <=> txn[t] # NoTxn
BY DEF IInv, RequestsOK, RowsOK, GatewayTypeOK, LedgerTypeOK, Exists

LEMMA PlaceStep ==
    ASSUME IInv, NEW r \in TxIds, req[r].pc \in Places, NEW pc \in Places, Step(r, pc),
           UNCHANGED order, RowBecomes(r, req[r].kind, txn'[r].status, txn'[r].ext),
           Forward(r), RequestOK(req'[r], txn'[r], order[r]), RowOK(txn'[r], order[r])
    PROVE  StepAt(r)
<1>1. Goes(r, pc, req[r].result, req[r].seen)
  BY StepGoes DEF IInv
<1>2. QED
  BY <1>1 DEF StepAt, Goes, RowBecomes, Busy, IInv, GatewayTypeOK

-----------------------------------------------------------------------------
(* Each move of a create request, but the claim, is a step about its own row *)

\* A handler that stops, or answers, leaves what is already there.
LEMMA EndsStep ==
    ASSUME IInv, NEW r \in TxIds, req[r].pc \in Places, NEW reply \in Replies, Ends(r, reply),
           UNCHANGED order, UNCHANGED txn, reply = "refused" => order[r] = "none"
    PROVE  StepAt(r)
<1>1. RequestOK(req[r], txn[r], order[r]) /\ RowOK(txn[r], order[r])
  BY At
<1>2. RequestOK(req'[r], txn'[r], order'[r]) /\ RowOK(txn'[r], order'[r])
  BY <1>1 DEF Ends, RequestOK, RowOK, Places
<1>3. Forward(r)
  BY DEF Ends, Forward, KeyOf, Exists
<1>4. QED
  BY <1>2, <1>3 DEF StepAt, Ends, Busy, IInv, GatewayTypeOK

\* The same when its row was written as well.
LEMMA EndsRowStep ==
    ASSUME IInv, NEW r \in TxIds, req[r].pc \in Places, NEW reply \in Replies, Ends(r, reply),
           UNCHANGED order, NEW kind \in Kinds, NEW status \in Statuses, NEW ext \in BOOLEAN,
           RowBecomes(r, kind, status, ext),
           RowOK(txn'[r], order[r]), reply = "refused" => order[r] = "none",
           Exists(r) => /\ txn[r].ext => ext
                        /\ ProvidersAgree /\ txn[r].status \in Terminal => status = txn[r].status
    PROVE  StepAt(r)
<1>1. RequestOK(req'[r], txn'[r], order'[r])
  BY DEF Ends, RequestOK, Places
<1>2. Forward(r)
  BY DEF Ends, Forward, KeyOf, Exists, RowBecomes
<1>3. QED
  BY <1>1, <1>2 DEF StepAt, Ends, Busy, IInv, GatewayTypeOK, RowBecomes

\* A handler that goes on to a place its row and order allow.
LEMMA GoesStep ==
    ASSUME IInv, NEW r \in TxIds, req[r].pc \in Places, NEW pc \in Places, NEW result, NEW seen,
           Goes(r, pc, result, seen), UNCHANGED order,
           NEW kind \in Kinds, NEW status \in Statuses, NEW ext \in BOOLEAN,
           RowBecomes(r, kind, status, ext), RowOK(txn'[r], order[r]),
           RequestOK(req'[r], txn'[r], order[r]),
           req[r].pc = "reject_notify" => pc = "reject_notify",
           Exists(r) => /\ txn[r].ext => ext
                        /\ ProvidersAgree /\ txn[r].status \in Terminal => status = txn[r].status
    PROVE  StepAt(r)
<1>1. Forward(r)
  BY DEF Goes, Forward, KeyOf, Exists, RowBecomes, Places
<1>2. QED
  BY <1>1 DEF StepAt, Goes, Busy, IInv, GatewayTypeOK, RowBecomes

\* begin_*: a row appears for a request that had none, or the request ends.
LEMMA BeginPaymentStep ==
    ASSUME IInv, NEW r \in TxIds, BeginPayment(r)
    PROVE  StepAt(r)
<1> DEFINE v == Len(pricing)
           amount == req[r].amount
           kind == req[r].kind
<1>1. PICK a \in Accounts :
        \/ UNCHANGED ledgerVars /\ Answer(r, "refused")
        \/ /\ \/ kind = "pix_in" /\ BeginPixIn(r, a, amount, v)
              \/ kind # "pix_in" /\ BeginOutbound(r, a, kind, amount, v)
           /\ Step(r, "call") \/ Answer(r, "refused")
  BY DEF BeginPayment, Attempt
<1>2. req[r].pc = "begin" /\ req[r].pc \in Places /\ order' = order
  BY DEF BeginPayment, Places
<1>3. amount \in Amounts /\ kind \in Kinds /\ v \in 1..Len(pricing)
  <2>1. amount \in Amounts /\ kind \in RequestKinds
    BY <1>2, InPlace DEF IInv
  <2>2. v \in 1..Len(pricing)
    BY DEF IInv, PricingOK, GatewayTypeOK, LedgerTypeOK
  <2>3. QED
    BY <2>1, <2>2, GatewayAssumption
<1>4. RequestOK(req[r], txn[r], order[r]) /\ RowOK(txn[r], order[r]) /\ ~Exists(r) /\ order[r] = "none"
  BY <1>2, At DEF RequestOK, RowOK
<1>5. CASE UNCHANGED ledgerVars /\ Answer(r, "refused")
  BY <1>2, <1>4, <1>5, AnswerEnds, EndsStep DEF IInv, ledgerVars, Replies
<1>6. CASE /\ \/ kind = "pix_in" /\ BeginPixIn(r, a, amount, v)
              \/ kind # "pix_in" /\ BeginOutbound(r, a, kind, amount, v)
           /\ Step(r, "call") \/ Answer(r, "refused")
  <2>1. RowBecomes(r, kind, "pending", FALSE)
    <3> HIDE DEF v, amount, kind
    <3>1. QED
      BY <1>3, <1>6, BeginRow DEF IInv, TypeInv, GatewayTypeOK
  <2>2. RowOK(txn'[r], order[r])
    BY <1>4, <2>1 DEF RowOK, RowBecomes
  <2>3. CASE Answer(r, "refused")
    BY <1>2, <1>3, <1>4, <2>1, <2>2, <2>3, AnswerEnds, EndsRowStep DEF IInv, Replies, Statuses
  <2>4. CASE Step(r, "call")
    <3>1. Goes(r, "call", req[r].result, req[r].seen)
      BY <1>2, <2>4, StepGoes DEF IInv, Places
    <3>2. RequestOK(req'[r], txn'[r], order[r])
      BY <1>4, <2>1, <3>1 DEF Goes, RowBecomes, RequestOK, Places
    <3>3. QED
      BY <1>2, <1>3, <1>4, <2>1, <2>2, <3>1, <3>2, GoesStep DEF Statuses, Places
  <2>5. QED
    BY <1>6, <2>3, <2>4
<1>7. QED
  BY <1>1, <1>5, <1>6

\* The call to the provider: an order appears, or the outcome is unknown.
LEMMA CallProviderStep ==
    ASSUME IInv, NEW r \in TxIds, CallProvider(r)
    PROVE  StepAt(r)
<1>1. req[r].pc = "call" /\ req[r].pc \in Places /\ UNCHANGED ledgerVars
  BY DEF CallProvider, Places
<1>2. /\ RequestOK(req[r], txn[r], order[r]) /\ RowOK(txn[r], order[r])
      /\ Exists(r) /\ txn[r].kind = req[r].kind /\ txn[r].status = "pending" /\ ~txn[r].ext
      /\ order[r] = "none" /\ order[r] \in Orders
  BY <1>1, At DEF RequestOK, Places
<1>3. PICK pc \in {"store", "reject", "unknown"}, result \in Reports, o \in Orders :
        /\ Goes(r, pc, result, req[r].seen)
        /\ order' = [order EXCEPT ![r] = o]
        /\ pc = "store" => o # "none" /\ result = Truth[o]
        /\ pc = "reject" => o = "none"
  <2>1. req[r] \in Running /\ order \in [TxIds -> Orders] /\ req[r].result \in Reports
    BY <1>1, InPlace DEF IInv, GatewayTypeOK
  <2>2. ASSUME NEW o \in {"open", "paid", "refused"}, order' = [order EXCEPT ![r] = o],
               req' = [req EXCEPT ![r].pc = "store", ![r].result = Truth[o]]
        PROVE  /\ Goes(r, "store", Truth[o], req[r].seen) /\ Truth[o] \in Reports
               /\ o \in Orders /\ o # "none"
    <3> DEFINE new == [[req[r] EXCEPT !.pc = "store"] EXCEPT !.result = Truth[o]]
    <3>1. Truth[o] \in Reports
      BY DEF Truth, Reports
    <3>2. /\ new \in Running /\ new.pc = "store" /\ new.result = Truth[o] /\ new.seen = req[r].seen
          /\ new.kind = req[r].kind /\ new.key = req[r].key
      BY <2>1, <3>1 DEF Running, Places
    <3>3. req' = [req EXCEPT ![r] = new]
      BY <2>2 DEF IInv, GatewayTypeOK
    <3> HIDE DEF new
    <3>4. QED
      BY <3>1, <3>2, <3>3 DEF Goes, IInv, GatewayTypeOK, Request, Orders
  <2>3. CASE Step(r, "reject") /\ UNCHANGED order
    <3>1. Goes(r, "reject", req[r].result, req[r].seen) /\ order' = [order EXCEPT ![r] = "none"]
      BY <1>1, <1>2, <2>1, <2>3, StepGoes DEF IInv, Places
    <3>2. QED
      BY <2>1, <3>1 DEF Orders
  <2>4. CASE Step(r, "unknown") /\ order' \in {order, [order EXCEPT ![r] = "open"]}
    <3>1. Goes(r, "unknown", req[r].result, req[r].seen)
      BY <1>1, <2>4, StepGoes DEF IInv, Places
    <3>2. PICK o \in Orders : order' = [order EXCEPT ![r] = o]
      <4>1. order = [order EXCEPT ![r] = "none"]
        BY <1>2, <2>1
      <4>2. QED
        BY <2>4, <4>1 DEF Orders
    <3>3. QED
      BY <2>1, <3>1, <3>2
  <2>5. QED
    BY <1>1, <2>2, <2>3, <2>4 DEF CallProvider
<1>4. order'[r] = o /\ order' \in [TxIds -> Orders] /\ \A u \in TxIds \ {r} : order'[u] = order[u]
  BY <1>3 DEF IInv, GatewayTypeOK
<1>5. txn' = txn
  BY <1>1 DEF ledgerVars
<1>6. RequestOK(req'[r], txn'[r], order'[r])
  BY <1>2, <1>3, <1>4, <1>5 DEF RequestOK, Goes, Places, Says, Truth, Orders, Exists
<1>7. RowOK(txn'[r], order'[r])
  BY <1>2, <1>4, <1>5 DEF RowOK, Exists, Terminal
<1>8. Forward(r)
  BY <1>1, <1>3, <1>5 DEF Forward, Goes, KeyOf, Exists
<1>9. QED
  BY <1>1, <1>3, <1>4, <1>5, <1>6, <1>7, <1>8 DEF StepAt, Goes, Busy

\* The id is stored in a pending row that the provider knows.
LEMMA StoreExternalIdStep ==
    ASSUME IInv, NEW r \in TxIds, StoreExternalId(r)
    PROVE  StepAt(r)
<1>1. req[r].pc = "store" /\ req[r].pc \in Places /\ UNCHANGED order
  BY DEF StoreExternalId, Places
<1>2. /\ RequestOK(req[r], txn[r], order[r]) /\ RowOK(txn[r], order[r])
      /\ Exists(r) /\ txn[r].kind = req[r].kind /\ txn[r].status = "pending" /\ order[r] # "none"
      /\ req[r].kind \in Kinds /\ req[r].result \in Reports
  BY <1>1, At, InPlace, GatewayAssumption DEF RequestOK, Places, IInv
<1>3. CASE PatchExternalId(r)
  <2>1. RowBecomes(r, req[r].kind, "pending", TRUE)
    BY <1>2, <1>3, ExternalIdRow DEF IInv, GatewayTypeOK
  <2>2. RowOK(txn'[r], order[r])
    BY <1>2, <2>1 DEF RowOK, RowBecomes
  <2>3. CASE Answer(r, "unknown")
    BY <1>1, <1>2, <2>1, <2>2, <2>3, AnswerEnds, EndsRowStep DEF IInv, Replies, Statuses, Terminal
  <2>4. CASE Step(r, IF req[r].result = "pending" THEN "fetch" ELSE "apply")
    <3> DEFINE pc == IF req[r].result = "pending" THEN "fetch" ELSE "apply"
    <3>1. pc \in {"fetch", "apply"} /\ pc \in Places
      BY DEF Places
    <3>2. Goes(r, pc, req[r].result, req[r].seen)
      BY <1>1, <2>4, <3>1, StepGoes DEF IInv
    <3> HIDE DEF pc
    <3>3. RequestOK(req'[r], txn'[r], order[r])
      BY <1>1, <1>2, <2>1, <3>1, <3>2 DEF RequestOK, Goes, RowBecomes, Places
    <3>4. QED
      BY <1>1, <1>2, <2>1, <2>2, <3>1, <3>2, <3>3, GoesStep DEF Statuses, Terminal
  <2>5. QED
    BY <2>3, <2>4 DEF StoreExternalId, Attempt, PatchExternalId, Fault
<1>4. CASE UNCHANGED ledgerVars /\ Answer(r, "unknown")
  BY <1>1, <1>4, AnswerEnds, EndsStep DEF IInv, ledgerVars, Replies
<1>5. QED
  BY <1>3, <1>4 DEF StoreExternalId, Attempt

\* The report the request holds is what the provider did, and goes into the row.
LEMMA ApplyResultStep ==
    ASSUME IInv, NEW r \in TxIds, ApplyResult(r)
    PROVE  StepAt(r)
<1>1. req[r].pc = "apply" /\ req[r].pc \in Places /\ UNCHANGED order
  BY DEF ApplyResult, Places
<1>2. /\ RequestOK(req[r], txn[r], order[r]) /\ RowOK(txn[r], order[r])
      /\ Exists(r) /\ txn[r].kind = req[r].kind /\ txn[r].ext = TRUE /\ order[r] # "none"
      /\ req[r].kind \in Kinds /\ req[r].result \in Reports /\ txn[r].status \in Statuses
      /\ ProvidersAgree => Says(req[r].result, order[r])
  BY <1>1, At, InPlace, GatewayAssumption DEF RequestOK, RowOK, Places, IInv, Exists, Txn
<1>3. CASE UNCHANGED ledgerVars /\ Answer(r, "unknown")
  BY <1>1, <1>3, AnswerEnds, EndsStep DEF IInv, ledgerVars, Replies
<1>4. CASE ApplyStatus(r, req[r].result) /\ (Answer(r, "unknown") \/ Step(r, "fetch"))
  <2> DEFINE status == IF req[r].result = "pending" THEN txn[r].status ELSE req[r].result
  <2>1. RowBecomes(r, req[r].kind, status, TRUE) /\ status \in Statuses
    BY <1>2, <1>4, ApplyRow DEF IInv, GatewayTypeOK, Reports, Statuses
  <2>2. ProvidersAgree /\ txn[r].status \in Terminal => status = txn[r].status
    BY <1>2 DEF Says, RowOK, Terminal, Exists, Reports
  <2>3. RowOK(txn'[r], order[r])
    BY <1>2, <2>1 DEF RowOK, RowBecomes, Says, Exists, Reports
  <2> HIDE DEF status
  <2>4. CASE Answer(r, "unknown")
    BY <1>1, <1>2, <2>1, <2>2, <2>3, <2>4, AnswerEnds, EndsRowStep DEF IInv, Replies
  <2>5. CASE Step(r, "fetch")
    <3>1. Goes(r, "fetch", req[r].result, req[r].seen)
      BY <1>1, <2>5, StepGoes DEF IInv, Places
    <3>2. RequestOK(req'[r], txn'[r], order[r])
      BY <2>1, <3>1 DEF RequestOK, Goes, RowBecomes, Places
    <3>3. QED
      BY <1>1, <1>2, <2>1, <2>2, <2>3, <3>1, <3>2, GoesStep DEF Places
  <2>6. QED
    BY <1>4, <2>4, <2>5
<1>5. QED
  BY <1>3, <1>4 DEF ApplyResult, Attempt, ledgerVars

\* A handler that goes on without a write to its row or order.
LEMMA QuietStep ==
    ASSUME IInv, NEW r \in TxIds, req[r].pc \in Places \ {"begin"}, NEW pc \in Places, NEW result, NEW seen,
           Goes(r, pc, result, seen), UNCHANGED <<txn, order>>,
           RequestOK(req'[r], txn[r], order[r]), req[r].pc = "reject_notify" => pc = "reject_notify"
    PROVE  StepAt(r)
<1>1. RequestOK(req[r], txn[r], order[r]) /\ RowOK(txn[r], order[r])
  BY At
<1>2. Forward(r)
  BY DEF Goes, Forward, KeyOf, Exists, Places
<1>3. QED
  BY <1>1, <1>2 DEF StepAt, Goes, Busy, IInv, GatewayTypeOK

\* The status a request remembers is one its row has.
LEMMA FetchRowStep ==
    ASSUME IInv, NEW r \in TxIds, FetchRow(r)
    PROVE  StepAt(r)
<1>1. req[r].pc = "fetch" /\ req[r].pc \in Places \ {"begin"} /\ UNCHANGED <<txn, order>>
  BY DEF FetchRow, Places, ledgerVars
<1>2. /\ RequestOK(req[r], txn[r], order[r]) /\ RowOK(txn[r], order[r])
      /\ txn[r] # NoTxn /\ txn[r].kind = req[r].kind /\ txn[r].ext /\ txn[r].status \in Statuses
      /\ order[r] # "none" /\ req[r] \in Running
  BY <1>1, At, InPlace DEF RequestOK, RowOK, Places, Txn, IInv
<1>3. CASE Answer(r, "unknown")
  BY <1>1, <1>3, AnswerEnds, EndsStep DEF IInv, Replies
<1>4. CASE req' = [req EXCEPT ![r].pc = "finish", ![r].seen = txn[r].status]
  <2> DEFINE new == [[req[r] EXCEPT !.pc = "finish"] EXCEPT !.seen = txn[r].status]
  <2>1. /\ new \in Running /\ new.pc = "finish" /\ new.result = req[r].result /\ new.seen = txn[r].status
        /\ new.kind = req[r].kind /\ new.key = req[r].key
    BY <1>2 DEF Running, Places
  <2>2. req' = [req EXCEPT ![r] = new]
    BY <1>4 DEF IInv, GatewayTypeOK
  <2> HIDE DEF new
  <2>3. Goes(r, "finish", req[r].result, txn[r].status)
    BY <2>1, <2>2 DEF Goes, IInv, GatewayTypeOK, Request
  <2>4. RequestOK(req'[r], txn[r], order[r])
    BY <1>2, <2>3 DEF RequestOK, Goes, Places
  <2>5. QED
    BY <1>1, <2>3, <2>4, QuietStep DEF Places
<1>5. QED
  BY <1>3, <1>4 DEF FetchRow

LEMMA FinishCreatedStep ==
    ASSUME IInv, NEW r \in TxIds, FinishCreated(r)
    PROVE  StepAt(r)
<1>1. req[r].pc = "finish" /\ req[r].pc \in Places \ {"begin"} /\ UNCHANGED <<txn, order>>
  BY DEF FinishCreated, Places, ledgerVars
<1>2. RequestOK(req[r], txn[r], order[r])
  BY At
<1>3. CASE Answer(r, "unknown")
  BY <1>1, <1>3, AnswerEnds, EndsStep DEF IInv, Replies
<1>4. CASE Step(r, "notify")
  <2>1. Goes(r, "notify", req[r].result, req[r].seen)
    BY <1>1, <1>4, StepGoes DEF IInv, Places
  <2>2. RequestOK(req'[r], txn[r], order[r])
    BY <1>1, <1>2, <2>1 DEF RequestOK, Goes, Places
  <2>3. QED
    BY <1>1, <2>1, <2>2, QuietStep DEF Places
<1>5. QED
  BY <1>3, <1>4 DEF FinishCreated, Attempt

LEMMA NotifyStep ==
    ASSUME IInv, NEW r \in TxIds, NotifyCreated(r) \/ NotifyRejected(r)
    PROVE  StepAt(r)
<1>1. req[r].pc \in {"notify", "reject_notify"} /\ req[r].pc \in Places /\ UNCHANGED <<txn, order>>
  BY DEF NotifyCreated, NotifyRejected, Places, ledgerVars
<1>2. RequestOK(req[r], txn[r], order[r])
  BY At
<1>3. PICK reply \in {"created", "refused"} :
        Answer(r, reply) /\ (reply = "refused" => req[r].pc = "reject_notify")
  BY DEF NotifyCreated, NotifyRejected, Notify, Attempt
<1>4. QED
  BY <1>1, <1>2, <1>3, AnswerEnds, EndsStep DEF IInv, Replies, RequestOK

\* The provider refused: the row may fail, and no order ever appears.
LEMMA RejectStep ==
    ASSUME IInv, NEW r \in TxIds, Reject(r)
    PROVE  StepAt(r)
<1>1. req[r].pc = "reject" /\ req[r].pc \in Places /\ UNCHANGED order
  BY DEF Reject, Places
<1>2. /\ RequestOK(req[r], txn[r], order[r])
      /\ Exists(r) /\ txn[r].kind = req[r].kind /\ txn[r].status = "pending" /\ ~txn[r].ext /\ order[r] = "none"
      /\ req[r].kind \in Kinds /\ txn[r] \in Txn
  BY <1>1, At, InPlace, GatewayAssumption DEF RequestOK, Places, IInv, Exists
<1>3. txn[r].ext = FALSE
  BY <1>2 DEF Txn
<1>4. PICK status \in {"pending", "failed"} : RowBecomes(r, req[r].kind, status, FALSE)
  <2>1. CASE UNCHANGED ledgerVars
    BY <1>2, <1>3, <2>1, SameRow DEF IInv, GatewayTypeOK
  <2>2. CASE IF req[r].kind = "pix_in" THEN PatchStatus(r, "failed") ELSE FailOutbound(r)
    BY <1>2, <1>3, <2>2, StatusRow DEF IInv, GatewayTypeOK, PatchStatus, FailOutbound, Finalize, Statuses
  <2>3. QED
    BY <2>1, <2>2 DEF Reject, Attempt
<1>5. Goes(r, "reject_finish", req[r].result, req[r].seen)
  BY <1>1, StepGoes DEF IInv, Places, Reject, Attempt
<1>6. RowOK(txn'[r], order[r])
  BY <1>2, <1>4 DEF RowOK, RowBecomes
<1>7. RequestOK(req'[r], txn'[r], order[r])
  BY <1>2, <1>4, <1>5 DEF RequestOK, RowBecomes, Goes, Places
<1>8. QED
  BY <1>1, <1>2, <1>4, <1>5, <1>6, <1>7, GoesStep DEF Statuses, Terminal, Places

LEMMA FinishRejectedStep ==
    ASSUME IInv, NEW r \in TxIds, FinishRejected(r)
    PROVE  StepAt(r)
<1>1. req[r].pc = "reject_finish" /\ req[r].pc \in Places \ {"begin"} /\ UNCHANGED <<txn, order>>
  BY DEF FinishRejected, Places, ledgerVars
<1>2. RequestOK(req[r], txn[r], order[r])
  BY At
<1>3. CASE Answer(r, "refused")
  BY <1>1, <1>2, <1>3, AnswerEnds, EndsStep DEF IInv, Replies, RequestOK
<1>4. CASE Step(r, "reject_notify")
  <2>1. Goes(r, "reject_notify", req[r].result, req[r].seen)
    BY <1>1, <1>4, StepGoes DEF IInv, Places
  <2>2. RequestOK(req'[r], txn[r], order[r])
    BY <1>1, <1>2, <2>1 DEF RequestOK, Goes, Places
  <2>3. QED
    BY <1>1, <2>1, <2>2, QuietStep DEF Places
<1>5. QED
  BY <1>3, <1>4 DEF FinishRejected, Attempt

\* The outcome is unknown: the row may become ambiguous, still without an id.
LEMMA MarkAmbiguousStep ==
    ASSUME IInv, NEW r \in TxIds, MarkAmbiguous(r)
    PROVE  StepAt(r)
<1>1. req[r].pc = "unknown" /\ req[r].pc \in Places /\ UNCHANGED order
  BY DEF MarkAmbiguous, Places
<1>2. /\ RequestOK(req[r], txn[r], order[r]) /\ RowOK(txn[r], order[r])
      /\ Exists(r) /\ txn[r].kind = req[r].kind /\ txn[r].status = "pending" /\ ~txn[r].ext
      /\ req[r].kind \in Kinds /\ txn[r] \in Txn
  BY <1>1, At, InPlace, GatewayAssumption DEF RequestOK, Places, IInv, Exists
<1>3. txn[r].ext = FALSE
  BY <1>2 DEF Txn
<1>4. PICK status \in {"pending", "ambiguous"} : RowBecomes(r, req[r].kind, status, FALSE)
  <2>1. CASE UNCHANGED ledgerVars
    BY <1>2, <1>3, <2>1, SameRow DEF IInv, GatewayTypeOK
  <2>2. CASE PatchStatus(r, "ambiguous")
    BY <1>2, <1>3, <2>2, StatusRow DEF IInv, GatewayTypeOK, PatchStatus, Statuses
  <2>3. QED
    BY <2>1, <2>2 DEF MarkAmbiguous, Attempt
<1>5. Goes(r, "unknown_finish", req[r].result, req[r].seen)
  BY <1>1, StepGoes DEF IInv, Places, MarkAmbiguous, Attempt
<1>6. RowOK(txn'[r], order[r])
  BY <1>2, <1>4 DEF RowOK, RowBecomes
<1>7. RequestOK(req'[r], txn'[r], order[r])
  BY <1>2, <1>4, <1>5 DEF RequestOK, RowBecomes, Goes, Places
<1>8. QED
  BY <1>1, <1>2, <1>4, <1>5, <1>6, <1>7, GoesStep DEF Statuses, Terminal, Places

LEMMA FinishAmbiguousStep ==
    ASSUME IInv, NEW r \in TxIds, FinishAmbiguous(r)
    PROVE  StepAt(r)
<1>1. req[r].pc = "unknown_finish" /\ req[r].pc \in Places /\ UNCHANGED <<txn, order>>
  BY DEF FinishAmbiguous, Places, ledgerVars
<1>2. Answer(r, "unknown")
  BY DEF FinishAmbiguous, Attempt
<1>3. QED
  BY <1>1, <1>2, AnswerEnds, EndsStep DEF IInv, Replies

\* A claim: the request owns its key, or ends without an effect.
LEMMA ClaimStep ==
    ASSUME IInv, NEW r \in TxIds, Claim(r)
    PROVE  StepAt(r)
<1>1. req[r] = New /\ UNCHANGED <<txn, order>>
  BY DEF Claim, ledgerVars
<1>2. PICK kind \in RequestKinds, key \in Keys, amount \in Amounts :
        ClaimFirst(r, kind, key, amount) \/ ClaimAgain(r, kind, key, amount)
  BY DEF Claim
<1>3. req[r].pc = "new" /\ txn[r] = NoTxn /\ order[r] = "none" /\ RowOK(txn[r], order[r])
  BY <1>1, At DEF New, RequestOK, RowOK
<1>4. req \in [TxIds -> Request] /\ order \in [TxIds -> Orders] /\ idem \in [RequestKinds \X Keys -> KeyRow \cup {NoKey}]
  BY DEF IInv, GatewayTypeOK
<1>5. Forward(r)
  BY <1>1, <1>3 DEF Forward, Exists
<1>6. ASSUME NEW reply \in Replies, req' = [req EXCEPT ![r] = DoneBy(kind, key, reply)] PROVE StepAt(r)
  <2> DEFINE new == DoneBy(kind, key, reply)
  <2>1. new \in Request /\ new.pc = "done"
    BY DEF DoneBy, Done, Request
  <2> HIDE DEF new
  <2>2. req'[r] = new /\ req' \in [TxIds -> Request] /\ \A u \in TxIds \ {r} : req'[u] = req[u]
    BY <1>4, <1>6, <2>1 DEF new
  <2>3. RequestOK(req'[r], txn'[r], order'[r])
    BY <1>1, <1>3, <2>1, <2>2 DEF RequestOK, Places
  <2>4. QED
    BY <1>1, <1>3, <1>4, <1>5, <2>1, <2>2, <2>3 DEF StepAt, Busy, Places
<1>7. CASE /\ idem' = [idem EXCEPT ![<<kind, key>>] =
                  [amount |-> amount, tx |-> r, status |-> "processing", response |-> "none"]]
           /\ req' = [req EXCEPT ![r] = [pc |-> "begin", kind |-> kind, key |-> key, amount |-> amount,
                                         result |-> "pending", seen |-> "none"]]
  <2> DEFINE new == [pc |-> "begin", kind |-> kind, key |-> key, amount |-> amount,
                     result |-> "pending", seen |-> "none"]
             row == [amount |-> amount, tx |-> r, status |-> "processing", response |-> "none"]
  <2>1. new \in Request /\ new.pc = "begin" /\ new.kind = kind /\ new.key = key
    BY DEF Running, Request, Places, Reports
  <2>2. row \in KeyRow /\ row.tx = r
    BY DEF KeyRow
  <2>3. req' = [req EXCEPT ![r] = new] /\ idem' = [idem EXCEPT ![<<kind, key>>] = row]
    BY <1>7
  <2> HIDE DEF new, row
  <2>4. req'[r] = new /\ req' \in [TxIds -> Request] /\ \A u \in TxIds \ {r} : req'[u] = req[u]
    BY <1>4, <2>1, <2>3
  <2>5. RequestOK(req'[r], txn'[r], order'[r])
    BY <1>1, <1>3, <2>1, <2>4 DEF RequestOK, Places
  <2>6. idem'[<<kind, key>>] = row /\ row # NoKey
    BY <1>4, <2>2, <2>3, GatewayAssumption
  <2>7. Owns(r)'
    BY <2>1, <2>2, <2>4, <2>6 DEF Owns, KeyOf
  <2>8. QED
    BY <1>1, <1>3, <1>4, <1>5, <2>4, <2>5, <2>7 DEF StepAt
<1>8. CASE ClaimFirst(r, kind, key, amount)
  BY <1>6, <1>7, <1>8 DEF ClaimFirst, Attempt, Replies
<1>9. CASE ClaimAgain(r, kind, key, amount)
  BY <1>6, <1>9 DEF ClaimAgain, Replies
<1>10. QED
  BY <1>2, <1>8, <1>9

\* Every move of a create request is a step about its own transaction.
LEMMA CreateStep ==
    ASSUME IInv, NEW r \in TxIds, Create(r)
    PROVE  StepAt(r)
BY BeginPaymentStep, CallProviderStep, StoreExternalIdStep, ApplyResultStep, FetchRowStep,
   FinishCreatedStep, NotifyStep, RejectStep, FinishRejectedStep, MarkAmbiguousStep,
   FinishAmbiguousStep, ClaimStep
DEF Create

LEMMA AbandonStep ==
    ASSUME IInv, NEW r \in TxIds, req[r].pc \notin {"new", "done"}, Answer(r, "unknown"), UNCHANGED <<txn, order>>
    PROVE  StepAt(r)
<1>1. req[r].pc \in Places
  BY DEF IInv, GatewayTypeOK, Request, New, Running, Done
<1>2. QED
  BY <1>1, AnswerEnds, EndsStep DEF IInv, Replies

-----------------------------------------------------------------------------
(* Each step of a callback, a reconciliation or the provider *)

\* applyProviderStatus on a row with an external id, with a report that agrees
\* with the order: the request that made the row keeps what its place says.
LEMMA ApplyStep ==
    ASSUME IInv, NEW t \in TxIds, Exists(t), txn[t].ext, NEW report \in Reports,
           ProvidersAgree => Says(report, order[t]),
           ApplyStatus(t, report), UNCHANGED <<req, order>>
    PROVE  StepAt(t)
<1> DEFINE status == IF report = "pending" THEN txn[t].status ELSE report
<1>1. /\ RequestOK(req[t], txn[t], order[t]) /\ RowOK(txn[t], order[t])
      /\ order[t] # "none" /\ txn[t] \in Txn /\ txn[t].ext = TRUE /\ txn[t].status \in Statuses
  BY At DEF RowOK, Exists, Txn
<1>2. RowBecomes(t, txn[t].kind, status, TRUE) /\ status \in Statuses
  BY <1>1, ApplyRow DEF IInv, GatewayTypeOK, Reports, Statuses
<1>3. ProvidersAgree /\ txn[t].status \in Terminal => status = txn[t].status
  BY <1>1 DEF Says, RowOK, Terminal, Exists, Reports
<1>4. RowOK(txn'[t], order'[t])
  BY <1>1, <1>2 DEF RowOK, RowBecomes, Says, Exists, Reports
<1> HIDE DEF status
<1>5. RequestOK(req'[t], txn'[t], order'[t])
  BY <1>1, <1>2, <1>3 DEF RequestOK, RowBecomes, Exists, Places
<1>6. Forward(t)
  BY <1>2, <1>3 DEF Forward, KeyOf, RowBecomes, Exists
<1>7. QED
  BY <1>2, <1>4, <1>5, <1>6 DEF StepAt, RowBecomes, Busy, IInv, GatewayTypeOK

LEMMA CallbackApplies ==
    ASSUME IInv, NEW c \in Callbacks, callback[c].pc = "apply"
    PROVE  LET t == callback[c].tx
           IN  /\ callback[c].report \in Reports
               /\ t \in TxIds /\ Exists(t) /\ txn[t].ext
               /\ ProvidersAgree => Says(callback[c].report, order[t])
<1>1. callback[c] \in Callback /\ callback[c] # Idle
  BY DEF IInv, GatewayTypeOK, Idle
<1>2. callback[c].tx \in TxIds /\ callback[c].report \in Reports
  BY <1>1 DEF Callback
<1>3. QED
  BY <1>1, <1>2 DEF IInv, CallbacksOK, CallbackOK, Exists

LEMMA ReconcileWorks ==
    ASSUME IInv, NEW c \in Reconcilers, reconcile[c].pc # "idle"
    PROVE  LET t == reconcile[c].tx
           IN  /\ reconcile[c].report \in Reports /\ reconcile[c].pc \in {"lookup", "apply", "notify"}
               /\ reconcile[c].before = "pending"
               /\ t \in TxIds /\ Exists(t) /\ txn[t].ext /\ order[t] \in {"open", "paid", "refused"}
               /\ ProvidersAgree => Says(reconcile[c].report, order[t])
<1>1. reconcile[c] \in Reconcile /\ reconcile[c] # Idle
  BY DEF IInv, GatewayTypeOK, Idle
<1>2. /\ reconcile[c].tx \in TxIds /\ reconcile[c].report \in Reports
      /\ reconcile[c].pc \in {"lookup", "apply", "notify"}
      /\ reconcile[c].before \in Statuses \ Terminal
  BY <1>1 DEF Reconcile
<1>3. ReconcileOK(reconcile[c], txn[reconcile[c].tx], order[reconcile[c].tx])
  BY <1>1 DEF IInv, ReconcilesOK
<1>4. order[reconcile[c].tx] \in {"open", "paid", "refused"}
  BY <1>2, <1>3, At DEF ReconcileOK, RowOK, Orders
<1>5. QED
  BY <1>2, <1>3, <1>4 DEF ReconcileOK, Exists, Statuses, Terminal

\* A reconciliation never makes a row pending again: the rows it can find were
\* never ambiguous.
LEMMA ApplyLookupApplies ==
    ASSUME IInv, NEW c \in Reconcilers, ApplyLookup(c)
    PROVE  ApplyStatus(reconcile[c].tx, reconcile[c].report) \/ UNCHANGED ledgerVars
<1>1. reconcile[c].before = "pending"
  BY ReconcileWorks DEF ApplyLookup
<1>2. QED
  BY <1>1 DEF ApplyLookup, Attempt

\* The provider settles an order it had open.
LEMMA ResolveStep ==
    ASSUME IInv, NEW t \in TxIds, Resolve(t)
    PROVE  StepAt(t)
<1>1. /\ RequestOK(req[t], txn[t], order[t]) /\ RowOK(txn[t], order[t])
      /\ order[t] = "open" /\ UNCHANGED <<txn, req>> /\ txn[t] \in Txn \cup {NoTxn}
  BY At DEF Resolve, ledgerVars, handlers
<1>2. PICK o \in {"paid", "refused"} : order' = [order EXCEPT ![t] = o]
  BY DEF Resolve
<1>3. order'[t] = o /\ order' \in [TxIds -> Orders] /\ \A u \in TxIds \ {t} : order'[u] = order[u]
  BY <1>2 DEF IInv, GatewayTypeOK, Orders
<1>4. RequestOK(req'[t], txn'[t], order'[t])
  BY <1>1, <1>3 DEF RequestOK, Says
<1>5. RowOK(txn'[t], order'[t])
  BY <1>1, <1>3 DEF RowOK
<1>6. Forward(t)
  BY <1>1, <1>3 DEF Forward, KeyOf, Exists
<1>7. QED
  BY <1>1, <1>3, <1>4, <1>5, <1>6 DEF StepAt, Busy, IInv, GatewayTypeOK

\* Every step is about one transaction, or moves no request, row or order.
LEMMA EveryStep ==
    ASSUME IInv, [Next]_vars
    PROVE  (\E t \in TxIds : StepAt(t)) \/ UNCHANGED <<req, txn, order>>
<1>1. ASSUME NEW r \in TxIds, Create(r) PROVE StepAt(r)
  BY <1>1, CreateStep
<1>2. ASSUME NEW t \in TxIds, Resolve(t) PROVE StepAt(t)
  BY <1>2, ResolveStep
<1>3. ASSUME NEW t \in TxIds, Receive(t) PROVE UNCHANGED <<req, txn, order>>
  BY <1>3 DEF Receive, ReceiveEvent, ledgerVars
<1>4. ASSUME NEW c \in Callbacks, FindRow(c) \/ NotifyEvent(c) \/ MarkProcessed(c)
      PROVE  UNCHANGED <<req, txn, order>>
  BY <1>4 DEF FindRow, NotifyEvent, MarkProcessed, ledgerVars
<1>5. ASSUME NEW c \in Callbacks, ApplyEvent(c)
      PROVE  (\E t \in TxIds : StepAt(t)) \/ UNCHANGED <<req, txn, order>>
  <2>1. callback[c].pc = "apply" /\ UNCHANGED <<req, order>>
    BY <1>5 DEF ApplyEvent
  <2>2. CASE ApplyStatus(callback[c].tx, callback[c].report)
    BY <2>1, <2>2, CallbackApplies, ApplyStep
  <2>3. CASE UNCHANGED ledgerVars
    BY <2>1, <2>3 DEF ledgerVars
  <2>4. QED
    BY <1>5, <2>2, <2>3 DEF ApplyEvent, Attempt, ledgerVars
<1>6. ASSUME NEW c \in Reconcilers, LookUp(c) \/ NotifyLookup(c) \/ (\E t \in TxIds : OpenReconcile(c, t))
      PROVE  UNCHANGED <<req, txn, order>>
  BY <1>6 DEF LookUp, NotifyLookup, OpenReconcile, ledgerVars
<1>7. ASSUME NEW c \in Reconcilers, ApplyLookup(c)
      PROVE  (\E t \in TxIds : StepAt(t)) \/ UNCHANGED <<req, txn, order>>
  <2>1. reconcile[c].pc = "apply" /\ UNCHANGED <<req, order>>
    BY <1>7 DEF ApplyLookup
  <2>2. CASE ApplyStatus(reconcile[c].tx, reconcile[c].report)
    BY <2>1, <2>2, ReconcileWorks, ApplyStep
  <2>3. CASE UNCHANGED ledgerVars
    BY <2>1, <2>3 DEF ledgerVars
  <2>4. QED
    BY <1>7, <2>2, <2>3, ApplyLookupApplies
<1>8. CASE Vanish
  BY <1>8, AbandonStep DEF Vanish, ledgerVars
<1>9. CASE Publish \/ UNCHANGED vars
  BY <1>9 DEF Publish, SetMerchantPricing, vars, handlers, ledgerVars
<1>10. QED
  BY <1>1, <1>2, <1>3, <1>4, <1>5, <1>6, <1>7, <1>8, <1>9 DEF Next, HandleCallback, HandleReconcile

\* So every transaction only moves forward.
LEMMA AllForward ==
    ASSUME IInv, [Next]_vars
    PROVE  \A t \in TxIds : Forward(t) /\ (Busy(t)' => Busy(t) \/ Owns(t)')
<1>1. ASSUME NEW t \in TxIds, req'[t] = req[t], txn'[t] = txn[t], order'[t] = order[t]
      PROVE  Forward(t) /\ (Busy(t)' => Busy(t))
  BY <1>1 DEF Forward, KeyOf, Exists, Busy
<1>2. ASSUME NEW t \in TxIds, StepAt(t), NEW u \in TxIds
      PROVE  Forward(u) /\ (Busy(u)' => Busy(u) \/ Owns(u)')
  BY <1>1, <1>2 DEF StepAt
<1>3. QED
  BY <1>1, <1>2, EveryStep

-----------------------------------------------------------------------------
(* Every step is a step of the ledger, or leaves it alone *)

LEMMA ApplyIsLedgerStep ==
    ASSUME IInv, NEW t \in TxIds, Exists(t), NEW report \in Reports,
           ProvidersAgree => Says(report, order[t]), ApplyStatus(t, report)
    PROVE  [LedgerNext]_ledgerVars
<1>1. RowOK(txn[t], order[t])
  BY At
<1>2. CASE SettlePixIn(t) \/ CompleteOutbound(t) \/ FailOutbound(t)
  BY <1>2 DEF LedgerNext
<1>3. CASE report = "failed" /\ txn[t].kind = "pix_in" /\ PatchStatus(t, "failed")
  <2>1. MayFailCharge(txn[t])
    BY <1>1, <1>3 DEF MayFailCharge, RowOK, Says, Exists
  <2>2. QED
    BY <1>3, <2>1 DEF LedgerNext, Patch
<1>4. CASE UNCHANGED ledgerVars
  BY <1>4
<1>5. QED
  BY <1>2, <1>3, <1>4 DEF ApplyStatus

LEMMA CreateIsLedgerStep ==
    ASSUME IInv, NEW r \in TxIds, Create(r)
    PROVE  [LedgerNext]_ledgerVars
<1>0. RequestOK(req[r], txn[r], order[r]) /\ RowOK(txn[r], order[r]) /\ (Exists(r) <=> txn[r] # NoTxn)
  BY At
<1>1. CASE BeginPayment(r)
  <2> DEFINE v == Len(pricing)
             amount == req[r].amount
             kind == req[r].kind
  <2>1. PICK a \in Accounts :
          \/ UNCHANGED ledgerVars
          \/ kind = "pix_in" /\ BeginPixIn(r, a, amount, v)
          \/ kind # "pix_in" /\ BeginOutbound(r, a, kind, amount, v)
    BY <1>1 DEF BeginPayment, Attempt
  <2>2. req[r].pc \in Places
    BY <1>1 DEF BeginPayment, Places
  <2>3. amount \in Amounts /\ kind \in Kinds
    BY <2>2, InPlace, GatewayAssumption DEF IInv
  <2>4. v \in 1..Len(pricing)
    BY DEF IInv, PricingOK, GatewayTypeOK, LedgerTypeOK
  <2>5. kind # "pix_in" => kind \in OutboundKinds
    BY <2>3 DEF Kinds, OutboundKinds
  <2> HIDE DEF v, amount, kind
  <2>6. Begin(r) \/ UNCHANGED ledgerVars
    BY <2>1, <2>3, <2>4, <2>5 DEF Begin
  <2>7. QED
    BY <2>6 DEF LedgerNext
<1>2. CASE StoreExternalId(r)
  <2>1. PatchExternalId(r) \/ UNCHANGED ledgerVars
    BY <1>2 DEF StoreExternalId, Attempt
  <2>2. Exists(r) /\ MayRecordId(txn[r])
    BY <1>0, <1>2 DEF StoreExternalId, RequestOK, MayRecordId, Places
  <2>3. QED
    BY <2>1, <2>2 DEF LedgerNext, Patch
<1>3. CASE ApplyResult(r)
  <2>1. req[r].pc = "apply" /\ req[r].pc \in Places /\ (ApplyStatus(r, req[r].result) \/ UNCHANGED ledgerVars)
    BY <1>3 DEF ApplyResult, Attempt, Places, ledgerVars
  <2>2. Exists(r) /\ req[r].result \in Reports /\ (ProvidersAgree => Says(req[r].result, order[r]))
    BY <1>0, <2>1, InPlace DEF RequestOK, Places, IInv
  <2>3. QED
    BY <2>1, <2>2, ApplyIsLedgerStep
<1>4. CASE Reject(r)
  <2>1. \/ req[r].kind = "pix_in" /\ PatchStatus(r, "failed")
        \/ FailOutbound(r)
        \/ UNCHANGED ledgerVars
    BY <1>4 DEF Reject, Attempt
  <2>2. Exists(r) /\ (req[r].kind = "pix_in" => MayFailCharge(txn[r]))
    BY <1>0, <1>4 DEF Reject, RequestOK, MayFailCharge, Places
  <2>3. QED
    BY <2>1, <2>2 DEF LedgerNext, Patch
<1>5. CASE MarkAmbiguous(r)
  <2>1. PatchStatus(r, "ambiguous") \/ UNCHANGED ledgerVars
    BY <1>5 DEF MarkAmbiguous, Attempt
  <2>2. Exists(r) /\ MayBecomeAmbiguous(txn[r])
    BY <1>0, <1>5 DEF MarkAmbiguous, RequestOK, MayBecomeAmbiguous, Places
  <2>3. QED
    BY <2>1, <2>2 DEF LedgerNext, Patch
<1>6. CASE \/ Claim(r) \/ CallProvider(r) \/ FetchRow(r) \/ FinishCreated(r) \/ NotifyCreated(r)
           \/ FinishRejected(r) \/ NotifyRejected(r) \/ FinishAmbiguous(r)
  BY <1>6 DEF Claim, CallProvider, FetchRow, FinishCreated, NotifyCreated, FinishRejected, NotifyRejected, FinishAmbiguous
<1>7. QED
  BY <1>1, <1>2, <1>3, <1>4, <1>5, <1>6 DEF Create

LEMMA LedgerStep ==
    ASSUME IInv, [Next]_vars
    PROVE  [LedgerNext]_ledgerVars
<1>1. ASSUME NEW r \in TxIds, Create(r) PROVE [LedgerNext]_ledgerVars
  BY <1>1, CreateIsLedgerStep
<1>2. ASSUME NEW t \in TxIds, Resolve(t) \/ Receive(t) PROVE UNCHANGED ledgerVars
  BY <1>2 DEF Resolve, Receive, ReceiveEvent
<1>3. ASSUME NEW c \in Callbacks, FindRow(c) \/ NotifyEvent(c) \/ MarkProcessed(c) PROVE UNCHANGED ledgerVars
  BY <1>3 DEF FindRow, NotifyEvent, MarkProcessed
<1>4. ASSUME NEW c \in Callbacks, ApplyEvent(c) PROVE [LedgerNext]_ledgerVars
  <2>1. callback[c].pc = "apply" /\ (ApplyStatus(callback[c].tx, callback[c].report) \/ UNCHANGED ledgerVars)
    BY <1>4 DEF ApplyEvent, Attempt, ledgerVars
  <2>2. QED
    BY <2>1, CallbackApplies, ApplyIsLedgerStep
<1>5. ASSUME NEW c \in Reconcilers, LookUp(c) \/ NotifyLookup(c) \/ (\E t \in TxIds : OpenReconcile(c, t))
      PROVE  UNCHANGED ledgerVars
  BY <1>5 DEF LookUp, NotifyLookup, OpenReconcile
<1>6. ASSUME NEW c \in Reconcilers, ApplyLookup(c) PROVE [LedgerNext]_ledgerVars
  <2>1. reconcile[c].pc = "apply"
    BY <1>6 DEF ApplyLookup
  <2>2. QED
    BY <1>6, <2>1, ApplyLookupApplies, ReconcileWorks, ApplyIsLedgerStep
<1>7. CASE Vanish
  BY <1>7 DEF Vanish
<1>8. CASE Publish
  BY <1>8 DEF Publish, LedgerNext
<1>9. CASE UNCHANGED vars
  BY <1>9 DEF vars
<1>10. QED
  BY <1>1, <1>2, <1>3, <1>4, <1>5, <1>6, <1>7, <1>8, <1>9 DEF Next, HandleCallback, HandleReconcile

-----------------------------------------------------------------------------
(* The parts of the invariant, one by one *)

LEMMA RequestsInductive ==
    ASSUME IInv, [Next]_vars
    PROVE  RequestsOK' /\ RowsOK'
<1>1. CASE UNCHANGED <<req, txn, order>>
  BY <1>1 DEF IInv, RequestsOK, RowsOK
<1>2. ASSUME NEW t \in TxIds, StepAt(t) PROVE RequestsOK' /\ RowsOK'
  <2>1. ASSUME NEW u \in TxIds
        PROVE  RequestOK(req'[u], txn'[u], order'[u]) /\ RowOK(txn'[u], order'[u])
    <3>1. CASE u = t
      BY <1>2, <3>1 DEF StepAt
    <3>2. CASE u # t
      BY <1>2, <3>2, At DEF StepAt
    <3>3. QED
      BY <3>1, <3>2
  <2>2. QED
    BY <2>1 DEF RequestsOK, RowsOK
<1>3. QED
  BY <1>1, <1>2, EveryStep

\* What a row of the key table says stays true while its transaction moves on.
LEMMA KeyRowKept ==
    ASSUME IInv, NEW t \in TxIds, Forward(t), NEW k, KeyOK(k, req[t], txn[t], order[t])
    PROVE  KeyOK(k, req'[t], txn'[t], order'[t])
BY DEF KeyOK, Forward, Exists, Terminal

\* Keys that stay with the request that claimed them have their owners.
LEMMA OwnersKept ==
    ASSUME IInv, [Next]_vars,
           \A k \in RequestKinds \X Keys : idem[k] # NoKey => idem'[k] # NoKey /\ idem'[k].tx = idem[k].tx
    PROVE  OwnersOK'
<1>1. ASSUME NEW t \in TxIds, Busy(t)' PROVE Owns(t)'
  <2>1. Forward(t) /\ (Busy(t) \/ Owns(t)')
    BY <1>1, AllForward
  <2>2. CASE Busy(t)
    <3>1. Owns(t)
      BY <2>2 DEF IInv, OwnersOK, Busy
    <3>2. req[t].pc # "new" /\ req[t] \in Request
      BY <2>2, At DEF Busy, Places, RequestOK, RowOK
    <3>3. req[t].kind \in RequestKinds /\ req[t].key \in Keys
      BY <3>2 DEF Request, New, Running, Done
    <3>4. KeyOf(t) \in RequestKinds \X Keys /\ KeyOf(t)' = KeyOf(t)
      BY <2>1, <3>2, <3>3 DEF Forward, KeyOf
    <3>5. QED
      BY <3>1, <3>4 DEF Owns
  <2>3. QED
    BY <2>1, <2>2
<1>2. QED
  BY <1>1 DEF OwnersOK, Busy

LEMMA KeysKept ==
    ASSUME IInv, [Next]_vars, UNCHANGED idem
    PROVE  OwnersOK' /\ KeysOK'
<1>1. ASSUME NEW k \in RequestKinds \X Keys, idem[k] # NoKey
      PROVE  KeyOK(idem[k], req'[idem[k].tx], txn'[idem[k].tx], order'[idem[k].tx])
  <2>1. idem[k].tx \in TxIds
    BY <1>1 DEF IInv, GatewayTypeOK, KeyRow
  <2>2. KeyOK(idem[k], req[idem[k].tx], txn[idem[k].tx], order[idem[k].tx])
    BY <1>1 DEF IInv, KeysOK
  <2>3. QED
    BY <2>1, <2>2, AllForward, KeyRowKept
<1>2. KeysOK'
  BY <1>1 DEF KeysOK
<1>3. QED
  BY <1>2, OwnersKept

\* finish_idempotency closes the key of the request that calls it, and only it.
LEMMA FinishKeyRow ==
    ASSUME IInv, NEW r \in TxIds, req[r].pc \in Places,
           NEW status \in {"succeeded", "failed_final", "ambiguous"},
           NEW response \in Statuses \cup {"none"}, FinishKey(r, status, response)
    PROVE  /\ idem' \in [RequestKinds \X Keys -> KeyRow \cup {NoKey}]
           /\ KeyOf(r) \in RequestKinds \X Keys
           /\ idem'[KeyOf(r)].status = status /\ idem'[KeyOf(r)].response = response
           /\ idem'[KeyOf(r)].tx = r /\ idem'[KeyOf(r)] # NoKey
           /\ idem[KeyOf(r)].tx = r
           /\ \A k \in RequestKinds \X Keys : k # KeyOf(r) => idem'[k] = idem[k]
<1> DEFINE key == KeyOf(r)
           new == [[idem[key] EXCEPT !.status = status] EXCEPT !.response = response]
<1>1. key \in RequestKinds \X Keys /\ idem \in [RequestKinds \X Keys -> KeyRow \cup {NoKey}]
  BY InPlace DEF IInv, GatewayTypeOK
<1>2. idem[key] # NoKey /\ idem[key].tx = r
  BY DEF IInv, OwnersOK, Owns
<1>3. idem[key] \in KeyRow
  BY <1>1, <1>2
<1>4. new \in KeyRow /\ new.status = status /\ new.response = response /\ new.tx = r
  BY <1>2, <1>3 DEF KeyRow
<1>5. idem' = [idem EXCEPT ![key] = new]
  <2> HIDE DEF key
  <2>1. QED
    BY <1>1 DEF FinishKey, key
<1>6. new # NoKey
  BY <1>4, GatewayAssumption
<1> HIDE DEF new, key
<1>7. /\ idem'[key] = new /\ idem' \in [RequestKinds \X Keys -> KeyRow \cup {NoKey}]
      /\ \A k \in RequestKinds \X Keys : k # key => idem'[k] = idem[k]
  BY <1>1, <1>4, <1>5
<1>8. QED
  BY <1>1, <1>2, <1>4, <1>6, <1>7 DEF key

\* A closed key says what its request's place allows it to say.
LEMMA FinishKeyKeeps ==
    ASSUME IInv, [Next]_vars, NEW r \in TxIds, req[r].pc \in Places,
           NEW status \in {"succeeded", "failed_final", "ambiguous"},
           NEW response \in Statuses \cup {"none"}, FinishKey(r, status, response),
           status = "failed_final" => order'[r] = "none" /\ req'[r].pc \in {"reject_notify", "done"},
           status = "succeeded" => txn'[r] # NoTxn /\ txn'[r].ext,
           ProvidersAgree /\ response \in Terminal => txn'[r] # NoTxn /\ txn'[r].status = response
    PROVE  OwnersOK' /\ KeysOK'
<1>1. ASSUME NEW k \in RequestKinds \X Keys, idem'[k] # NoKey
      PROVE  KeyOK(idem'[k], req'[idem'[k].tx], txn'[idem'[k].tx], order'[idem'[k].tx])
  <2>1. CASE k = KeyOf(r)
    BY <2>1, FinishKeyRow DEF KeyOK
  <2>2. CASE k # KeyOf(r)
    <3>1. idem'[k] = idem[k] /\ idem[k].tx \in TxIds
      BY <1>1, <2>2, FinishKeyRow DEF IInv, GatewayTypeOK, KeyRow
    <3>2. KeyOK(idem[k], req[idem[k].tx], txn[idem[k].tx], order[idem[k].tx])
      BY <1>1, <3>1 DEF IInv, KeysOK
    <3>3. QED
      BY <3>1, <3>2, AllForward, KeyRowKept
  <2>3. QED
    BY <2>1, <2>2
<1>2. KeysOK'
  BY <1>1 DEF KeysOK
<1>3. \A k \in RequestKinds \X Keys : idem[k] # NoKey => idem'[k] # NoKey /\ idem'[k].tx = idem[k].tx
  BY FinishKeyRow
<1>4. QED
  BY <1>2, <1>3, OwnersKept

IdemType == idem \in [RequestKinds \X Keys -> KeyRow \cup {NoKey}]

\* claim_idempotency takes only a key that is free, and the new row promises
\* nothing yet.
LEMMA ClaimKeeps ==
    ASSUME IInv, [Next]_vars, NEW r \in TxIds, Claim(r)
    PROVE  OwnersOK' /\ KeysOK' /\ IdemType'
<1>0. idem \in [RequestKinds \X Keys -> KeyRow \cup {NoKey}]
  BY DEF IInv, GatewayTypeOK
<1>1. CASE UNCHANGED idem
  BY <1>0, <1>1, KeysKept DEF IdemType
<1>2. ASSUME NEW kind \in RequestKinds, NEW key \in Keys, NEW amount \in Amounts, idem[<<kind, key>>] = NoKey,
             idem' = [idem EXCEPT ![<<kind, key>>] =
                         [amount |-> amount, tx |-> r, status |-> "processing", response |-> "none"]]
      PROVE  OwnersOK' /\ KeysOK' /\ IdemType'
  <2> DEFINE row == [amount |-> amount, tx |-> r, status |-> "processing", response |-> "none"]
             k0 == <<kind, key>>
  <2>1. row \in KeyRow /\ row.status = "processing" /\ row.response = "none"
    BY DEF KeyRow
  <2>2. k0 \in RequestKinds \X Keys /\ idem[k0] = NoKey /\ idem' = [idem EXCEPT ![k0] = row]
    BY <1>2
  <2> HIDE DEF row, k0
  <2>3. /\ idem'[k0] = row /\ IdemType'
        /\ \A k \in RequestKinds \X Keys : k # k0 => idem'[k] = idem[k]
    BY <1>0, <2>1, <2>2 DEF IdemType
  <2>4. ASSUME NEW k \in RequestKinds \X Keys, idem'[k] # NoKey
        PROVE  KeyOK(idem'[k], req'[idem'[k].tx], txn'[idem'[k].tx], order'[idem'[k].tx])
    <3>1. CASE k = k0
      BY <2>1, <2>3, <3>1 DEF KeyOK, Terminal
    <3>2. CASE k # k0
      <4>1. idem'[k] = idem[k] /\ idem[k].tx \in TxIds
        BY <1>0, <2>3, <2>4, <3>2 DEF KeyRow
      <4>2. KeyOK(idem[k], req[idem[k].tx], txn[idem[k].tx], order[idem[k].tx])
        BY <2>4, <4>1 DEF IInv, KeysOK
      <4>3. QED
        BY <4>1, <4>2, AllForward, KeyRowKept
    <3>3. QED
      BY <3>1, <3>2
  <2>5. KeysOK'
    BY <2>4 DEF KeysOK
  <2>6. OwnersOK'
    BY <2>2, <2>3, OwnersKept
  <2>7. QED
    BY <2>3, <2>5, <2>6
<1>3. QED
  BY <1>1, <1>2 DEF Claim, ClaimFirst, ClaimAgain, Attempt

LEMMA FinishKeeps ==
    ASSUME IInv, [Next]_vars, NEW r \in TxIds, FinishCreated(r) \/ FinishRejected(r) \/ FinishAmbiguous(r)
    PROVE  OwnersOK' /\ KeysOK' /\ IdemType'
<1>0. IdemType
  BY DEF IdemType, IInv, GatewayTypeOK
<1>1. CASE UNCHANGED idem
  BY <1>0, <1>1, KeysKept DEF IdemType
<1>2. RequestOK(req[r], txn[r], order[r]) /\ txn[r] \in Txn \cup {NoTxn} /\ UNCHANGED <<txn, order>>
  BY At DEF FinishCreated, FinishRejected, FinishAmbiguous, ledgerVars
<1>3. CASE FinishCreated(r) /\ FinishKey(r, "succeeded", req[r].seen)
  <2>1. req[r].pc = "finish" /\ req[r].pc \in Places /\ req[r].seen \in Statuses \cup {"none"}
    BY <1>3, InPlace DEF FinishCreated, Places, IInv
  <2>2. /\ txn'[r] # NoTxn /\ txn'[r].ext
        /\ ProvidersAgree /\ req[r].seen \in Terminal => txn'[r].status = req[r].seen
    BY <1>2, <2>1 DEF RequestOK, Places
  <2>3. QED
    BY <1>3, <2>1, <2>2, FinishKeyRow, FinishKeyKeeps DEF IdemType
<1>4. CASE FinishRejected(r) /\ \E response \in {txn[r].status, "none"} : FinishKey(r, "failed_final", response)
  <2>1. req[r].pc = "reject_finish" /\ req[r].pc \in Places
    BY <1>4 DEF FinishRejected, Places
  <2>2. PICK response \in {txn[r].status, "none"} : FinishKey(r, "failed_final", response)
    BY <1>4
  <2>3. txn[r] # NoTxn /\ txn[r].status \in Statuses /\ order'[r] = "none" /\ txn'[r] = txn[r]
    BY <1>2, <2>1 DEF RequestOK, Places, Txn
  <2>4. Step(r, "reject_notify") \/ Answer(r, "refused")
    BY <1>4 DEF FinishRejected, Attempt
  <2>5. req'[r].pc \in {"reject_notify", "done"}
    BY <2>1, <2>4, StepGoes, AnswerEnds DEF Goes, Ends, IInv, Places, Replies
  <2>6. response \in Statuses \cup {"none"} /\ (response \in Terminal => txn'[r].status = response)
    BY <2>2, <2>3 DEF Terminal
  <2>7. IdemType'
    BY <2>1, <2>2, <2>6, FinishKeyRow DEF IdemType
  <2>8. OwnersOK' /\ KeysOK'
    BY <2>1, <2>2, <2>3, <2>5, <2>6, FinishKeyKeeps
  <2>9. QED
    BY <2>7, <2>8
<1>5. CASE FinishAmbiguous(r) /\ \E response \in {txn[r].status, "none"} : FinishKey(r, "ambiguous", response)
  <2>1. req[r].pc = "unknown_finish" /\ req[r].pc \in Places
    BY <1>5 DEF FinishAmbiguous, Places
  <2>2. PICK response \in {txn[r].status, "none"} : FinishKey(r, "ambiguous", response)
    BY <1>5
  <2>3. txn[r] # NoTxn /\ txn[r].status \in Statuses /\ txn'[r] = txn[r]
    BY <1>2, <2>1 DEF RequestOK, Places, Txn
  <2>4. response \in Statuses \cup {"none"} /\ (response \in Terminal => txn'[r].status = response)
    BY <2>2, <2>3 DEF Terminal
  <2>5. IdemType'
    BY <2>1, <2>2, <2>4, FinishKeyRow DEF IdemType
  <2>6. OwnersOK' /\ KeysOK'
    BY <2>1, <2>2, <2>3, <2>4, FinishKeyKeeps
  <2>7. QED
    BY <2>5, <2>6
<1>6. QED
  BY <1>1, <1>3, <1>4, <1>5 DEF FinishCreated, FinishRejected, FinishAmbiguous, Attempt

LEMMA KeysInductive ==
    ASSUME IInv, [Next]_vars
    PROVE  OwnersOK' /\ KeysOK' /\ IdemType'
<1>0. IdemType
  BY DEF IdemType, IInv, GatewayTypeOK
<1>1. CASE UNCHANGED idem
  BY <1>0, <1>1, KeysKept DEF IdemType
<1>2. ASSUME NEW r \in TxIds, Create(r) PROVE OwnersOK' /\ KeysOK' /\ IdemType'
  <2>1. CASE Claim(r)
    BY <2>1, ClaimKeeps
  <2>2. CASE FinishCreated(r) \/ FinishRejected(r) \/ FinishAmbiguous(r)
    BY <2>2, FinishKeeps
  <2>3. CASE \/ BeginPayment(r) \/ CallProvider(r) \/ StoreExternalId(r) \/ ApplyResult(r) \/ FetchRow(r)
             \/ NotifyCreated(r) \/ Reject(r) \/ NotifyRejected(r) \/ MarkAmbiguous(r)
    BY <1>1, <2>3
    DEF BeginPayment, CallProvider, StoreExternalId, ApplyResult, FetchRow, NotifyCreated, Reject,
        NotifyRejected, MarkAmbiguous
  <2>4. QED
    BY <1>2, <2>1, <2>2, <2>3 DEF Create
<1>3. ASSUME NEW t \in TxIds, Resolve(t) \/ Receive(t) PROVE UNCHANGED idem
  BY <1>3 DEF Resolve, Receive, ReceiveEvent
<1>4. ASSUME NEW c \in Callbacks, HandleCallback(c) PROVE UNCHANGED idem
  BY <1>4 DEF HandleCallback, FindRow, ApplyEvent, NotifyEvent, MarkProcessed
<1>5. ASSUME NEW c \in Reconcilers, HandleReconcile(c) \/ (\E t \in TxIds : OpenReconcile(c, t)) PROVE UNCHANGED idem
  BY <1>5 DEF HandleReconcile, LookUp, ApplyLookup, NotifyLookup, OpenReconcile
<1>6. QED
  BY <1>1, <1>2, <1>3, <1>4, <1>5 DEF Next, Publish, Vanish, vars

CallbackType == callback \in [Callbacks -> Callback]
ReconcileType == reconcile \in [Reconcilers -> Reconcile]
EvidenceType == evidence \in [TxIds \X Reports -> {"none", "recorded", "processed"}]

\* What a callback relies on stays true while its transaction moves on.
LEMMA CallbackRowKept ==
    ASSUME IInv, NEW t \in TxIds, Forward(t), NEW x, CallbackOK(x, txn[t], order[t])
    PROVE  CallbackOK(x, txn'[t], order'[t])
<1>1. RequestOK(req[t], txn[t], order[t])
  BY At
<1>2. order'[t] # order[t] => order[t] \notin {"paid", "refused"}
  BY <1>1 DEF Forward, RequestOK
<1>3. Says(x.report, order[t]) => Says(x.report, order'[t])
  BY <1>2 DEF Says
<1>4. QED
  BY <1>3 DEF CallbackOK, Forward, Exists

LEMMA CallbacksKept ==
    ASSUME IInv, [Next]_vars, NEW c \in Callbacks, NEW x \in Callback, callback' = [callback EXCEPT ![c] = x],
           x # Idle => CallbackOK(x, txn'[x.tx], order'[x.tx])
    PROVE  CallbackType' /\ CallbacksOK'
<1>1. /\ callback' \in [Callbacks -> Callback] /\ callback'[c] = x
      /\ \A d \in Callbacks : d # c => callback'[d] = callback[d]
  BY DEF IInv, GatewayTypeOK
<1>2. ASSUME NEW d \in Callbacks, callback'[d] # Idle
      PROVE  CallbackOK(callback'[d], txn'[callback'[d].tx], order'[callback'[d].tx])
  <2>1. CASE d = c
    BY <1>1, <1>2, <2>1
  <2>2. CASE d # c
    <3>1. callback'[d] = callback[d] /\ callback[d].tx \in TxIds
      BY <1>1, <1>2, <2>2 DEF Callback
    <3>2. CallbackOK(callback[d], txn[callback[d].tx], order[callback[d].tx])
      BY <1>2, <3>1 DEF IInv, CallbacksOK
    <3>3. QED
      BY <3>1, <3>2, AllForward, CallbackRowKept
  <2>3. QED
    BY <2>1, <2>2
<1>3. QED
  BY <1>1, <1>2 DEF CallbackType, CallbacksOK

LEMMA CallbacksUntouched ==
    ASSUME IInv, [Next]_vars, UNCHANGED callback
    PROVE  CallbackType' /\ CallbacksOK'
<1>1. ASSUME NEW d \in Callbacks, callback'[d] # Idle
      PROVE  CallbackOK(callback'[d], txn'[callback'[d].tx], order'[callback'[d].tx])
  <2>1. callback[d].tx \in TxIds
    BY <1>1 DEF IInv, GatewayTypeOK, Callback
  <2>2. CallbackOK(callback[d], txn[callback[d].tx], order[callback[d].tx])
    BY <1>1 DEF IInv, CallbacksOK
  <2>3. QED
    BY <2>1, <2>2, AllForward, CallbackRowKept
<1>2. QED
  BY <1>1 DEF CallbackType, CallbacksOK, IInv, GatewayTypeOK

LEMMA CallbackEndsKeeps ==
    ASSUME IInv, [Next]_vars, NEW c \in Callbacks, CallbackEnds(c)
    PROVE  CallbackType' /\ CallbacksOK'
BY CallbacksKept DEF CallbackEnds, Callback

\* A callback that goes on to a place its row allows.
LEMMA CallbackAtKeeps ==
    ASSUME IInv, [Next]_vars, NEW c \in Callbacks, callback[c] # Idle,
           NEW pc \in {"apply", "notify", "mark"}, CallbackAt(c, pc),
           LET t == callback[c].tx
           IN  /\ txn'[t] # NoTxn /\ txn'[t].ext
               /\ ProvidersAgree => /\ Says(callback[c].report, order'[t])
                                    /\ pc # "apply" /\ callback[c].report \in Terminal
                                         => txn'[t].status = callback[c].report
    PROVE  CallbackType' /\ CallbacksOK'
<1> DEFINE x == [callback[c] EXCEPT !.pc = pc]
<1>1. callback[c] \in Callback \ {Idle}
  BY DEF IInv, GatewayTypeOK
<1>2. x \in Callback /\ x.pc = pc /\ x.tx = callback[c].tx /\ x.report = callback[c].report
  BY <1>1 DEF Callback
<1>3. callback' = [callback EXCEPT ![c] = x]
  BY DEF CallbackAt
<1> HIDE DEF x
<1>4. CallbackOK(x, txn'[x.tx], order'[x.tx])
  BY <1>2 DEF CallbackOK
<1>5. QED
  BY <1>2, <1>3, <1>4, CallbacksKept

LEMMA CallbacksInductive ==
    ASSUME IInv, [Next]_vars
    PROVE  CallbackType' /\ CallbacksOK'
<1>1. CASE UNCHANGED callback
  BY <1>1, CallbacksUntouched
<1>2. ASSUME NEW c \in Callbacks, CallbackEnds(c) PROVE CallbackType' /\ CallbacksOK'
  BY <1>2, CallbackEndsKeeps
<1>3. ASSUME NEW t \in TxIds, NEW c \in Callbacks, NEW report \in Reports, ReceiveEvent(c, t, report)
      PROVE  CallbackType' /\ CallbacksOK'
  <2>1. CASE callback' = [callback EXCEPT ![c] = [pc |-> "find", tx |-> t, report |-> report]]
    <3> DEFINE x == [pc |-> "find", tx |-> t, report |-> report]
    <3>1. x \in Callback /\ x.pc = "find" /\ x.tx = t /\ x.report = report
      BY DEF Callback
    <3>2. order'[t] = order[t] /\ report \in EventsOf(t) /\ order[t] \in Orders
      BY <1>3, At DEF ReceiveEvent
    <3>3. ProvidersAgree => Says(report, order'[t])
      BY <3>2 DEF EventsOf, Truth, Says, Orders
    <3> HIDE DEF x
    <3>4. CallbackOK(x, txn'[x.tx], order'[x.tx])
      BY <3>1, <3>3 DEF CallbackOK
    <3>5. callback' = [callback EXCEPT ![c] = x]
      BY <2>1 DEF x
    <3>6. QED
      BY <3>1, <3>4, <3>5, CallbacksKept
  <2>2. QED
    BY <1>1, <1>3, <2>1 DEF ReceiveEvent, Attempt
<1>4. ASSUME NEW c \in Callbacks, callback[c].pc \in {"find", "apply", "notify", "mark"}
      PROVE  /\ callback[c] # Idle /\ callback[c].tx \in TxIds /\ callback[c].report \in Reports
             /\ CallbackOK(callback[c], txn[callback[c].tx], order[callback[c].tx])
             /\ CallbackOK(callback[c], txn'[callback[c].tx], order'[callback[c].tx])
  <2>1. callback[c] # Idle /\ callback[c].tx \in TxIds /\ callback[c].report \in Reports
    BY <1>4 DEF IInv, GatewayTypeOK, Callback, Idle
  <2>2. QED
    BY <2>1, AllForward, CallbackRowKept DEF IInv, CallbacksOK
<1>5. ASSUME NEW c \in Callbacks, FindRow(c) PROVE CallbackType' /\ CallbacksOK'
  <2> DEFINE t == callback[c].tx
             pc == IF callback[c].report = "pending" THEN "notify" ELSE "apply"
  <2>1. CASE Exists(t) /\ txn[t].ext /\ CallbackAt(c, pc)
    <3>1. callback[c].pc = "find" /\ UNCHANGED txn
      BY <1>5 DEF FindRow, ledgerVars
    <3>2. pc \in {"apply", "notify", "mark"} /\ (pc # "apply" => callback[c].report \notin Terminal)
      BY DEF Terminal
    <3> HIDE DEF pc
    <3>3. QED
      BY <1>4, <2>1, <3>1, <3>2, CallbackAtKeeps DEF CallbackOK, Exists
  <2>2. QED
    BY <1>2, <1>5, <2>1 DEF FindRow
<1>6. ASSUME NEW c \in Callbacks, ApplyEvent(c) PROVE CallbackType' /\ CallbacksOK'
  <2> DEFINE t == callback[c].tx
             report == callback[c].report
  <2>1. CASE ApplyStatus(t, report) /\ CallbackAt(c, "notify")
    <3>1. callback[c].pc = "apply"
      BY <1>6 DEF ApplyEvent
    <3>2. t \in TxIds /\ Exists(t) /\ txn[t].ext /\ report \in Reports
      BY <3>1, CallbackApplies
    <3>3. RowBecomes(t, txn[t].kind, IF report = "pending" THEN txn[t].status ELSE report, txn[t].ext)
      BY <2>1, <3>2, ApplyRow DEF IInv, GatewayTypeOK
    <3>4. txn'[t] # NoTxn /\ txn'[t].ext /\ (report \in Terminal => txn'[t].status = report)
      BY <3>2, <3>3 DEF RowBecomes, Terminal
    <3>5. callback[c] # Idle /\ (ProvidersAgree => Says(report, order'[t]))
      BY <1>4, <3>1 DEF CallbackOK
    <3>6. QED
      BY <2>1, <3>4, <3>5, CallbackAtKeeps
  <2>2. QED
    BY <1>2, <1>6, <2>1 DEF ApplyEvent, Attempt
<1>7. ASSUME NEW c \in Callbacks, NotifyEvent(c) PROVE CallbackType' /\ CallbacksOK'
  <2>1. callback[c].pc = "notify" /\ CallbackAt(c, "mark")
    BY <1>7 DEF NotifyEvent, Notify, Attempt
  <2>2. QED
    BY <1>4, <2>1, CallbackAtKeeps DEF CallbackOK
<1>8. ASSUME NEW c \in Callbacks, MarkProcessed(c) PROVE CallbackEnds(c)
  BY <1>8 DEF MarkProcessed, Attempt
<1>9. ASSUME NEW r \in TxIds, Create(r) \/ Resolve(r) PROVE UNCHANGED callback
  BY <1>9
  DEF Create, Claim, BeginPayment, CallProvider, StoreExternalId, ApplyResult, FetchRow, FinishCreated,
      NotifyCreated, Reject, FinishRejected, NotifyRejected, MarkAmbiguous, FinishAmbiguous, Resolve, handlers
<1>10. ASSUME NEW c \in Reconcilers, HandleReconcile(c) \/ (\E t \in TxIds : OpenReconcile(c, t))
       PROVE  UNCHANGED callback
  BY <1>10 DEF HandleReconcile, LookUp, ApplyLookup, NotifyLookup, OpenReconcile
<1>11. CASE Vanish
  BY <1>1, <1>2, <1>11 DEF Vanish
<1>12. CASE Publish \/ UNCHANGED vars
  BY <1>1, <1>12 DEF Publish, vars, handlers
<1>13. QED
  BY <1>1, <1>2, <1>3, <1>5, <1>6, <1>7, <1>8, <1>9, <1>10, <1>11, <1>12 DEF Next, HandleCallback, Receive

\* What a reconciliation relies on stays true while its transaction moves on.
LEMMA ReconcileRowKept ==
    ASSUME IInv, NEW t \in TxIds, Forward(t), NEW x, ReconcileOK(x, txn[t], order[t])
    PROVE  ReconcileOK(x, txn'[t], order'[t])
<1>1. RequestOK(req[t], txn[t], order[t])
  BY At
<1>2. order'[t] # order[t] => order[t] \notin {"paid", "refused"}
  BY <1>1 DEF Forward, RequestOK
<1>3. Says(x.report, order[t]) => Says(x.report, order'[t])
  BY <1>2 DEF Says
<1>4. QED
  BY <1>3 DEF ReconcileOK, Forward, Exists

LEMMA ReconcilesKept ==
    ASSUME IInv, [Next]_vars, NEW c \in Reconcilers, NEW x \in Reconcile, reconcile' = [reconcile EXCEPT ![c] = x],
           x # Idle => ReconcileOK(x, txn'[x.tx], order'[x.tx])
    PROVE  ReconcileType' /\ ReconcilesOK'
<1>1. /\ reconcile' \in [Reconcilers -> Reconcile] /\ reconcile'[c] = x
      /\ \A d \in Reconcilers : d # c => reconcile'[d] = reconcile[d]
  BY DEF IInv, GatewayTypeOK
<1>2. ASSUME NEW d \in Reconcilers, reconcile'[d] # Idle
      PROVE  ReconcileOK(reconcile'[d], txn'[reconcile'[d].tx], order'[reconcile'[d].tx])
  <2>1. CASE d = c
    BY <1>1, <1>2, <2>1
  <2>2. CASE d # c
    <3>1. reconcile'[d] = reconcile[d] /\ reconcile[d].tx \in TxIds
      BY <1>1, <1>2, <2>2 DEF Reconcile
    <3>2. ReconcileOK(reconcile[d], txn[reconcile[d].tx], order[reconcile[d].tx])
      BY <1>2, <3>1 DEF IInv, ReconcilesOK
    <3>3. QED
      BY <3>1, <3>2, AllForward, ReconcileRowKept
  <2>3. QED
    BY <2>1, <2>2
<1>3. QED
  BY <1>1, <1>2 DEF ReconcileType, ReconcilesOK

LEMMA ReconcilesUntouched ==
    ASSUME IInv, [Next]_vars, UNCHANGED reconcile
    PROVE  ReconcileType' /\ ReconcilesOK'
<1>1. ASSUME NEW d \in Reconcilers, reconcile'[d] # Idle
      PROVE  ReconcileOK(reconcile'[d], txn'[reconcile'[d].tx], order'[reconcile'[d].tx])
  <2>1. reconcile[d].tx \in TxIds
    BY <1>1 DEF IInv, GatewayTypeOK, Reconcile
  <2>2. ReconcileOK(reconcile[d], txn[reconcile[d].tx], order[reconcile[d].tx])
    BY <1>1 DEF IInv, ReconcilesOK
  <2>3. QED
    BY <2>1, <2>2, AllForward, ReconcileRowKept
<1>2. QED
  BY <1>1 DEF ReconcileType, ReconcilesOK, IInv, GatewayTypeOK

LEMMA ReconcilesInductive ==
    ASSUME IInv, [Next]_vars
    PROVE  ReconcileType' /\ ReconcilesOK'
<1>1. CASE UNCHANGED reconcile
  BY <1>1, ReconcilesUntouched
<1>2. ASSUME NEW c \in Reconcilers, ReconcileEnds(c) PROVE ReconcileType' /\ ReconcilesOK'
  BY <1>2, ReconcilesKept DEF ReconcileEnds, Reconcile
<1>3. ASSUME NEW c \in Reconcilers, NEW t \in TxIds, OpenReconcile(c, t) PROVE ReconcileType' /\ ReconcilesOK'
  <2> DEFINE x == [pc |-> "lookup", tx |-> t, report |-> "pending", before |-> txn[t].status]
  <2>1. /\ txn'[t] = txn[t] /\ txn[t] # NoTxn /\ txn[t].ext /\ txn[t].status \notin Terminal
        /\ txn[t].status \in Statuses /\ txn[t].status # "ambiguous"
    BY <1>3, At DEF OpenReconcile, Exists, RowOK, Txn, ledgerVars
  <2>2. x \in Reconcile /\ x.tx = t /\ x.report = "pending" /\ x.before = txn[t].status
    BY <2>1 DEF Reconcile, Reports
  <2>3. reconcile' = [reconcile EXCEPT ![c] = x]
    BY <1>3 DEF OpenReconcile
  <2> HIDE DEF x
  <2>4. ReconcileOK(x, txn'[x.tx], order'[x.tx])
    BY <2>1, <2>2 DEF ReconcileOK, Says
  <2>5. QED
    BY <2>2, <2>3, <2>4, ReconcilesKept
<1>4. ASSUME NEW c \in Reconcilers, reconcile[c].pc # "idle"
      PROVE  /\ reconcile[c] \in Reconcile \ {Idle} /\ reconcile[c].tx \in TxIds
             /\ ReconcileOK(reconcile[c], txn'[reconcile[c].tx], order'[reconcile[c].tx])
  <2>1. reconcile[c] \in Reconcile \ {Idle}
    BY <1>4 DEF IInv, GatewayTypeOK, Idle
  <2>2. reconcile[c].tx \in TxIds /\ ReconcileOK(reconcile[c], txn[reconcile[c].tx], order[reconcile[c].tx])
    BY <2>1 DEF IInv, ReconcilesOK, Reconcile
  <2>3. QED
    BY <2>1, <2>2, AllForward, ReconcileRowKept
<1>5. ASSUME NEW c \in Reconcilers, LookUp(c) PROVE ReconcileType' /\ ReconcilesOK'
  <2>1. CASE ReconcileEnds(c)
    BY <1>2, <2>1
  <2>2. ASSUME NEW report \in LookupsOf(reconcile[c].tx),
               reconcile' = [reconcile EXCEPT ![c].pc = "apply", ![c].report = report]
        PROVE  ReconcileType' /\ ReconcilesOK'
    <3> DEFINE x == [[reconcile[c] EXCEPT !.pc = "apply"] EXCEPT !.report = report]
               t == reconcile[c].tx
    <3>1. reconcile[c].pc # "idle" /\ order' = order
      BY <1>5 DEF LookUp
    <3>2. order[t] \in {"open", "paid", "refused"}
      BY <3>1, ReconcileWorks
    <3>3. report \in Reports /\ (ProvidersAgree => Says(report, order'[t]))
      BY <2>2, <3>1, <3>2 DEF LookupsOf, Truth, Reports, Says
    <3>4. /\ reconcile[c] \in Reconcile \ {Idle}
          /\ ReconcileOK(reconcile[c], txn'[t], order'[t])
      BY <1>4, <3>1
    <3>5. /\ x \in Reconcile /\ x.tx = t /\ x.report = report /\ x.before = reconcile[c].before
      BY <3>3, <3>4 DEF Reconcile
    <3>6. reconcile' = [reconcile EXCEPT ![c] = x]
      BY <2>2 DEF IInv, GatewayTypeOK
    <3> HIDE DEF x, t
    <3>7. ReconcileOK(x, txn'[x.tx], order'[x.tx])
      BY <3>3, <3>4, <3>5 DEF ReconcileOK
    <3>8. QED
      BY <3>5, <3>6, <3>7, ReconcilesKept
  <2>3. QED
    BY <1>5, <2>1, <2>2 DEF LookUp
<1>6. ASSUME NEW c \in Reconcilers, ApplyLookup(c) PROVE ReconcileType' /\ ReconcilesOK'
  <2>1. CASE ReconcileEnds(c)
    BY <1>2, <2>1
  <2>2. CASE ReconcileAt(c, "notify")
    <3> DEFINE x == [reconcile[c] EXCEPT !.pc = "notify"]
               t == reconcile[c].tx
    <3>1. reconcile[c].pc # "idle"
      BY <1>6 DEF ApplyLookup
    <3>2. /\ reconcile[c] \in Reconcile \ {Idle}
          /\ ReconcileOK(reconcile[c], txn'[t], order'[t])
      BY <1>4, <3>1
    <3>3. x \in Reconcile /\ x.tx = t /\ x.report = reconcile[c].report /\ x.before = reconcile[c].before
      BY <3>2 DEF Reconcile
    <3>4. reconcile' = [reconcile EXCEPT ![c] = x]
      BY <2>2 DEF ReconcileAt
    <3> HIDE DEF x, t
    <3>5. ReconcileOK(x, txn'[x.tx], order'[x.tx])
      BY <3>2, <3>3 DEF ReconcileOK
    <3>6. QED
      BY <3>3, <3>4, <3>5, ReconcilesKept
  <2>3. QED
    BY <1>6, <2>1, <2>2 DEF ApplyLookup, Attempt
<1>7. ASSUME NEW c \in Reconcilers, NotifyLookup(c) PROVE ReconcileEnds(c)
  BY <1>7 DEF NotifyLookup, Notify, Attempt
<1>8. ASSUME NEW r \in TxIds, Create(r) \/ Resolve(r) \/ Receive(r) PROVE UNCHANGED reconcile
  BY <1>8
  DEF Create, Claim, BeginPayment, CallProvider, StoreExternalId, ApplyResult, FetchRow, FinishCreated,
      NotifyCreated, Reject, FinishRejected, NotifyRejected, MarkAmbiguous, FinishAmbiguous, Resolve,
      Receive, ReceiveEvent, handlers
<1>9. ASSUME NEW c \in Callbacks, HandleCallback(c) PROVE UNCHANGED reconcile
  BY <1>9 DEF HandleCallback, FindRow, ApplyEvent, NotifyEvent, MarkProcessed
<1>10. CASE Vanish
  BY <1>1, <1>2, <1>10 DEF Vanish
<1>11. CASE Publish \/ UNCHANGED vars
  BY <1>1, <1>11 DEF Publish, vars, handlers
<1>12. QED
  BY <1>1, <1>2, <1>3, <1>5, <1>6, <1>7, <1>8, <1>9, <1>10, <1>11 DEF Next, HandleReconcile

\* The evidence of an event becomes "processed" only after its report is in
\* the row, and the row keeps its end.
LEMMA EvidenceInductive ==
    ASSUME IInv, [Next]_vars
    PROVE  EvidenceType' /\ EvidenceOK'
<1>0. evidence \in [TxIds \X Reports -> {"none", "recorded", "processed"}]
  BY DEF IInv, GatewayTypeOK
<1>1. ASSUME NEW t \in TxIds, NEW s \in Terminal, ProvidersAgree, Exists(t), txn[t].status = s
      PROVE  Exists(t)' /\ txn'[t].status = s
  BY <1>1, AllForward DEF Forward
<1>2. ASSUME NEW t0 \in TxIds, NEW s0 \in Reports, evidence' = [evidence EXCEPT ![<<t0, s0>>] = "processed"],
             ProvidersAgree /\ s0 \in Terminal => Exists(t0) /\ txn[t0].status = s0
      PROVE  EvidenceType' /\ EvidenceOK'
  <2>1. EvidenceType'
    BY <1>0, <1>2 DEF EvidenceType
  <2>2. ASSUME ProvidersAgree, NEW t \in TxIds, NEW s \in Terminal, evidence'[<<t, s>>] = "processed"
        PROVE  Exists(t)' /\ txn'[t].status = s
    <3>1. <<t, s>> \in TxIds \X Reports
      BY DEF Terminal, Reports
    <3>2. CASE t = t0 /\ s = s0
      BY <1>1, <1>2, <2>2, <3>2
    <3>3. CASE ~(t = t0 /\ s = s0)
      <4>1. <<t, s>> # <<t0, s0>>
        BY <3>3
      <4>2. evidence'[<<t, s>>] = evidence[<<t, s>>]
        BY <1>0, <1>2, <3>1, <4>1
      <4>3. QED
        BY <1>1, <2>2, <4>2 DEF IInv, EvidenceOK, ProcessedMeansApplied
    <3>4. QED
      BY <3>2, <3>3
  <2>3. QED
    BY <2>1, <2>2 DEF EvidenceOK, ProcessedMeansApplied
<1>3. ASSUME evidence' \in [TxIds \X Reports -> {"none", "recorded", "processed"}],
             \A e \in TxIds \X Reports : evidence'[e] = "processed" => evidence[e] = "processed"
      PROVE  EvidenceType' /\ EvidenceOK'
  <2>1. ASSUME ProvidersAgree, NEW t \in TxIds, NEW s \in Terminal, evidence'[<<t, s>>] = "processed"
        PROVE  Exists(t)' /\ txn'[t].status = s
    <3>1. <<t, s>> \in TxIds \X Reports
      BY DEF Terminal, Reports
    <3>2. evidence[<<t, s>>] = "processed"
      BY <1>3, <2>1, <3>1
    <3>3. QED
      BY <1>1, <2>1, <3>2 DEF IInv, EvidenceOK, ProcessedMeansApplied
  <2>2. QED
    BY <1>3, <2>1 DEF EvidenceType, EvidenceOK, ProcessedMeansApplied
<1>4. CASE UNCHANGED evidence
  BY <1>0, <1>3, <1>4
<1>5. ASSUME NEW t \in TxIds, NEW c \in Callbacks, NEW report \in Reports, ReceiveEvent(c, t, report)
      PROVE  EvidenceType' /\ EvidenceOK'
  <2> DEFINE new == IF evidence[<<t, report>>] = "none" THEN "recorded" ELSE evidence[<<t, report>>]
  <2>1. CASE evidence' = [evidence EXCEPT ![<<t, report>>] = new]
    <3>1. <<t, report>> \in TxIds \X Reports /\ new \in {"recorded", "processed"}
           /\ (new = "processed" => evidence[<<t, report>>] = "processed")
      BY <1>0
    <3> HIDE DEF new
    <3>2. QED
      BY <1>0, <1>3, <2>1, <3>1
  <2>2. QED
    BY <1>4, <1>5, <2>1 DEF ReceiveEvent, Attempt
<1>6. ASSUME NEW c \in Callbacks, MarkProcessed(c) PROVE EvidenceType' /\ EvidenceOK'
  <2>1. callback[c].pc = "mark" /\ callback[c] # Idle
    BY <1>6 DEF MarkProcessed, Idle
  <2>2. callback[c].tx \in TxIds /\ callback[c].report \in Reports
    BY <2>1 DEF IInv, GatewayTypeOK, Callback
  <2>3. CallbackOK(callback[c], txn[callback[c].tx], order[callback[c].tx])
    BY <2>1 DEF IInv, CallbacksOK
  <2>4. CASE evidence' = [evidence EXCEPT ![<<callback[c].tx, callback[c].report>>] = "processed"]
    BY <1>2, <2>1, <2>2, <2>3, <2>4 DEF CallbackOK, Exists
  <2>5. QED
    BY <1>4, <1>6, <2>4 DEF MarkProcessed, Attempt
<1>7. ASSUME NEW r \in TxIds, Create(r) \/ Resolve(r) PROVE UNCHANGED evidence
  BY <1>7
  DEF Create, Claim, BeginPayment, CallProvider, StoreExternalId, ApplyResult, FetchRow, FinishCreated,
      NotifyCreated, Reject, FinishRejected, NotifyRejected, MarkAmbiguous, FinishAmbiguous, Resolve
<1>8. ASSUME NEW c \in Callbacks, FindRow(c) \/ ApplyEvent(c) \/ NotifyEvent(c) PROVE UNCHANGED evidence
  BY <1>8 DEF FindRow, ApplyEvent, NotifyEvent
<1>9. ASSUME NEW c \in Reconcilers, HandleReconcile(c) \/ (\E t \in TxIds : OpenReconcile(c, t)) PROVE UNCHANGED evidence
  BY <1>9 DEF HandleReconcile, LookUp, ApplyLookup, NotifyLookup, OpenReconcile
<1>10. QED
  BY <1>4, <1>5, <1>6, <1>7, <1>8, <1>9 DEF Next, Publish, Vanish, vars, HandleCallback, Receive

-----------------------------------------------------------------------------
(* The invariant, put together *)

LEMMA CountersInductive ==
    ASSUME IInv, [Next]_vars
    PROVE  sent' \in [TxIds -> SUBSET Terminal] /\ faults' \in 0..MaxFaults
<1>0. sent \in [TxIds -> SUBSET Terminal] /\ faults \in 0..MaxFaults /\ MaxFaults \in Nat
  BY GatewayAssumption DEF IInv, GatewayTypeOK
<1>1. ASSUME NEW t \in TxIds, Enqueue(t) PROVE sent' \in [TxIds -> SUBSET Terminal]
  <2> DEFINE new == sent[t] \cup ({txn[t].status} \cap Terminal)
  <2>1. new \in SUBSET Terminal /\ sent' = [sent EXCEPT ![t] = new]
    BY <1>0, <1>1 DEF Enqueue
  <2> HIDE DEF new
  <2>2. QED
    BY <1>0, <2>1
<1>2. UNCHANGED sent => sent' \in [TxIds -> SUBSET Terminal]
  BY <1>0
<1>3. Fault \/ UNCHANGED faults => faults' \in 0..MaxFaults
  BY <1>0 DEF Fault
<1>5. ASSUME NEW r \in TxIds, Create(r) PROVE sent' \in [TxIds -> SUBSET Terminal]
  BY <1>1, <1>2, <1>5
  DEF Create, Claim, BeginPayment, CallProvider, StoreExternalId, ApplyResult, FetchRow, FinishCreated,
      NotifyCreated, Reject, FinishRejected, NotifyRejected, MarkAmbiguous, FinishAmbiguous, Notify, Attempt
<1>6. ASSUME NEW r \in TxIds, Create(r) PROVE Fault \/ UNCHANGED faults
  <2>1. CASE Claim(r)
    BY <2>1 DEF Claim, ClaimFirst, ClaimAgain, Attempt
  <2>2. CASE BeginPayment(r)
    BY <2>2 DEF BeginPayment, Attempt
  <2>3. CASE CallProvider(r) \/ StoreExternalId(r) \/ ApplyResult(r) \/ FetchRow(r) \/ FinishCreated(r)
    BY <2>3 DEF CallProvider, StoreExternalId, ApplyResult, FetchRow, FinishCreated, Attempt
  <2>4. CASE \/ NotifyCreated(r) \/ Reject(r) \/ FinishRejected(r) \/ NotifyRejected(r)
             \/ MarkAmbiguous(r) \/ FinishAmbiguous(r)
    BY <2>4 DEF NotifyCreated, Reject, FinishRejected, NotifyRejected, MarkAmbiguous, FinishAmbiguous, Notify, Attempt
  <2>5. QED
    BY <1>6, <2>1, <2>2, <2>3, <2>4 DEF Create
<1>7. ASSUME NEW t \in TxIds, Resolve(t) \/ Receive(t) PROVE UNCHANGED sent /\ (Fault \/ UNCHANGED faults)
  BY <1>7 DEF Resolve, Receive, ReceiveEvent, Attempt
<1>8. ASSUME NEW c \in Callbacks, HandleCallback(c)
      PROVE  sent' \in [TxIds -> SUBSET Terminal] /\ (Fault \/ UNCHANGED faults)
  <2>1. CASE NotifyEvent(c)
    <3>1. callback[c].tx \in TxIds
      BY <2>1 DEF NotifyEvent, IInv, GatewayTypeOK, Callback, Idle
    <3>2. QED
      BY <1>1, <1>2, <2>1, <3>1 DEF NotifyEvent, Notify, Attempt
  <2>2. CASE FindRow(c) \/ ApplyEvent(c) \/ MarkProcessed(c)
    BY <1>2, <2>2 DEF FindRow, ApplyEvent, MarkProcessed, Attempt
  <2>3. QED
    BY <1>8, <2>1, <2>2 DEF HandleCallback
<1>9. ASSUME NEW c \in Reconcilers, HandleReconcile(c) \/ (\E t \in TxIds : OpenReconcile(c, t))
      PROVE  sent' \in [TxIds -> SUBSET Terminal] /\ (Fault \/ UNCHANGED faults)
  <2>1. CASE NotifyLookup(c)
    <3>1. reconcile[c].tx \in TxIds
      BY <2>1, ReconcileWorks DEF NotifyLookup
    <3>2. QED
      BY <1>1, <1>2, <2>1, <3>1 DEF NotifyLookup, Notify, Attempt
  <2>2. CASE LookUp(c) \/ ApplyLookup(c) \/ (\E t \in TxIds : OpenReconcile(c, t))
    BY <1>2, <2>2 DEF LookUp, ApplyLookup, OpenReconcile, Attempt
  <2>3. QED
    BY <1>9, <2>1, <2>2 DEF HandleReconcile
<1>10. QED
  BY <1>2, <1>3, <1>5, <1>6, <1>7, <1>8, <1>9 DEF Next, Publish, Vanish, vars

LEMMA Inductive == IInv /\ [Next]_vars => IInv'
<1> SUFFICES ASSUME IInv, [Next]_vars PROVE IInv'
  OBVIOUS
<1>1. LedgerTypeOK' /\ PricingOK'
  BY LedgerStep, TypeInductive DEF IInv, GatewayTypeOK, TypeInv
<1>2. req' \in [TxIds -> Request] /\ order' \in [TxIds -> Orders]
  BY EveryStep DEF StepAt, IInv, GatewayTypeOK
<1>3. RequestsOK' /\ RowsOK' /\ OwnersOK' /\ KeysOK' /\ CallbacksOK' /\ ReconcilesOK' /\ EvidenceOK'
  BY RequestsInductive, KeysInductive, CallbacksInductive, ReconcilesInductive, EvidenceInductive
<1>4. GatewayTypeOK'
  BY <1>1, <1>2, KeysInductive, CallbacksInductive, ReconcilesInductive, EvidenceInductive, CountersInductive
  DEF GatewayTypeOK, IdemType, CallbackType, ReconcileType, EvidenceType
<1>5. QED
  BY <1>1, <1>3, <1>4 DEF IInv

LEMMA Initial == Init => IInv
<1> SUFFICES ASSUME Init PROVE IInv
  OBVIOUS
<1>1. LedgerTypeOK /\ PricingOK
  BY TypeInitial DEF Init, TypeInv
<1>2. \A t \in TxIds : req[t] = New /\ txn[t] = NoTxn /\ order[t] = "none"
  BY DEF Init, LedgerInit
<1>3. GatewayTypeOK
  BY <1>1, GatewayAssumption DEF Init, GatewayTypeOK, Request, Orders, Callback, Reconcile, Terminal
<1>4. RequestsOK /\ RowsOK
  BY <1>2 DEF RequestsOK, RowsOK, RequestOK, RowOK, New, Places
<1>5. OwnersOK
  BY <1>2 DEF OwnersOK, New, Places
<1>6. KeysOK /\ CallbacksOK /\ ReconcilesOK
  BY DEF Init, KeysOK, CallbacksOK, ReconcilesOK
<1>7. EvidenceOK
  BY DEF Init, EvidenceOK, ProcessedMeansApplied, Terminal, Reports
<1>8. QED
  BY <1>1, <1>3, <1>4, <1>5, <1>6, <1>7 DEF IInv

LEMMA Invariance == Spec => []IInv
BY Initial, Inductive, PTL DEF Spec

-----------------------------------------------------------------------------
(* The theorems *)

\* Handlers, keys, orders, evidence and rows have their types in every
\* reachable state: no handler ever writes a row that is not there.
THEOREM GatewayTypeCorrect == Spec => []GatewayTypeOK
<1>1. IInv => GatewayTypeOK
  BY DEF IInv
<1>2. QED
  BY <1>1, Invariance, PTL

\* The handlers of createCharge, createOutbound, providerWebhook and
\* reconcile, however they interleave, fail or die, make only the steps the
\* ledger's specification allows, its unguarded writes included.
THEOREM GatewayImplementsLedger == Spec => LedgerSpec
<1>1. Init => LedgerInit
  BY DEF Init
<1>2. IInv /\ [Next]_vars => [LedgerNext]_ledgerVars
  BY LedgerStep
<1>3. QED
  BY <1>1, <1>2, Invariance, PTL DEF Spec, LedgerSpec

\* So nothing the handlers do overdraws an account.
THEOREM GatewaySolvency == Spec => []NoOverdraft
BY GatewayImplementsLedger, Solvency, PTL

\* With providers that do not contradict themselves, every payment posts the
\* journals its status stands for, each once.
THEOREM GatewayPostedOnce == ASSUME ProvidersAgree PROVE Spec => []JournalsMatchStatus
BY GatewayImplementsLedger, PostedOnce, PTL

\* ... and a finished payment keeps its end and its frozen fee.
THEOREM GatewayFinality == ASSUME ProvidersAgree PROVE Spec => FinishedIsFinal
BY GatewayImplementsLedger, Finality, PTL

\* Whatever the handlers, callbacks and reconciliations do, what is reserved is
\* what the open payments will debit: an ambiguous payment keeps its funds.
THEOREM GatewayReserved == Spec => []ReservedIsOpenDebit
BY GatewayImplementsLedger, ReservedCovers, PTL

\* The gateway neither makes nor loses money.
THEOREM GatewayMoney == Spec => []BooksBalance
BY GatewayImplementsLedger, MoneyConserved, PTL

\* The revenue is the fees of the payments that succeeded, if providers do not
\* contradict themselves.
THEOREM GatewayRevenue == ASSUME ProvidersAgree PROVE Spec => []RevenueIsRealizedFees
BY GatewayImplementsLedger, RevenueRealized, PTL

\* One idempotency key never reaches the provider as two payments: the claim
\* is the only way to a key, and an order belongs to the owner of its key.
THEOREM OneOrder == Spec => []OneOrderPerKey
<1>1. IInv => OneOrderPerKey
  <2> SUFFICES ASSUME IInv, NEW t1 \in TxIds, NEW t2 \in TxIds, t1 # t2, order[t1] # "none", order[t2] # "none"
               PROVE  KeyOf(t1) # KeyOf(t2)
    BY DEF OneOrderPerKey
  <2>1. Owns(t1) /\ Owns(t2)
    BY DEF IInv, OwnersOK
  <2>2. QED
    BY <2>1 DEF Owns
<1>2. QED
  BY <1>1, Invariance, PTL

\* With providers that do not contradict themselves, a payment is booked as
\* succeeded only if it was executed, and its funds are released only if the
\* provider refused or never took it.
THEOREM FollowsProvider == ASSUME ProvidersAgree PROVE Spec => []LedgerFollowsProvider
<1>1. IInv => LedgerFollowsProvider
  BY DEF IInv, RowsOK, RowOK, LedgerFollowsProvider, Exists
<1>2. QED
  BY <1>1, Invariance, PTL

\* What a client is told stays true, replayed responses included.
THEOREM TrueAnswers == ASSUME ProvidersAgree PROVE Spec => []AnswersAreTrue
<1>1. IInv => AnswersAreTrue
  <2> SUFFICES ASSUME IInv PROVE AnswersAreTrue
    OBVIOUS
  <2>1. \A r \in TxIds : req[r].pc = "done" /\ req[r].reply = "refused" => order[r] = "none"
    BY DEF IInv, RequestsOK, RequestOK
  <2>2. DOMAIN idem = RequestKinds \X Keys
    BY DEF IInv, GatewayTypeOK
  <2>3. QED
    BY <2>1, <2>2 DEF AnswersAreTrue, IInv, KeysOK, KeyOK, Exists
<1>2. QED
  BY <1>1, Invariance, PTL

\* An event acknowledged as processed is in the ledger, from then on.
THEOREM ProcessedApplied == ASSUME ProvidersAgree PROVE Spec => []ProcessedMeansApplied
<1>1. IInv => ProcessedMeansApplied
  BY DEF IInv, EvidenceOK
<1>2. QED
  BY <1>1, Invariance, PTL

=============================================================================
