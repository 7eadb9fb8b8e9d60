--------------------------- MODULE WebhookWorker -----------------------------
(***************************************************************************)
(* Delivery of the merchant events that enqueue_webhook_event queues       *)
(* (internal/webhook/worker.go, claim_webhook_deliveries): workers of one  *)
(* or more processes claim due rows under a five-minute lease, post them   *)
(* to the merchant and record the outcome, while processes die, answers    *)
(* are lost and leases run out.                                            *)
(*                                                                         *)
(* Time is abstract: a retry falls due, and a lease runs out, at some      *)
(* moment after it was set.  All rows belong to one endpoint.              *)
(***************************************************************************)
EXTENDS Naturals, FiniteSets

CONSTANTS
    Deliveries,   \* rows of webhook_deliveries
    Workers,      \* worker goroutines, one per process
    MaxAttempts,  \* attempts after which a row is not claimed again
    BatchSize,    \* rows claimed at once
    MaxFaults     \* bound on failed calls and dead processes

ASSUME WorkerAssumption ==
    MaxAttempts \in Nat \ {0} /\ BatchSize \in Nat \ {0} /\ MaxFaults \in Nat

VARIABLES
    row,       \* the table: status, attempt_count, whether next_attempt_at has
               \* come, and whether locked_at is older than the lease
    held,      \* the rows a worker has claimed and not dealt with, each with
               \* the attempt_count it was claimed at
    result,    \* how the post a worker has just made ended
    accepted,  \* events the merchant answered with 2xx
    posts,     \* how often the merchant got each event
    faults

vars == <<row, held, result, accepted, posts, faults>>

Row == [status: {"absent", "pending", "delivering", "succeeded", "failed", "deleted"},
        attempts: 0..MaxAttempts, due: BOOLEAN, expired: BOOLEAN]
Claimed == [id: Deliveries, attempt: 1..MaxAttempts]
Nothing == [end |-> "none"]
Result == {Nothing} \cup [end: {"ok", "failed"}, of: Claimed]

Fault == faults < MaxFaults /\ faults' = faults + 1

-----------------------------------------------------------------------------
\* enqueue_webhook_event inserts a row that is due at once.
Enqueue(d) ==
    /\ row[d].status = "absent"
    /\ row' = [row EXCEPT ![d].status = "pending", ![d].due = TRUE]
    /\ UNCHANGED <<held, result, accepted, posts, faults>>

\* Deleting the endpoint deletes its rows; a later update finds none.
DeleteEndpoint ==
    /\ \E d \in Deliveries : row[d].status \notin {"absent", "deleted"}
    /\ row' = [d \in Deliveries |-> [row[d] EXCEPT !.status = "deleted"]]
    /\ UNCHANGED <<held, result, accepted, posts, faults>>

\* next_attempt_at comes; a lease grows older than five minutes.
FallDue(d) ==
    /\ row[d].status = "failed" /\ ~row[d].due
    /\ row' = [row EXCEPT ![d].due = TRUE]
    /\ UNCHANGED <<held, result, accepted, posts, faults>>

ExpireLease(d) ==
    /\ row[d].status = "delivering" /\ ~row[d].expired
    /\ row' = [row EXCEPT ![d].expired = TRUE]
    /\ UNCHANGED <<held, result, accepted, posts, faults>>

-----------------------------------------------------------------------------
\* Mutants of the claim: rows of any status whose time has come; attempts
\* without a limit; no second claim of a row that is being delivered.
Claimable_AnyStatus(d) == (row[d].due \/ row[d].expired) /\ row[d].attempts < MaxAttempts
Claimable_NoLimit(d) ==
    \/ row[d].status \in {"pending", "failed"} /\ row[d].due
    \/ row[d].status = "delivering" /\ row[d].expired
Claimable_Once(d) ==
    row[d].status \in {"pending", "failed"} /\ row[d].due /\ row[d].attempts < MaxAttempts

\* claim_webhook_deliveries: due rows and rows whose lease ran out, as many as
\* the limit allows; which ones come first is left open, and so are rows that
\* another claim has locked.
Claimable(d) ==
    /\ \/ row[d].status \in {"pending", "failed"} /\ row[d].due
       \/ row[d].status = "delivering" /\ row[d].expired
    /\ row[d].attempts < MaxAttempts

Batch(S) == S # {} /\ Cardinality(S) <= BatchSize /\ \A d \in S : Claimable(d)

\* Mutant: the claim does not count.
Take_NotCounted(S) ==
    row' = [d \in Deliveries |->
              IF d \in S THEN [row[d] EXCEPT !.status = "delivering", !.expired = FALSE] ELSE row[d]]

Take(S) ==
    row' = [d \in Deliveries |->
              IF d \in S THEN [row[d] EXCEPT !.status = "delivering", !.expired = FALSE, !.attempts = @ + 1]
              ELSE row[d]]

\* tick: the worker deals with one batch before it claims the next.
Claim(w, S) ==
    /\ held[w] = {} /\ result[w] = Nothing
    /\ Batch(S)
    /\ Take(S)
    /\ \/ /\ held' = [held EXCEPT ![w] = {[id |-> d, attempt |-> row[d].attempts + 1] : d \in S}]
          /\ UNCHANGED faults
       \/ Fault /\ UNCHANGED held
    /\ UNCHANGED <<result, accepted, posts>>

\* Mutant: any answer counts as delivered.
Deliver_AnyAnswer(w) ==
    \E c \in held[w] :
        /\ result[w] = Nothing
        /\ held' = [held EXCEPT ![w] = @ \ {c}]
        /\ posts' = [posts EXCEPT ![c.id] = @ + 1]
        /\ accepted' \in {accepted, accepted \cup {c.id}}
        /\ result' = [result EXCEPT ![w] = [end |-> "ok", of |-> c]]
        /\ UNCHANGED <<row, faults>>

\* deliver: the row is posted, and answered with 2xx or not.  A lookup of the
\* endpoint that fails, an endpoint or a secret that is no good, and a network
\* error end as failed too, before or after the merchant got the event.
Deliver(w) ==
    \E c \in held[w] :
        /\ result[w] = Nothing
        /\ held' = [held EXCEPT ![w] = @ \ {c}]
        /\ \/ /\ posts' = [posts EXCEPT ![c.id] = @ + 1]
              /\ accepted' \in {accepted, accepted \cup {c.id}}
              /\ \/ result' = [result EXCEPT ![w] = [end |-> "failed", of |-> c]]
                 \/ c.id \in accepted' /\ result' = [result EXCEPT ![w] = [end |-> "ok", of |-> c]]
           \/ /\ result' = [result EXCEPT ![w] = [end |-> "failed", of |-> c]]
              /\ UNCHANGED <<posts, accepted>>
        /\ UNCHANGED <<row, faults>>

\* The patch that records the outcome names only the row's id.
Outcome(d, end) ==
    IF row[d].status = "deleted" THEN row[d]
    ELSE IF end = "ok" THEN [row[d] EXCEPT !.status = "succeeded", !.expired = FALSE]
    ELSE [row[d] EXCEPT !.status = "failed", !.due = FALSE, !.expired = FALSE]

Record(w) ==
    LET r == result[w]
    IN  /\ r # Nothing
        /\ \/ row' = [row EXCEPT ![r.of.id] = Outcome(r.of.id, r.end)] /\ UNCHANGED faults
           \/ Fault /\ row' \in {row, [row EXCEPT ![r.of.id] = Outcome(r.of.id, r.end)]}
        /\ result' = [result EXCEPT ![w] = Nothing]
        /\ UNCHANGED <<held, accepted, posts>>

\* The process ends with its batch unfinished; another worker takes its place.
Crash(w) ==
    /\ held[w] # {} \/ result[w] # Nothing
    /\ Fault
    /\ held' = [held EXCEPT ![w] = {}]
    /\ result' = [result EXCEPT ![w] = Nothing]
    /\ UNCHANGED <<row, accepted, posts>>

-----------------------------------------------------------------------------
Init ==
    /\ row = [d \in Deliveries |-> [status |-> "absent", attempts |-> 0, due |-> FALSE, expired |-> FALSE]]
    /\ held = [w \in Workers |-> {}]
    /\ result = [w \in Workers |-> Nothing]
    /\ accepted = {}
    /\ posts = [d \in Deliveries |-> 0]
    /\ faults = 0

Next ==
    \/ \E d \in Deliveries : Enqueue(d) \/ FallDue(d) \/ ExpireLease(d)
    \/ DeleteEndpoint
    \/ \E w \in Workers :
          \/ \E S \in SUBSET Deliveries : Claim(w, S)
          \/ Deliver(w) \/ Record(w) \/ Crash(w)

Spec == Init /\ [][Next]_vars

\* The ticker keeps running and serves rows oldest first, so a claimable row is
\* claimed; a claimed row is dealt with; time passes.
Fairness ==
    /\ \A d \in Deliveries :
        /\ WF_vars(FallDue(d)) /\ WF_vars(ExpireLease(d))
        /\ SF_vars(\E w \in Workers, S \in SUBSET Deliveries : d \in S /\ Claim(w, S))
    /\ \A w \in Workers : WF_vars(Deliver(w)) /\ WF_vars(Record(w))

FairSpec == Spec /\ Fairness

-----------------------------------------------------------------------------
(* Properties *)

\* Rows, batches, results and counters have their types.
WorkerTypeOK ==
    /\ row \in [Deliveries -> Row]
    /\ held \in [Workers -> SUBSET Claimed]
    /\ result \in [Workers -> Result]
    /\ accepted \in SUBSET Deliveries
    /\ posts \in [Deliveries -> Nat]
    /\ faults \in 0..MaxFaults

\* A row recorded as delivered was accepted by the merchant.
SucceededMeansAccepted == \A d \in Deliveries : row[d].status = "succeeded" => d \in accepted

\* However processes die and leases run out, the merchant gets an event at most
\* as often as its row was claimed, so never more than MaxAttempts times.
PostsAreAttempts == \A d \in Deliveries : posts[d] <= row[d].attempts

\* The claims of d that some worker has not recorded yet.
ClaimsOf(d) ==
    {c \in (UNION {held[w] : w \in Workers}) \cup {result[w].of : w \in {v \in Workers : result[v] # Nothing}} :
        c.id = d}

\* Leases run out while their worker is still busy, and two workers then hold
\* one row.  A recorded success is undone, and the event sent again, only in
\* that case: by the failure of another claim that was open all along.
SuccessStands ==
    \A d \in Deliveries :
        row[d].status = "succeeded" /\ ClaimsOf(d) = {} => row'[d].status \in {"succeeded", "deleted"}
SuccessIsKept == [][SuccessStands]_vars

\* README.md: durable retry.  A queued event is delivered, deleted, or tried as
\* often as the limit allows, whatever crashes in between.
RetriesAreDurable ==
    \A d \in Deliveries :
        row[d].status = "pending" ~>
            (row[d].status \in {"succeeded", "deleted"} \/ row[d].attempts = MaxAttempts)
=============================================================================
