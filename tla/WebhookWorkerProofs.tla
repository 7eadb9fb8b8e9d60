------------------------- MODULE WebhookWorkerProofs -------------------------
(* Theorems about WebhookWorker, for any number of deliveries and workers, any *)
(* batch size and any bound on attempts and faults.                            *)
EXTENDS WebhookWorker, FiniteSetTheorems, TLAPS

\* A success that a worker has yet to record happened.
SuccessHappened == \A w \in Workers : result[w].end = "ok" => result[w].of.id \in accepted

\* Each claim of a row has a number of its own: only one worker holds it.
ClaimsAreDistinct ==
    \A v, w \in Workers : \A c \in held[v] : c \in held[w] => v = w

\* The numbers of the claims of d that have not been posted.
Unposted(d) == {c.attempt : c \in {b \in UNION {held[w] : w \in Workers} : b.id = d}}

\* Posts and claims that may still be posted together never exceed the attempts.
ClaimsCoverPosts ==
    \A d \in Deliveries :
        /\ Unposted(d) \subseteq 1..row[d].attempts
        /\ posts[d] + Cardinality(Unposted(d)) <= row[d].attempts

WorkerInv ==
    /\ WorkerTypeOK /\ SucceededMeansAccepted /\ SuccessHappened
    /\ ClaimsAreDistinct /\ ClaimsCoverPosts

-----------------------------------------------------------------------------
(* Types *)

LEMMA WorkerInitial == Init => WorkerInv
<1> SUFFICES ASSUME Init PROVE WorkerInv
  OBVIOUS
<1> USE WorkerAssumption DEF Init
<1>1. WorkerTypeOK
  BY DEF WorkerTypeOK, Row, Result
<1>2. SucceededMeansAccepted /\ SuccessHappened /\ ClaimsAreDistinct
  BY DEF SucceededMeansAccepted, SuccessHappened, ClaimsAreDistinct, Nothing
<1>3. ASSUME NEW d \in Deliveries
      PROVE  Unposted(d) \subseteq 1..row[d].attempts
             /\ posts[d] + Cardinality(Unposted(d)) <= row[d].attempts
  <2>1. Unposted(d) = {}
    BY DEF Unposted
  <2> QED
    BY <2>1, FS_EmptySet
<1> QED
  BY <1>1, <1>2, <1>3 DEF WorkerInv, ClaimsCoverPosts

LEMMA RowTaken ==
    ASSUME NEW r \in Row, NEW n \in 1..MaxAttempts
    PROVE  [r EXCEPT !.status = "delivering", !.expired = FALSE, !.attempts = n] \in Row
<1>1. \A x \in Row : [x EXCEPT !.status = "delivering"] \in Row
  BY DEF Row
<1>2. \A x \in Row : [x EXCEPT !.expired = FALSE] \in Row
  BY DEF Row
<1>3. \A x \in Row : [x EXCEPT !.attempts = n] \in Row
  BY WorkerAssumption DEF Row
<1> QED
  BY <1>1, <1>2, <1>3

LEMMA WorkerTypes == WorkerTypeOK /\ [Next]_vars => WorkerTypeOK'
<1> SUFFICES ASSUME WorkerTypeOK, [Next]_vars PROVE WorkerTypeOK'
  OBVIOUS
<1> USE WorkerAssumption DEF WorkerTypeOK
<1>1. ASSUME NEW d \in Deliveries, Enqueue(d) PROVE WorkerTypeOK'
  BY <1>1 DEF Enqueue, Row
<1>2. ASSUME NEW d \in Deliveries, FallDue(d) PROVE WorkerTypeOK'
  BY <1>2 DEF FallDue, Row
<1>3. ASSUME NEW d \in Deliveries, ExpireLease(d) PROVE WorkerTypeOK'
  BY <1>3 DEF ExpireLease, Row
<1>4. CASE DeleteEndpoint
  BY <1>4 DEF DeleteEndpoint, Row
<1>5. ASSUME NEW w \in Workers, NEW S \in SUBSET Deliveries, Claim(w, S) PROVE WorkerTypeOK'
  <2>1. \A d \in S : row[d].attempts + 1 \in 1..MaxAttempts
    BY <1>5 DEF Claim, Batch, Claimable, Row
  <2>2. row' \in [Deliveries -> Row]
    <3>1. ASSUME NEW d \in S
          PROVE  [row[d] EXCEPT !.status = "delivering", !.expired = FALSE, !.attempts = @ + 1] \in Row
      BY <2>1, RowTaken
    <3> QED
      BY <1>5, <3>1 DEF Claim, Take
  <2>3. held' \in [Workers -> SUBSET Claimed]
    <3>1. {[id |-> d, attempt |-> row[d].attempts + 1] : d \in S} \subseteq Claimed
      BY <2>1 DEF Claimed
    <3> QED
      BY <1>5, <3>1 DEF Claim
  <2>4. faults' \in 0..MaxFaults
    BY <1>5 DEF Claim, Fault
  <2> QED
    BY <1>5, <2>2, <2>3, <2>4 DEF Claim
<1>6. ASSUME NEW w \in Workers, Deliver(w) PROVE WorkerTypeOK'
  <2>1. PICK c \in held[w] : Deliver(w)!(c)
    BY <1>6 DEF Deliver
  <2>2. c \in Claimed /\ c.id \in Deliveries
    BY <2>1 DEF Claimed
  <2>3. [end |-> "failed", of |-> c] \in Result /\ [end |-> "ok", of |-> c] \in Result
    BY <2>2 DEF Result
  <2>4. result' \in [Workers -> Result]
    BY <2>1, <2>3
  <2>5. accepted' \in SUBSET Deliveries
    BY <2>1, <2>2
  <2>6. posts' \in [Deliveries -> Nat]
    BY <2>1, <2>2
  <2>7. held' \in [Workers -> SUBSET Claimed]
    BY <2>1
  <2> QED
    BY <2>1, <2>4, <2>5, <2>6, <2>7
<1>7. ASSUME NEW w \in Workers, Record(w) PROVE WorkerTypeOK'
  <2>1. result[w] \in [end: {"ok", "failed"}, of: Claimed]
    BY <1>7 DEF Record, Result
  <2>2. result[w].of.id \in Deliveries
    BY <2>1 DEF Claimed
  <2>3. Outcome(result[w].of.id, result[w].end) \in Row
    BY <2>2 DEF Outcome, Row
  <2>4. row' \in [Deliveries -> Row]
    BY <1>7, <2>3 DEF Record
  <2>5. faults' \in 0..MaxFaults
    BY <1>7 DEF Record, Fault
  <2>6. result' \in [Workers -> Result]
    BY <1>7 DEF Record, Result
  <2> QED
    BY <1>7, <2>4, <2>5, <2>6 DEF Record
<1>8. ASSUME NEW w \in Workers, Crash(w) PROVE WorkerTypeOK'
  BY <1>8 DEF Crash, Fault, Result
<1>9. CASE UNCHANGED vars
  BY <1>9 DEF vars
<1> QED
  BY <1>1, <1>2, <1>3, <1>4, <1>5, <1>6, <1>7, <1>8, <1>9 DEF Next

-----------------------------------------------------------------------------
(* What is recorded as delivered was accepted. *)

LEMMA Successes ==
    WorkerTypeOK /\ SucceededMeansAccepted /\ SuccessHappened /\ [Next]_vars
        => SucceededMeansAccepted' /\ SuccessHappened'
<1> SUFFICES ASSUME WorkerTypeOK, SucceededMeansAccepted, SuccessHappened, [Next]_vars
             PROVE  SucceededMeansAccepted' /\ SuccessHappened'
  OBVIOUS
<1> USE DEF WorkerTypeOK, SucceededMeansAccepted, SuccessHappened
<1>1. ASSUME NEW d \in Deliveries, Enqueue(d) \/ FallDue(d) \/ ExpireLease(d)
      PROVE  SucceededMeansAccepted' /\ SuccessHappened'
  BY <1>1 DEF Enqueue, FallDue, ExpireLease, Row
<1>2. CASE DeleteEndpoint
  BY <1>2 DEF DeleteEndpoint, Row
<1>3. ASSUME NEW w \in Workers, NEW S \in SUBSET Deliveries, Claim(w, S)
      PROVE  SucceededMeansAccepted' /\ SuccessHappened'
  BY <1>3 DEF Claim, Take, Row
<1>4. ASSUME NEW w \in Workers, Deliver(w)
      PROVE  SucceededMeansAccepted' /\ SuccessHappened'
  <2>1. PICK c \in held[w] : Deliver(w)!(c)
    BY <1>4 DEF Deliver
  <2>2. accepted \subseteq accepted' /\ UNCHANGED row
    BY <2>1
  <2>3. result'[w].end = "ok" => result'[w].of.id \in accepted'
    BY <2>1
  <2>4. \A v \in Workers \ {w} : result'[v] = result[v]
    BY <2>1
  <2> QED
    BY <2>2, <2>3, <2>4
<1>5. ASSUME NEW w \in Workers, Record(w)
      PROVE  SucceededMeansAccepted' /\ SuccessHappened'
  <2>1. result[w] \in [end: {"ok", "failed"}, of: Claimed]
    BY <1>5 DEF Record, Result
  <2> DEFINE d == result[w].of.id
  <2>2. d \in Deliveries
    BY <2>1 DEF Claimed
  <2>3. Outcome(d, result[w].end).status = "succeeded" => d \in accepted
    BY <2>2 DEF Outcome, Row
  <2>4. row' \in {row, [row EXCEPT ![d] = Outcome(d, result[w].end)]} /\ UNCHANGED accepted
    BY <1>5 DEF Record
  <2>5. SucceededMeansAccepted'
    BY <2>2, <2>3, <2>4
  <2>6. SuccessHappened'
    BY <1>5 DEF Record, Nothing
  <2> QED
    BY <2>5, <2>6
<1>6. ASSUME NEW w \in Workers, Crash(w)
      PROVE  SucceededMeansAccepted' /\ SuccessHappened'
  BY <1>6 DEF Crash, Nothing
<1>7. CASE UNCHANGED vars
  BY <1>7 DEF vars
<1> QED
  BY <1>1, <1>2, <1>3, <1>4, <1>5, <1>6, <1>7 DEF Next

-----------------------------------------------------------------------------
(* Claims and posts.  Only three steps touch them: a claim adds a number to     *)
(* those of its rows, a post takes one away, a crash takes away the rest of a   *)
(* batch.                                                                       *)

LEMMA UnpostedFinite ==
    ASSUME WorkerTypeOK, NEW d \in Deliveries, Unposted(d) \subseteq 1..row[d].attempts
    PROVE  IsFiniteSet(Unposted(d)) /\ Cardinality(Unposted(d)) \in Nat
<1>1. row[d].attempts \in Nat
  BY WorkerAssumption DEF WorkerTypeOK, Row
<1>2. IsFiniteSet(1..row[d].attempts)
  BY <1>1, FS_Interval
<1> QED
  BY <1>2, FS_Subset, FS_CardinalityType

\* With fewer claims unposted, and no more posts or fewer attempts, nothing is lost.
LEMMA FewerClaims ==
    ASSUME WorkerTypeOK, WorkerTypeOK', ClaimsCoverPosts, UNCHANGED posts,
           \A d \in Deliveries : row'[d].attempts = row[d].attempts,
           \A d \in Deliveries : Unposted(d)' \subseteq Unposted(d)
    PROVE  ClaimsCoverPosts'
<1> SUFFICES ASSUME NEW d \in Deliveries
             PROVE  /\ Unposted(d)' \subseteq 1..row'[d].attempts
                    /\ posts'[d] + Cardinality(Unposted(d)') <= row'[d].attempts
  BY DEF ClaimsCoverPosts
<1>1. Unposted(d) \subseteq 1..row[d].attempts /\ posts[d] + Cardinality(Unposted(d)) <= row[d].attempts
  BY DEF ClaimsCoverPosts
<1>2. IsFiniteSet(Unposted(d)) /\ Cardinality(Unposted(d)) \in Nat
  BY <1>1, UnpostedFinite
<1>3. Cardinality(Unposted(d)') <= Cardinality(Unposted(d)) /\ Cardinality(Unposted(d)') \in Nat
  BY <1>2, FS_Subset, FS_CardinalityType
<1>4. posts[d] \in Nat /\ row[d].attempts \in Nat /\ row'[d].attempts = row[d].attempts /\ posts' = posts
  BY WorkerAssumption DEF WorkerTypeOK, Row
<1> QED
  BY <1>1, <1>2, <1>3, <1>4

\* A claim gives each of its rows one new number.
LEMMA ClaimCounts ==
    ASSUME WorkerTypeOK, WorkerTypeOK', ClaimsAreDistinct, ClaimsCoverPosts,
           NEW w \in Workers, NEW S \in SUBSET Deliveries, Claim(w, S)
    PROVE  ClaimsAreDistinct' /\ ClaimsCoverPosts'
<1> DEFINE New == {[id |-> d, attempt |-> row[d].attempts + 1] : d \in S}
<1>1. held[w] = {} /\ UNCHANGED posts /\ held' \in {held, [held EXCEPT ![w] = New]}
  BY DEF Claim
<1>2. \A d \in Deliveries : /\ row[d].attempts \in Nat /\ posts[d] \in Nat
                            /\ row'[d].attempts = IF d \in S THEN row[d].attempts + 1 ELSE row[d].attempts
  <2> SUFFICES ASSUME NEW d \in Deliveries
               PROVE  /\ row[d].attempts \in Nat /\ posts[d] \in Nat
                      /\ row'[d].attempts = IF d \in S THEN row[d].attempts + 1 ELSE row[d].attempts
    OBVIOUS
  <2>1. row[d] \in Row /\ row[d].attempts \in Nat /\ posts[d] \in Nat
    BY WorkerAssumption DEF WorkerTypeOK, Row
  <2>2. row'[d] = IF d \in S
                  THEN [row[d] EXCEPT !.status = "delivering", !.expired = FALSE, !.attempts = @ + 1]
                  ELSE row[d]
    BY DEF Claim, Take
  <2> QED
    BY <2>1, <2>2 DEF Row
<1>3. \A v \in Workers : \A c \in held[v] : c.attempt <= row[c.id].attempts /\ c.id \in Deliveries
  <2> SUFFICES ASSUME NEW v \in Workers, NEW c \in held[v]
               PROVE  c.attempt <= row[c.id].attempts /\ c.id \in Deliveries
    OBVIOUS
  <2>1. c \in Claimed /\ c.id \in Deliveries
    BY DEF WorkerTypeOK, Claimed
  <2>2. c.attempt \in Unposted(c.id)
    BY DEF Unposted
  <2>3. c.attempt \in 1..row[c.id].attempts
    BY <2>1, <2>2 DEF ClaimsCoverPosts
  <2> QED
    BY <1>2, <2>1, <2>3
<1>4. \A v \in Workers : held[v] \cap New = {}
  BY <1>2, <1>3
<1>5. ClaimsAreDistinct'
  BY <1>1, <1>4 DEF ClaimsAreDistinct, WorkerTypeOK
<1>6. ASSUME NEW d \in Deliveries
      PROVE  /\ Unposted(d)' \subseteq 1..row'[d].attempts
             /\ posts'[d] + Cardinality(Unposted(d)') <= row'[d].attempts
  <2> DEFINE n == row[d].attempts + 1
  <2>1. /\ Unposted(d) \subseteq 1..row[d].attempts
        /\ posts[d] + Cardinality(Unposted(d)) <= row[d].attempts
    BY DEF ClaimsCoverPosts
  <2>2. IsFiniteSet(Unposted(d)) /\ Cardinality(Unposted(d)) \in Nat
    BY <2>1, UnpostedFinite
  <2>3. Unposted(d)' \subseteq IF d \in S THEN Unposted(d) \cup {n} ELSE Unposted(d)
    BY <1>1 DEF Unposted, WorkerTypeOK
  <2>4. CASE d \in S
    <3>1. n \notin Unposted(d)
      BY <1>2, <2>1
    <3>2. /\ IsFiniteSet(Unposted(d) \cup {n})
          /\ Cardinality(Unposted(d) \cup {n}) = Cardinality(Unposted(d)) + 1
      BY <2>2, <3>1, FS_AddElement
    <3>3. /\ Cardinality(Unposted(d)') \in Nat
          /\ Cardinality(Unposted(d)') <= Cardinality(Unposted(d)) + 1
      BY <2>3, <2>4, <3>2, FS_Subset, FS_CardinalityType
    <3>4. Unposted(d)' \subseteq 1..n
      BY <1>2, <2>1, <2>3, <2>4
    <3> QED
      BY <1>1, <1>2, <2>1, <2>2, <2>4, <3>3, <3>4
  <2>5. CASE d \notin S
    <3>1. /\ Cardinality(Unposted(d)') \in Nat
          /\ Cardinality(Unposted(d)') <= Cardinality(Unposted(d))
      BY <2>2, <2>3, <2>5, FS_Subset, FS_CardinalityType
    <3> QED
      BY <1>1, <1>2, <2>1, <2>2, <2>3, <2>5, <3>1
  <2> QED
    BY <2>4, <2>5
<1> QED
  BY <1>5, <1>6 DEF ClaimsCoverPosts

\* A post uses up the claim it was made under.
LEMMA DeliverCounts ==
    ASSUME WorkerTypeOK, WorkerTypeOK', ClaimsAreDistinct, ClaimsCoverPosts,
           NEW w \in Workers, Deliver(w)
    PROVE  ClaimsAreDistinct' /\ ClaimsCoverPosts'
<1>1. PICK c \in held[w] : Deliver(w)!(c)
  BY DEF Deliver
<1>2. c \in Claimed /\ c.id \in Deliveries
  BY DEF WorkerTypeOK, Claimed
<1>3. held' = [held EXCEPT ![w] = @ \ {c}] /\ UNCHANGED row
  BY <1>1
<1>4. posts' \in {posts, [posts EXCEPT ![c.id] = @ + 1]}
  BY <1>1
<1>5. ClaimsAreDistinct'
  BY <1>3 DEF ClaimsAreDistinct, WorkerTypeOK
<1>6. ASSUME NEW d \in Deliveries
      PROVE  /\ Unposted(d)' \subseteq 1..row'[d].attempts
             /\ posts'[d] + Cardinality(Unposted(d)') <= row'[d].attempts
  <2>1. /\ Unposted(d) \subseteq 1..row[d].attempts
        /\ posts[d] + Cardinality(Unposted(d)) <= row[d].attempts
    BY DEF ClaimsCoverPosts
  <2>2. IsFiniteSet(Unposted(d)) /\ Cardinality(Unposted(d)) \in Nat
    BY <2>1, UnpostedFinite
  <2>3. Unposted(d)' \subseteq Unposted(d)
    BY <1>3 DEF Unposted, WorkerTypeOK
  <2>4. row[d].attempts \in Nat /\ posts[d] \in Nat
    BY WorkerAssumption DEF WorkerTypeOK, Row
  <2>5. CASE d = c.id
    <3>1. c.attempt \in Unposted(d)
      BY <2>5 DEF Unposted
    <3>2. c.attempt \notin Unposted(d)'
      <4> SUFFICES ASSUME NEW v \in Workers, NEW b \in held'[v], b.id = d, b.attempt = c.attempt
                   PROVE  FALSE
        BY DEF Unposted
      <4>1. b \in held[v] /\ b \in Claimed
        BY <1>3 DEF WorkerTypeOK
      <4>2. b = c
        BY <1>2, <2>5, <4>1 DEF Claimed
      <4>3. v = w
        BY <4>1, <4>2 DEF ClaimsAreDistinct
      <4> QED
        BY <1>3, <4>2, <4>3 DEF WorkerTypeOK
    <3>3. /\ IsFiniteSet(Unposted(d) \ {c.attempt})
          /\ Cardinality(Unposted(d) \ {c.attempt}) = Cardinality(Unposted(d)) - 1
      BY <2>2, <3>1, FS_RemoveElement
    <3>4. /\ Cardinality(Unposted(d)') \in Nat
          /\ Cardinality(Unposted(d)') <= Cardinality(Unposted(d)) - 1
      <4>1. Unposted(d)' \subseteq Unposted(d) \ {c.attempt}
        BY <2>3, <3>2
      <4> QED
        BY <3>3, <4>1, FS_Subset, FS_CardinalityType
    <3>5. posts'[d] <= posts[d] + 1 /\ posts'[d] \in Nat
      BY <1>4, <2>4, <2>5 DEF WorkerTypeOK
    <3> QED
      BY <1>3, <2>1, <2>2, <2>3, <2>4, <3>4, <3>5
  <2>6. CASE d # c.id
    <3>1. /\ Cardinality(Unposted(d)') \in Nat
          /\ Cardinality(Unposted(d)') <= Cardinality(Unposted(d))
      BY <2>2, <2>3, FS_Subset, FS_CardinalityType
    <3>2. posts'[d] = posts[d]
      BY <1>4, <2>6 DEF WorkerTypeOK
    <3> QED
      BY <1>3, <2>1, <2>2, <2>3, <2>4, <3>1, <3>2
  <2> QED
    BY <2>5, <2>6
<1> QED
  BY <1>5, <1>6 DEF ClaimsCoverPosts

LEMMA ClaimsStep ==
    WorkerTypeOK /\ WorkerTypeOK' /\ ClaimsAreDistinct /\ ClaimsCoverPosts /\ [Next]_vars
        => ClaimsAreDistinct' /\ ClaimsCoverPosts'
<1> SUFFICES ASSUME WorkerTypeOK, WorkerTypeOK', ClaimsAreDistinct, ClaimsCoverPosts, [Next]_vars
             PROVE  ClaimsAreDistinct' /\ ClaimsCoverPosts'
  OBVIOUS
<1>1. ASSUME UNCHANGED <<held, posts>>,
             \A d \in Deliveries : row'[d].attempts = row[d].attempts
      PROVE  ClaimsAreDistinct' /\ ClaimsCoverPosts'
  <2>1. \A d \in Deliveries : Unposted(d)' = Unposted(d)
    BY <1>1 DEF Unposted
  <2>2. ClaimsAreDistinct'
    BY <1>1 DEF ClaimsAreDistinct
  <2> QED
    BY <1>1, <2>1, <2>2, FewerClaims
<1>2. ASSUME NEW d \in Deliveries, Enqueue(d) \/ FallDue(d) \/ ExpireLease(d)
      PROVE  ClaimsAreDistinct' /\ ClaimsCoverPosts'
  <2>1. \A e \in Deliveries : row'[e].attempts = row[e].attempts
    BY <1>2 DEF Enqueue, FallDue, ExpireLease, WorkerTypeOK, Row
  <2> QED
    BY <1>1, <1>2, <2>1 DEF Enqueue, FallDue, ExpireLease
<1>3. CASE DeleteEndpoint
  <2>1. \A e \in Deliveries : row'[e].attempts = row[e].attempts
    BY <1>3 DEF DeleteEndpoint, WorkerTypeOK, Row
  <2> QED
    BY <1>1, <1>3, <2>1 DEF DeleteEndpoint
<1>4. ASSUME NEW w \in Workers, NEW S \in SUBSET Deliveries, Claim(w, S)
      PROVE  ClaimsAreDistinct' /\ ClaimsCoverPosts'
  BY <1>4, ClaimCounts
<1>5. ASSUME NEW w \in Workers, Deliver(w)
      PROVE  ClaimsAreDistinct' /\ ClaimsCoverPosts'
  BY <1>5, DeliverCounts
<1>6. ASSUME NEW w \in Workers, Record(w)
      PROVE  ClaimsAreDistinct' /\ ClaimsCoverPosts'
  <2> DEFINE d == result[w].of.id
  <2>1. row' \in {row, [row EXCEPT ![d] = Outcome(d, result[w].end)]}
    BY <1>6 DEF Record
  <2>2. d \in Deliveries => Outcome(d, result[w].end).attempts = row[d].attempts
    BY DEF Outcome, WorkerTypeOK, Row
  <2>3. \A e \in Deliveries : row'[e].attempts = row[e].attempts
    BY <2>1, <2>2 DEF WorkerTypeOK
  <2> QED
    BY <1>1, <1>6, <2>3 DEF Record
<1>7. ASSUME NEW w \in Workers, Crash(w)
      PROVE  ClaimsAreDistinct' /\ ClaimsCoverPosts'
  <2>1. held' = [held EXCEPT ![w] = {}] /\ UNCHANGED <<row, posts>>
    BY <1>7 DEF Crash
  <2>2. ClaimsAreDistinct'
    BY <2>1 DEF ClaimsAreDistinct, WorkerTypeOK
  <2>3. \A d \in Deliveries : Unposted(d)' \subseteq Unposted(d)
    BY <2>1 DEF Unposted, WorkerTypeOK
  <2> QED
    BY <2>1, <2>2, <2>3, FewerClaims
<1>8. CASE UNCHANGED vars
  BY <1>1, <1>8 DEF vars
<1> QED
  BY <1>2, <1>3, <1>4, <1>5, <1>6, <1>7, <1>8 DEF Next

-----------------------------------------------------------------------------
(* Results *)

\* The inductive invariant behind the theorems below.
THEOREM WorkerInvariant == Spec => []WorkerInv
<1>1. WorkerInv /\ [Next]_vars => WorkerInv'
  BY WorkerTypes, Successes, ClaimsStep DEF WorkerInv
<1> QED
  BY <1>1, WorkerInitial, PTL DEF Spec

\* Rows, batches, results and counters keep their types.
THEOREM WorkerTypeCorrect == Spec => []WorkerTypeOK
BY WorkerInvariant, PTL DEF WorkerInv

\* A row recorded as delivered (deliver in worker.go) was accepted by the merchant.
THEOREM SuccessIsTrue == Spec => []SucceededMeansAccepted
BY WorkerInvariant, PTL DEF WorkerInv

\* No crash, lost claim or lease that ran out lets the merchant get an event more
\* often than claim_webhook_deliveries has counted.
THEOREM PostsBounded == Spec => []PostsAreAttempts
<1>1. WorkerInv => PostsAreAttempts
  <2> SUFFICES ASSUME WorkerInv, NEW d \in Deliveries PROVE posts[d] <= row[d].attempts
    BY DEF PostsAreAttempts
  <2>1. WorkerTypeOK /\ Unposted(d) \subseteq 1..row[d].attempts
    BY DEF WorkerInv, ClaimsCoverPosts
  <2>2. Cardinality(Unposted(d)) \in Nat
    BY <2>1, UnpostedFinite
  <2>3. posts[d] + Cardinality(Unposted(d)) <= row[d].attempts
    BY DEF WorkerInv, ClaimsCoverPosts
  <2>4. posts[d] \in Nat /\ row[d].attempts \in Nat
    BY <2>1, WorkerAssumption DEF WorkerTypeOK, Row
  <2> QED
    BY <2>2, <2>3, <2>4
<1> QED
  BY <1>1, WorkerInvariant, PTL

\* A recorded success is undone only while another claim of the row is still open.
THEOREM SuccessKept == Spec => SuccessIsKept
<1>1. WorkerTypeOK /\ [Next]_vars => SuccessStands
  <2> SUFFICES ASSUME WorkerTypeOK, [Next]_vars, NEW d \in Deliveries,
                      row[d].status = "succeeded", ClaimsOf(d) = {}
               PROVE  row'[d].status \in {"succeeded", "deleted"}
    BY DEF SuccessStands
  <2>1. ASSUME NEW e \in Deliveries, Enqueue(e) \/ FallDue(e) \/ ExpireLease(e)
        PROVE  row'[d].status \in {"succeeded", "deleted"}
    BY <2>1 DEF Enqueue, FallDue, ExpireLease, WorkerTypeOK, Row
  <2>2. CASE DeleteEndpoint
    BY <2>2 DEF DeleteEndpoint, WorkerTypeOK, Row
  <2>3. ASSUME NEW w \in Workers, NEW S \in SUBSET Deliveries, Claim(w, S)
        PROVE  row'[d].status \in {"succeeded", "deleted"}
    BY <2>3 DEF Claim, Batch, Claimable, Take, WorkerTypeOK, Row
  <2>4. ASSUME NEW w \in Workers, Deliver(w) \/ Crash(w)
        PROVE  row'[d].status \in {"succeeded", "deleted"}
    BY <2>4 DEF Deliver, Crash
  <2>5. ASSUME NEW w \in Workers, Record(w)
        PROVE  row'[d].status \in {"succeeded", "deleted"}
    <3>1. result[w] # Nothing
      BY <2>5 DEF Record
    <3>2. result[w].of.id # d
      <4> SUFFICES ASSUME result[w].of.id = d PROVE result[w].of \in ClaimsOf(d)
        OBVIOUS
      <4>1. result[w].of \in {result[v].of : v \in {u \in Workers : result[u] # Nothing}}
        BY <3>1
      <4> QED
        BY <4>1 DEF ClaimsOf
    <3> QED
      BY <2>5, <3>2 DEF Record, WorkerTypeOK
  <2>6. CASE UNCHANGED vars
    BY <2>6 DEF vars
  <2> QED
    BY <2>1, <2>2, <2>3, <2>4, <2>5, <2>6 DEF Next
<1> QED
  BY <1>1, WorkerTypeCorrect, PTL DEF Spec, SuccessIsKept
=============================================================================
