---------------------------- MODULE LedgerProofs -----------------------------
(***************************************************************************)
(* Theorems about Ledger for every set of accounts, transactions, amounts  *)
(* and price lists: the fee engine, the types, solvency, one posting per   *)
(* payment, finality, and the sums of what is reserved, earned and held.   *)
(***************************************************************************)
EXTENDS Ledger, FiniteSetTheorems, WellFoundedInduction, TLAPS

-----------------------------------------------------------------------------
(* The fee engine *)

\* The percentage part of a fee is the natural number nearest to
\* amount * bps / 10000: half a centavo rounds up.
LEMMA PercentFeeRounds ==
    ASSUME NEW amount \in Nat, NEW bps \in Nat
    PROVE  /\ PercentFee(amount, bps) \in Nat
           /\ 10000 * PercentFee(amount, bps) - amount * bps <= 5000
           /\ amount * bps - 10000 * PercentFee(amount, bps) < 5000
<1> DEFINE p == amount * bps
<1>1. p \in Nat
  OBVIOUS
<1> HIDE DEF p
<1>2. /\ (p + 5000) \div 10000 \in Nat
      /\ 10000 * ((p + 5000) \div 10000) <= p + 5000
      /\ p + 5000 < 10000 * ((p + 5000) \div 10000) + 10000
  BY <1>1
<1>3. PercentFee(amount, bps) = (p + 5000) \div 10000
  BY DEF PercentFee, p
<1>4. QED
  BY <1>1, <1>2, <1>3 DEF p

\* quote_merchant_pricing returns a fee between the rule's bounds, whatever
\* the amount.
LEMMA QuoteFeeBounded ==
    ASSUME NEW rule \in Rule, ValidRule(rule), NEW amount \in Nat
    PROVE  /\ QuoteFee(rule, amount) \in Nat
           /\ rule.min <= QuoteFee(rule, amount)
           /\ rule.max # NoMax => QuoteFee(rule, amount) <= rule.max
<1> DEFINE b == rule.bps
<1>0. b \in Nat
  BY DEF Rule
<1>1. PercentFee(amount, b) \in Nat
  <2> HIDE DEF b
  <2>1. QED
    BY <1>0, PercentFeeRounds
<1>2. /\ rule.fixed \in Nat /\ rule.min \in Nat
      /\ rule.max \in Nat \cup {NoMax}
      /\ rule.max # NoMax => rule.min <= rule.max
  BY DEF Rule, ValidRule
<1>3. QED
  BY <1>1, <1>2 DEF QuoteFee, NoMax

-----------------------------------------------------------------------------
(* The journals *)

\* assert_journal_balanced accepts every journal the functions write: its
\* entries add up to zero.
LEMMA JournalsBalance ==
    ASSUME NEW kind \in JournalKinds, NEW amount \in Nat, NEW fee \in Nat
    PROVE  LET e == Entries(kind, amount, fee)
           IN  e.available + e.reserved + e.clearing + e.revenue = 0
BY DEF JournalKinds, Entries, Bucket, ReserveEntries, CompleteEntries, ReleaseEntries, SettleEntries

LEMMA EntriesType ==
    ASSUME NEW kind \in JournalKinds, NEW amount \in Nat, NEW fee \in Nat
    PROVE  Entries(kind, amount, fee) \in
             [available: Int, reserved: Int, clearing: Int, revenue: Int]
BY DEF JournalKinds, Entries, Bucket, ReserveEntries, CompleteEntries, ReleaseEntries, SettleEntries

-----------------------------------------------------------------------------
(* Sums over finite sets *)

\* An induction over the subsets of a finite set, stated with a set.
LEMMA SubsetInduction ==
    ASSUME NEW S, IsFiniteSet(S), NEW T \in SUBSET SUBSET S,
           \A U \in SUBSET S : (\A x \in U : U \ {x} \in T) => U \in T
    PROVE  T = SUBSET S
<1> SUFFICES ASSUME (SUBSET S) \ T # {} PROVE FALSE
  OBVIOUS
<1>1. IsWellFoundedOn(StrictSubsetOrdering(S), SUBSET S)
  <2>1. IsWellFoundedOn(StrictSubsetOrdering(S), FiniteSubsetsOf(S))
    BY FS_StrictSubsetOrderingWellFounded
  <2>2. FiniteSubsetsOf(S) = SUBSET S
    BY FS_FiniteSubsetsOfFinite
  <2>3. QED
    BY <2>1, <2>2
<1>2. PICK m \in (SUBSET S) \ T : \A U \in (SUBSET S) \ T : <<U, m>> \notin StrictSubsetOrdering(S)
  <2> DEFINE R == StrictSubsetOrdering(S)
             B == (SUBSET S) \ T
             A == SUBSET S
  <2>1. IsWellFoundedOn(R, A) /\ B \subseteq A /\ B # {}
    BY <1>1
  <2> HIDE DEF R, A, B
  <2>2. \E x \in B : \A y \in B : ~ (<<y, x>> \in R)
    BY <2>1, WFMin
  <2>3. QED
    BY <2>2 DEF R, A, B
<1>3. ASSUME NEW x \in m PROVE m \ {x} \in T
  <2>1. m \ {x} \in SUBSET S /\ m \ {x} \subseteq m /\ m \ {x} # m /\ m \in SUBSET S
    BY <1>2
  <2>2. <<m \ {x}, m>> \in StrictSubsetOrdering(S)
    BY <2>1 DEF StrictSubsetOrdering
  <2>3. QED
    BY <1>2, <2>1, <2>2
<1>4. m \in SUBSET S /\ m \notin T
  BY <1>2
<1>5. QED
  BY <1>3, <1>4

\* A function on the subsets of S that adds up f.
AddsUp(h, f, S) ==
    /\ h \in [SUBSET S -> Int]
    /\ h[{}] = 0
    /\ \A U \in SUBSET S : \A x \in S \ U : h[U \cup {x}] = f[x] + h[U]

LEMMA AddsUpExists ==
    ASSUME NEW S, IsFiniteSet(S), NEW f \in [S -> Int]
    PROVE  \E h : AddsUp(h, f, S)
<1> DEFINE T == {U \in SUBSET S : \E h : AddsUp(h, f, U)}
<1>1. {} \in T
  <2>1. AddsUp([U \in SUBSET {} |-> 0], f, {})
    BY DEF AddsUp
  <2>2. QED
    BY <2>1
<1>2. ASSUME NEW U \in SUBSET S, U \in T, NEW x \in S, x \notin U PROVE U \cup {x} \in T
  <2>1. PICK h : AddsUp(h, f, U)
    BY <1>2
  <2> DEFINE g == [V \in SUBSET (U \cup {x}) |-> IF x \in V THEN f[x] + h[V \ {x}] ELSE h[V]]
  <2>2. \A V \in SUBSET (U \cup {x}) : V \ {x} \in SUBSET U /\ (x \notin V => V \in SUBSET U)
    OBVIOUS
  <2>3. g \in [SUBSET (U \cup {x}) -> Int] /\ g[{}] = 0
    BY <2>1, <2>2 DEF AddsUp
  <2>4. ASSUME NEW V \in SUBSET (U \cup {x}), NEW y \in (U \cup {x}) \ V PROVE g[V \cup {y}] = f[y] + g[V]
    <3>1. CASE y = x
      BY <1>2, <2>2, <2>4, <3>1, (V \cup {y}) \ {x} = V
    <3>2. CASE y # x /\ x \notin V
      BY <2>1, <2>2, <2>4, <3>2 DEF AddsUp
    <3>3. CASE y # x /\ x \in V
      <4>1. (V \cup {y}) \ {x} = (V \ {x}) \cup {y} /\ y \in U \ (V \ {x}) /\ V \ {x} \in SUBSET U
        BY <2>4, <3>3
      <4>2. h[(V \ {x}) \cup {y}] = f[y] + h[V \ {x}] /\ h[V \ {x}] \in Int /\ f[x] \in Int /\ f[y] \in Int
        BY <2>1, <4>1 DEF AddsUp
      <4>3. g[V \cup {y}] = f[x] + h[(V \ {x}) \cup {y}] /\ g[V] = f[x] + h[V \ {x}]
        BY <2>4, <3>3, <4>1
      <4>4. QED
        BY <4>2, <4>3
    <3>4. QED
      BY <3>1, <3>2, <3>3
  <2>5. AddsUp(g, f, U \cup {x})
    BY <2>3, <2>4 DEF AddsUp
  <2>6. QED
    BY <2>5
<1>3. T = SUBSET S
  <2> HIDE DEF T
  <2>1. T \in SUBSET SUBSET S
    BY DEF T
  <2>2. ASSUME NEW U \in SUBSET S, \A x \in U : U \ {x} \in T PROVE U \in T
    <3>1. CASE U = {}
      BY <1>1, <3>1
    <3>2. ASSUME NEW x \in U PROVE U \in T
      <4>1. U \ {x} \in T /\ U \ {x} \in SUBSET S /\ x \in S /\ (U \ {x}) \cup {x} = U
        BY <2>2
      <4>2. QED
        BY <1>2, <4>1
    <3>3. QED
      BY <3>1, <3>2
  <2>3. QED
    BY <2>1, <2>2, SubsetInduction
<1>4. S \in T
  BY <1>3
<1>5. QED
  BY <1>4

\* SumFunction takes the elements in an order of its own; a function that adds
\* up f in every order gives its value.
LEMMA SumIs ==
    ASSUME NEW S, IsFiniteSet(S), NEW f \in [S -> Int], NEW h, AddsUp(h, f, S)
    PROVE  SumFunction(f) = h[S]
<1> DEFINE Step(g) == [U \in SUBSET S |->
               IF U = {} THEN 0 ELSE f[CHOOSE x \in U : TRUE] + g[U \ {CHOOSE x \in U : TRUE}]]
           it == CHOOSE g : g = Step(g)
<1>1. SumFunction(f) = it[S]
  BY DOMAIN f = S DEF SumFunction, SumFunctionOnSet, FoldFunctionOnSet, MapThenFoldSet
<1>2. h = Step(h)
  <2>1. ASSUME NEW U \in SUBSET S, U # {}, NEW x, x = CHOOSE y \in U : TRUE
        PROVE  h[U] = f[x] + h[U \ {x}]
    <3>1. x \in U
      BY <2>1
    <3>2. (U \ {x}) \cup {x} = U /\ x \in S \ (U \ {x}) /\ U \ {x} \in SUBSET S
      BY <3>1
    <3>3. QED
      BY <3>2 DEF AddsUp
  <2>2. QED
    BY <2>1 DEF AddsUp
<1>3. it = Step(it)
  BY <1>2
<1>4. it = h
  <2> HIDE DEF it
  <2> DEFINE T == {U \in SUBSET S : it[U] = h[U]}
  <2>1. ASSUME NEW U \in SUBSET S, \A x \in U : U \ {x} \in T PROVE it[U] = h[U]
    <3>1. CASE U = {}
      BY <1>2, <1>3, <3>1
    <3>2. CASE U # {}
      <4> DEFINE x == CHOOSE y \in U : TRUE
      <4>1. x \in U
        BY <3>2
      <4>2. it[U \ {x}] = h[U \ {x}]
        BY <2>1, <4>1
      <4>3. it[U] = f[x] + it[U \ {x}] /\ h[U] = f[x] + h[U \ {x}]
        BY <1>2, <1>3, <3>2
      <4>4. QED
        BY <4>2, <4>3
    <3>3. QED
      BY <3>1, <3>2
  <2>2. T = SUBSET S
    <3>1. \A U \in SUBSET S : (\A x \in U : U \ {x} \in T) => U \in T
      BY <2>1
    <3> HIDE DEF T
    <3>2. T \in SUBSET SUBSET S
      BY DEF T
    <3>3. QED
      BY <3>1, <3>2, SubsetInduction
  <2>3. DOMAIN it = SUBSET S /\ DOMAIN h = SUBSET S /\ it = [U \in SUBSET S |-> it[U]] /\ h = [U \in SUBSET S |-> h[U]]
    BY <1>3 DEF AddsUp
  <2>4. \A U \in SUBSET S : it[U] = h[U]
    BY <2>2
  <2>5. QED
    BY <2>3, <2>4
<1>5. QED
  BY <1>1, <1>4

LEMMA SumType ==
    ASSUME NEW S, IsFiniteSet(S), NEW f \in [S -> Int]
    PROVE  SumFunction(f) \in Int
<1>1. PICK h : AddsUp(h, f, S)
  BY AddsUpExists
<1>2. SumFunction(f) = h[S]
  BY <1>1, SumIs
<1>3. QED
  BY <1>1, <1>2 DEF AddsUp

\* The sum over no element is 0; one element more adds its value.
LEMMA SumOfNone ==
    ASSUME NEW f, DOMAIN f = {}
    PROVE  SumFunction(f) = 0
<1>1. AddsUp([U \in SUBSET {} |-> 0], f, {})
  BY DEF AddsUp
<1>2. IsFiniteSet({}) /\ f \in [{} -> Int]
  BY FS_EmptySet
<1> DEFINE h == [U \in SUBSET {} |-> 0]
<1>3. SumFunction(f) = h[{}]
  <2> HIDE DEF h
  <2>1. QED
    BY <1>1, <1>2, SumIs DEF h
<1>4. QED
  BY <1>3

LEMMA SumSplits ==
    ASSUME NEW S, IsFiniteSet(S), NEW f \in [S -> Int], NEW x \in S
    PROVE  SumFunction(f) = f[x] + SumFunction([y \in S \ {x} |-> f[y]])
<1> DEFINE R == S \ {x}
           g == [y \in R |-> f[y]]
<1>1. PICK h : AddsUp(h, f, S)
  BY AddsUpExists
<1> DEFINE k == [U \in SUBSET R |-> h[U]]
<1>2. AddsUp(k, g, R)
  <2>1. k \in [SUBSET R -> Int] /\ k[{}] = 0
    BY <1>1 DEF AddsUp
  <2>2. ASSUME NEW U \in SUBSET R, NEW y \in R \ U PROVE k[U \cup {y}] = g[y] + k[U]
    <3>1. U \in SUBSET S /\ y \in S \ U /\ U \cup {y} \in SUBSET R
      OBVIOUS
    <3>2. h[U \cup {y}] = f[y] + h[U]
      BY <1>1, <3>1 DEF AddsUp
    <3>3. QED
      BY <3>1, <3>2
  <2>3. QED
    BY <2>1, <2>2 DEF AddsUp
<1>3. IsFiniteSet(R) /\ g \in [R -> Int]
  BY FS_Subset
<1>4. SumFunction(f) = h[S] /\ SumFunction(g) = k[R]
  <2> HIDE DEF g, k, R
  <2>1. QED
    BY <1>1, <1>2, <1>3, SumIs
<1>5. h[S] = f[x] + h[R]
  <2>1. R \cup {x} = S /\ R \in SUBSET S /\ x \in S \ R
    OBVIOUS
  <2>2. QED
    BY <1>1, <2>1 DEF AddsUp
<1>6. QED
  BY <1>4, <1>5

\* A sum is the value at one index and the sum over the others, whether the
\* index is one of the sum's or not.
Without(f, x) == [y \in DOMAIN f \ {x} |-> f[y]]

LEMMA SumWithout ==
    ASSUME NEW S, IsFiniteSet(S), NEW f \in [S -> Int], NEW x
    PROVE  /\ SumFunction(Without(f, x)) \in Int
           /\ SumFunction(f) = (IF x \in S THEN f[x] ELSE 0) + SumFunction(Without(f, x))
<1>1. DOMAIN f = S /\ IsFiniteSet(S \ {x}) /\ Without(f, x) \in [S \ {x} -> Int]
  BY FS_Subset DEF Without
<1>2. SumFunction(Without(f, x)) \in Int
  BY <1>1, SumType
<1>3. CASE x \in S
  BY <1>1, <1>2, <1>3, SumSplits DEF Without
<1>4. CASE x \notin S
  <2>1. Without(f, x) = f
    BY <1>1, <1>4 DEF Without
  <2>2. QED
    BY <1>2, <1>4, <2>1
<1>5. QED
  BY <1>2, <1>3, <1>4

\* Two functions that agree but for one index: their sums differ by what they
\* hold there.
LEMMA SumChanges ==
    ASSUME NEW S, NEW R, IsFiniteSet(S), IsFiniteSet(R), NEW f \in [S -> Int], NEW g \in [R -> Int],
           NEW x, S \ {x} = R \ {x}, \A y \in S \ {x} : f[y] = g[y]
    PROVE  SumFunction(g) - (IF x \in R THEN g[x] ELSE 0) = SumFunction(f) - (IF x \in S THEN f[x] ELSE 0)
<1>1. Without(f, x) = Without(g, x)
  BY DEF Without
<1>2. (IF x \in R THEN g[x] ELSE 0) \in Int /\ (IF x \in S THEN f[x] ELSE 0) \in Int
  OBVIOUS
<1>3. QED
  BY <1>1, <1>2, SumWithout

-----------------------------------------------------------------------------
(* Types *)

\* The fee a new row freezes is a natural number, and the row is a row.
LEMMA NewTxnType ==
    ASSUME LedgerTypeOK, NEW kind \in Kinds, NEW a \in Accounts, NEW amount \in Nat,
           NEW v \in 1..Len(pricing), \A w \in 1..Len(pricing) : ValidTable(pricing[w])
    PROVE  NewTxn(kind, a, amount, v) \in Txn
<1>1. ValidRule(pricing[v][kind]) /\ pricing[v][kind] \in Rule
  BY DEF ValidTable, ValidRule
<1>2. QuoteFee(pricing[v][kind], amount) \in Nat
  BY <1>1, QuoteFeeBounded
<1>3. v \in Nat
  BY DEF LedgerTypeOK
<1>4. QED
  BY <1>2, <1>3 DEF NewTxn, Txn, Statuses

\* Posting a journal for a row keeps the types of the books.
LEMMA PostType ==
    ASSUME LedgerTypeOK, NEW t \in TxIds, NEW row \in Txn, NEW kind \in JournalKinds,
           Post(t, row, kind)
    PROVE  /\ journals' \in [TxIds -> [JournalKinds -> Nat]]
           /\ available' \in [Accounts -> Int] /\ reserved' \in [Accounts -> Int]
           /\ clearing' \in Int /\ revenue' \in Int
<1>1. Entries(kind, row.amount, row.fee) \in [available: Int, reserved: Int, clearing: Int, revenue: Int]
  BY EntriesType DEF Txn
<1>2. row.account \in Accounts
  BY DEF Txn
<1> DEFINE e == Entries(kind, row.amount, row.fee)
<1>3. e.available \in Int /\ e.reserved \in Int /\ e.clearing \in Int /\ e.revenue \in Int
  BY <1>1
<1>4. /\ journals'  = [journals EXCEPT ![t][kind] = @ + 1]
      /\ available' = [available EXCEPT ![row.account] = @ + e.available]
      /\ reserved'  = [reserved EXCEPT ![row.account] = @ + e.reserved]
      /\ clearing'  = clearing + e.clearing
      /\ revenue'   = revenue + e.revenue
  BY DEF Post
<1> HIDE DEF e
<1>5. journals' \in [TxIds -> [JournalKinds -> Nat]]
  BY <1>4 DEF LedgerTypeOK
<1>6. available' \in [Accounts -> Int] /\ reserved' \in [Accounts -> Int]
  <2>1. available[row.account] + e.available \in Int /\ reserved[row.account] + e.reserved \in Int
    BY <1>2, <1>3 DEF LedgerTypeOK
  <2>2. available' = [available EXCEPT ![row.account] = available[row.account] + e.available]
    BY <1>4
  <2>3. reserved' = [reserved EXCEPT ![row.account] = reserved[row.account] + e.reserved]
    BY <1>4
  <2>4. QED
    BY <1>2, <2>1, <2>2, <2>3 DEF LedgerTypeOK
<1>7. clearing' \in Int /\ revenue' \in Int
  BY <1>3, <1>4 DEF LedgerTypeOK
<1>8. QED
  BY <1>5, <1>6, <1>7

\* The strengthening of the type invariant that makes it inductive: every
\* version ever published has valid rules, and there is one.
PricingOK == Len(pricing) >= 1 /\ \A v \in 1..Len(pricing) : ValidTable(pricing[v])

TypeInv == LedgerTypeOK /\ PricingOK

\* A version number in use names a valid price list; the next steps keep it.
LEMMA AppendValid ==
    ASSUME TypeInv, NEW table \in PricingTables, pricing' = Append(pricing, table)
    PROVE  pricing' \in Seq([Kinds -> Rule]) /\ PricingOK'
<1>1. ValidTable(table) /\ table \in [Kinds -> Rule]
  BY LedgerAssumption DEF ValidTable
<1>2. pricing \in Seq([Kinds -> Rule])
  BY DEF TypeInv, LedgerTypeOK
<1>3. /\ pricing' \in Seq([Kinds -> Rule])
      /\ Len(pricing') = Len(pricing) + 1
      /\ \A v \in 1..Len(pricing) : pricing'[v] = pricing[v]
      /\ pricing'[Len(pricing) + 1] = table
  BY <1>1, <1>2
<1>4. ASSUME NEW v \in 1..Len(pricing') PROVE ValidTable(pricing'[v])
  <2>1. CASE v = Len(pricing) + 1
    BY <1>1, <1>3, <2>1
  <2>2. CASE v # Len(pricing) + 1
    <3>1. v \in 1..Len(pricing)
      BY <1>2, <1>3, <2>2
    <3>2. QED
      BY <1>3, <3>1 DEF TypeInv, PricingOK
  <2>3. QED
    BY <2>1, <2>2
<1>5. Len(pricing') >= 1
  BY <1>2, <1>3 DEF TypeInv, PricingOK
<1>6. QED
  BY <1>3, <1>4, <1>5 DEF PricingOK

LEMMA TypeInductive == TypeInv /\ [LedgerNext]_ledgerVars => TypeInv'
<1> SUFFICES ASSUME TypeInv, [LedgerNext]_ledgerVars PROVE TypeInv'
  OBVIOUS
<1> USE DEF TypeInv
<1>0. \A t \in TxIds : txn[t] \in Txn \cup {NoTxn}
  BY DEF LedgerTypeOK
<1>1. ASSUME NEW t \in TxIds, NEW a \in Accounts, NEW amount \in Amounts, NEW v \in 1..Len(pricing),
             BeginPixIn(t, a, amount, v)
      PROVE  TypeInv'
  <2>1. NewTxn("pix_in", a, amount, v) \in Txn
    BY NewTxnType, LedgerAssumption DEF PricingOK, Kinds
  <2>2. QED
    BY <1>1, <2>1 DEF BeginPixIn, LedgerTypeOK, PricingOK, books
<1>2. ASSUME NEW t \in TxIds, NEW a \in Accounts, NEW amount \in Amounts, NEW v \in 1..Len(pricing),
             NEW kind \in OutboundKinds, BeginOutbound(t, a, kind, amount, v)
      PROVE  TypeInv'
  <2> DEFINE row == NewTxn(kind, a, amount, v)
  <2>1. row \in Txn
    BY NewTxnType, LedgerAssumption DEF PricingOK, Kinds, OutboundKinds
  <2>2. Post(t, row, "reserve_outbound") /\ txn' = [txn EXCEPT ![t] = row] /\ pricing' = pricing
    BY <1>2 DEF BeginOutbound
  <2> HIDE DEF row
  <2>3. /\ journals' \in [TxIds -> [JournalKinds -> Nat]]
        /\ available' \in [Accounts -> Int] /\ reserved' \in [Accounts -> Int]
        /\ clearing' \in Int /\ revenue' \in Int
    BY <2>1, <2>2, PostType DEF JournalKinds
  <2>4. QED
    BY <2>1, <2>2, <2>3 DEF LedgerTypeOK, PricingOK
<1>3. ASSUME NEW t \in TxIds, NEW kind \in JournalKinds, NEW status \in Terminal,
             Exists(t), Finalize(t, kind, status)
      PROVE  TypeInv'
  <2>1. txn[t] \in Txn
    BY <1>0, <1>3 DEF Exists
  <2>2. Post(t, txn[t], kind) /\ txn' = [txn EXCEPT ![t].status = status] /\ pricing' = pricing
    BY <1>3 DEF Finalize
  <2>3. [txn[t] EXCEPT !.status = status] \in Txn
    BY <2>1 DEF Txn, Terminal, Statuses
  <2>4. /\ journals' \in [TxIds -> [JournalKinds -> Nat]]
        /\ available' \in [Accounts -> Int] /\ reserved' \in [Accounts -> Int]
        /\ clearing' \in Int /\ revenue' \in Int
    BY <2>1, <2>2, PostType
  <2>5. QED
    BY <2>2, <2>3, <2>4 DEF LedgerTypeOK, PricingOK
<1>4. ASSUME NEW t \in TxIds, Patch(t) PROVE TypeInv'
  <2>1. txn[t] \in Txn
    BY <1>0, <1>4 DEF Patch, Exists
  <2>2. \E row \in Txn : txn' = [txn EXCEPT ![t] = row] /\ UNCHANGED <<books, pricing>>
    <3>1. CASE PatchExternalId(t)
      <4>1. [txn[t] EXCEPT !.ext = TRUE] \in Txn
        BY <2>1 DEF Txn
      <4>2. QED
        BY <3>1, <4>1 DEF PatchExternalId
    <3>2. ASSUME NEW status \in {"ambiguous", "failed"}, PatchStatus(t, status)
          PROVE  \E row \in Txn : txn' = [txn EXCEPT ![t] = row] /\ UNCHANGED <<books, pricing>>
      <4>1. [txn[t] EXCEPT !.status = status] \in Txn
        BY <2>1 DEF Txn, Statuses
      <4>2. QED
        BY <3>2, <4>1 DEF PatchStatus
    <3>3. QED
      BY <1>4, <3>1, <3>2 DEF Patch
  <2>3. QED
    BY <2>2 DEF LedgerTypeOK, PricingOK, books
<1>5. ASSUME NEW table \in PricingTables, SetMerchantPricing(table) PROVE TypeInv'
  BY <1>5, AppendValid DEF SetMerchantPricing, LedgerTypeOK, books
<1>6. CASE UNCHANGED ledgerVars
  BY <1>6 DEF ledgerVars, books, LedgerTypeOK, PricingOK
<1>7. ASSUME NEW t \in TxIds, SettlePixIn(t) \/ CompleteOutbound(t) \/ FailOutbound(t) PROVE TypeInv'
  BY <1>3, <1>7 DEF SettlePixIn, CompleteOutbound, FailOutbound, JournalKinds, Terminal
<1>8. QED
  BY <1>1, <1>2, <1>4, <1>5, <1>6, <1>7 DEF LedgerNext, Begin

LEMMA TypeInitial == LedgerInit => TypeInv
<1> SUFFICES ASSUME LedgerInit PROVE TypeInv
  OBVIOUS
<1>1. ZeroRule \in Rule /\ ValidRule(ZeroRule) /\ ZeroTable \in [Kinds -> Rule] /\ ValidTable(ZeroTable)
  BY DEF ZeroRule, Rule, ValidRule, ZeroTable, ValidTable, NoMax
<1>2. pricing = <<ZeroTable>> /\ pricing \in Seq([Kinds -> Rule]) /\ Len(pricing) = 1
  BY <1>1 DEF LedgerInit
<1>3. PricingOK
  BY <1>1, <1>2 DEF PricingOK
<1>4. QED
  BY <1>2, <1>3, LedgerAssumption DEF LedgerInit, TypeInv, LedgerTypeOK

\* Every reachable state has well-typed rows and books, and only valid price
\* lists, whatever the instance.
THEOREM LedgerTypeCorrect == LedgerSpec => [](LedgerTypeOK /\ PricingOK)
<1>1. LedgerSpec => []TypeInv
  BY TypeInitial, TypeInductive, PTL DEF LedgerSpec
<1>2. QED
  BY <1>1, PTL DEF TypeInv

-----------------------------------------------------------------------------
(* Solvency *)

\* A journal that does not lower available keeps the account solvent; the
\* one that does, reserve_outbound, is posted only when the balance covers it.
LEMMA PostKeepsSolvency ==
    ASSUME LedgerTypeOK, NoOverdraft, NEW t \in TxIds, NEW row \in Txn, NEW kind \in JournalKinds,
           Post(t, row, kind), available[row.account] + Entries(kind, row.amount, row.fee).available >= 0
    PROVE  NoOverdraft'
<1> DEFINE d == Entries(kind, row.amount, row.fee).available
<1>1. available' = [available EXCEPT ![row.account] = available[row.account] + d]
  BY DEF Post
<1>2. available[row.account] + d >= 0 /\ row.account \in Accounts
  BY DEF Txn
<1> HIDE DEF d
<1>3. QED
  BY <1>1, <1>2 DEF NoOverdraft, LedgerTypeOK

LEMMA SolvencyInductive ==
    TypeInv /\ NoOverdraft /\ [LedgerNext]_ledgerVars => NoOverdraft'
<1> SUFFICES ASSUME TypeInv, NoOverdraft, [LedgerNext]_ledgerVars PROVE NoOverdraft'
  OBVIOUS
<1>0. \A t \in TxIds : txn[t] \in Txn \cup {NoTxn}
  BY DEF TypeInv, LedgerTypeOK
<1>1. ASSUME available' = available PROVE NoOverdraft'
  BY <1>1 DEF NoOverdraft
<1>2. ASSUME NEW t \in TxIds, NEW a \in Accounts, NEW amount \in Amounts, NEW v \in 1..Len(pricing),
             NEW kind \in OutboundKinds, BeginOutbound(t, a, kind, amount, v)
      PROVE  NoOverdraft'
  <2> DEFINE row == NewTxn(kind, a, amount, v)
  <2>1. row \in Txn /\ row.account = a /\ row.amount = amount
    BY NewTxnType, LedgerAssumption DEF TypeInv, PricingOK, Kinds, OutboundKinds, NewTxn
  <2>2. Post(t, row, "reserve_outbound") /\ available[a] >= amount + row.fee
    BY <1>2 DEF BeginOutbound, CanBeginOutbound
  <2> HIDE DEF row
  <2>3. Entries("reserve_outbound", row.amount, row.fee).available = -(row.amount + row.fee)
    BY DEF Entries, Bucket, ReserveEntries, CompleteEntries, ReleaseEntries, SettleEntries
  <2>4. available[a] \in Int /\ row.amount \in Nat /\ row.fee \in Nat
    BY <2>1 DEF TypeInv, LedgerTypeOK, Txn
  <2>5. available[row.account] + Entries("reserve_outbound", row.amount, row.fee).available >= 0
    BY <2>1, <2>2, <2>3, <2>4
  <2>6. QED
    BY <2>1, <2>2, <2>5, PostKeepsSolvency DEF TypeInv, JournalKinds
<1>3. ASSUME NEW t \in TxIds, NEW kind \in {"settle_pix_in", "complete_outbound", "release_outbound"},
             Exists(t), Post(t, txn[t], kind), kind = "settle_pix_in" => txn[t].amount > txn[t].fee
      PROVE  NoOverdraft'
  <2>1. txn[t] \in Txn
    BY <1>0, <1>3 DEF Exists
  <2>2. available[txn[t].account] \in Nat /\ txn[t].amount \in Nat /\ txn[t].fee \in Nat
    BY <2>1 DEF TypeInv, LedgerTypeOK, NoOverdraft, Txn
  <2>3. Entries(kind, txn[t].amount, txn[t].fee).available \in Nat
    BY <1>3, <2>2 DEF Entries, Bucket, ReserveEntries, CompleteEntries, ReleaseEntries, SettleEntries
  <2>4. available[txn[t].account] + Entries(kind, txn[t].amount, txn[t].fee).available >= 0
    BY <2>2, <2>3
  <2>5. QED
    BY <1>3, <2>1, <2>4, PostKeepsSolvency DEF TypeInv, JournalKinds
<1>4. ASSUME NEW t \in TxIds, SettlePixIn(t) \/ CompleteOutbound(t) \/ FailOutbound(t) PROVE NoOverdraft'
  BY <1>3, <1>4 DEF SettlePixIn, CompleteOutbound, FailOutbound, Finalize, CanSettlePixIn
<1>5. ASSUME NEW t \in TxIds, Patch(t) PROVE available' = available
  BY <1>5 DEF Patch, PatchExternalId, PatchStatus, books
<1>6. QED
  BY <1>1, <1>2, <1>4, <1>5
  DEF LedgerNext, Begin, BeginPixIn, SetMerchantPricing, ledgerVars, books

\* No account is ever overdrawn, for any accounts, amounts and price lists.
THEOREM Solvency == LedgerSpec => []NoOverdraft
<1>1. LedgerInit => NoOverdraft
  BY LedgerAssumption DEF LedgerInit, NoOverdraft
<1>2. LedgerSpec => []TypeInv
  BY LedgerTypeCorrect, PTL DEF TypeInv
<1>3. QED
  BY <1>1, <1>2, SolvencyInductive, PTL DEF LedgerSpec

-----------------------------------------------------------------------------
(* Each payment is posted once *)

\* The counts that a set of journals, each posted once, leaves.
Once(due) == [k \in JournalKinds |-> IF k \in due THEN 1 ELSE 0]
Due(t) == IF Exists(t) THEN JournalsDue(txn[t]) ELSE {}

LEMMA OncePlusOne ==
    ASSUME NEW due \in SUBSET JournalKinds, NEW kind \in JournalKinds, kind \notin due
    PROVE  [Once(due) EXCEPT ![kind] = @ + 1] = Once(due \cup {kind})
<1> DEFINE f == [Once(due) EXCEPT ![kind] = @ + 1]
<1>1. f = [k \in JournalKinds |-> IF k = kind THEN Once(due)[k] + 1 ELSE Once(due)[k]]
  BY DEF Once
<1>2. ASSUME NEW k \in JournalKinds
      PROVE  (IF k = kind THEN Once(due)[k] + 1 ELSE Once(due)[k])
              = (IF k \in due \cup {kind} THEN 1 ELSE 0)
  BY DEF Once
<1>3. QED
  BY <1>1, <1>2 DEF Once

LEMMA DueType == ASSUME NEW row \in Txn PROVE JournalsDue(row) \in SUBSET JournalKinds
BY DEF JournalsDue, JournalKinds, Txn, Statuses

\* A step that changes row t only, and posts what its new status adds.
LEMMA PostKeepsMatch ==
    ASSUME TypeInv, JournalsMatchStatus, NEW t \in TxIds, NEW row \in Txn, NEW kind \in JournalKinds,
           NEW new \in Txn, Post(t, row, kind), txn' = [txn EXCEPT ![t] = new],
           kind \notin Due(t), JournalsDue(new) = Due(t) \cup {kind}
    PROVE  JournalsMatchStatus'
<1>1. Due(t) \in SUBSET JournalKinds
  BY DueType DEF Due, Exists, TypeInv, LedgerTypeOK
<1>2. journals[t] = Once(Due(t))
  BY DEF JournalsMatchStatus, Once, Due
<1>3. journals' = [journals EXCEPT ![t] = [journals[t] EXCEPT ![kind] = @ + 1]]
  BY DEF Post
<1>4. journals'[t] = Once(Due(t) \cup {kind})
  BY <1>1, <1>2, <1>3, OncePlusOne DEF TypeInv, LedgerTypeOK
<1>5. txn'[t] = new /\ new # NoTxn
  BY LedgerAssumption DEF TypeInv, LedgerTypeOK
<1>6. \A u \in TxIds : u # t => journals'[u] = journals[u] /\ txn'[u] = txn[u]
  BY <1>3 DEF TypeInv, LedgerTypeOK
<1>7. QED
  BY <1>4, <1>5, <1>6 DEF JournalsMatchStatus, Once, Exists

\* A step that changes row t only, to a row that stands for the same journals.
LEMMA PatchKeepsMatch ==
    ASSUME TypeInv, JournalsMatchStatus, NEW t \in TxIds, NEW new \in Txn,
           txn' = [txn EXCEPT ![t] = new], journals' = journals, JournalsDue(new) = Due(t)
    PROVE  JournalsMatchStatus'
<1>1. txn'[t] = new /\ new # NoTxn
  BY LedgerAssumption DEF TypeInv, LedgerTypeOK
<1>2. \A u \in TxIds : u # t => txn'[u] = txn[u]
  BY DEF TypeInv, LedgerTypeOK
<1>3. QED
  BY <1>1, <1>2 DEF JournalsMatchStatus, Exists, Due

LEMMA MatchInductive ==
    ASSUME ProvidersAgree
    PROVE  TypeInv /\ JournalsMatchStatus /\ [LedgerNext]_ledgerVars => JournalsMatchStatus'
<1> SUFFICES ASSUME TypeInv, JournalsMatchStatus, [LedgerNext]_ledgerVars PROVE JournalsMatchStatus'
  OBVIOUS
<1>0. \A t \in TxIds : txn[t] \in Txn \cup {NoTxn}
  BY DEF TypeInv, LedgerTypeOK
<1>1. ASSUME NEW t \in TxIds, NEW a \in Accounts, NEW amount \in Amounts, NEW v \in 1..Len(pricing),
             BeginPixIn(t, a, amount, v)
      PROVE  JournalsMatchStatus'
  <2> DEFINE new == NewTxn("pix_in", a, amount, v)
  <2>1. new \in Txn
    BY NewTxnType, LedgerAssumption DEF TypeInv, PricingOK, Kinds
  <2>2. JournalsDue(new) = Due(t)
    BY <1>1 DEF NewTxn, JournalsDue, Due, BeginPixIn, CanBeginPixIn
  <2>3. txn' = [txn EXCEPT ![t] = new] /\ journals' = journals
    BY <1>1 DEF BeginPixIn, books
  <2> HIDE DEF new
  <2>4. QED
    BY <2>1, <2>2, <2>3, PatchKeepsMatch
<1>2. ASSUME NEW t \in TxIds, NEW a \in Accounts, NEW amount \in Amounts, NEW v \in 1..Len(pricing),
             NEW kind \in OutboundKinds, BeginOutbound(t, a, kind, amount, v)
      PROVE  JournalsMatchStatus'
  <2> DEFINE new == NewTxn(kind, a, amount, v)
  <2>1. new \in Txn
    BY NewTxnType, LedgerAssumption DEF TypeInv, PricingOK, Kinds, OutboundKinds
  <2>2. Due(t) = {} /\ JournalsDue(new) = {"reserve_outbound"}
    BY <1>2 DEF NewTxn, JournalsDue, Due, BeginOutbound, CanBeginOutbound, OutboundKinds
  <2>3. txn' = [txn EXCEPT ![t] = new] /\ Post(t, new, "reserve_outbound")
    BY <1>2 DEF BeginOutbound
  <2> HIDE DEF new
  <2>4. QED
    BY <2>1, <2>2, <2>3, PostKeepsMatch DEF JournalKinds
<1>3. ASSUME NEW t \in TxIds, SettlePixIn(t) \/ CompleteOutbound(t) \/ FailOutbound(t)
      PROVE  JournalsMatchStatus'
  <2>1. txn[t] \in Txn /\ Exists(t)
    BY <1>0, <1>3 DEF Exists, SettlePixIn, CompleteOutbound, FailOutbound
  <2>2. PICK kind \in JournalKinds, status \in Terminal :
           /\ Finalize(t, kind, status)
           /\ kind \notin Due(t)
           /\ JournalsDue([txn[t] EXCEPT !.status = status]) = Due(t) \cup {kind}
    BY <1>3, <2>1
    DEF SettlePixIn, CompleteOutbound, FailOutbound, CanSettlePixIn, CanFinishOutbound,
        JournalKinds, Terminal, Due, JournalsDue, OutboundKinds, Txn
  <2> DEFINE new == [txn[t] EXCEPT !.status = status]
  <2>3. new \in Txn
    BY <2>1 DEF Txn, Terminal, Statuses
  <2>4. txn' = [txn EXCEPT ![t] = new] /\ Post(t, txn[t], kind)
    BY <2>2 DEF Finalize
  <2>5. JournalsDue(new) = Due(t) \cup {kind}
    BY <2>2
  <2> HIDE DEF new
  <2>6. QED
    BY <2>1, <2>2, <2>3, <2>4, <2>5, PostKeepsMatch
<1>4. ASSUME NEW t \in TxIds, Patch(t) PROVE JournalsMatchStatus'
  <2>1. txn[t] \in Txn /\ Exists(t) /\ journals' = journals
    BY <1>0, <1>4 DEF Exists, Patch, PatchExternalId, PatchStatus, books
  <2>2. PICK new \in Txn : txn' = [txn EXCEPT ![t] = new] /\ JournalsDue(new) = Due(t)
    <3>1. CASE PatchExternalId(t)
      <4>1. [txn[t] EXCEPT !.ext = TRUE] \in Txn
        BY <2>1 DEF Txn
      <4>2. JournalsDue([txn[t] EXCEPT !.ext = TRUE]) = JournalsDue(txn[t])
        BY <2>1 DEF Txn, JournalsDue
      <4>3. QED
        BY <2>1, <3>1, <4>1, <4>2 DEF PatchExternalId, Due
    <3>2. CASE MayBecomeAmbiguous(txn[t]) /\ PatchStatus(t, "ambiguous")
      <4>1. [txn[t] EXCEPT !.status = "ambiguous"] \in Txn
        BY <2>1 DEF Txn, Statuses
      <4>2. JournalsDue([txn[t] EXCEPT !.status = "ambiguous"]) = JournalsDue(txn[t])
        BY <2>1, <3>2 DEF Txn, JournalsDue, MayBecomeAmbiguous
      <4>3. QED
        BY <2>1, <3>2, <4>1, <4>2 DEF PatchStatus, Due
    <3>3. CASE MayFailCharge(txn[t]) /\ PatchStatus(t, "failed")
      <4>1. [txn[t] EXCEPT !.status = "failed"] \in Txn
        BY <2>1 DEF Txn, Statuses
      <4>2. JournalsDue([txn[t] EXCEPT !.status = "failed"]) = JournalsDue(txn[t])
        BY <2>1, <3>3 DEF Txn, JournalsDue, MayFailCharge
      <4>3. QED
        BY <2>1, <3>3, <4>1, <4>2 DEF PatchStatus, Due
    <3>4. QED
      BY <1>4, <3>1, <3>2, <3>3 DEF Patch
  <2>3. QED
    BY <2>1, <2>2, PatchKeepsMatch
<1>5. ASSUME UNCHANGED <<txn, journals>> PROVE JournalsMatchStatus'
  BY <1>5 DEF JournalsMatchStatus, Exists
<1>6. QED
  BY <1>1, <1>2, <1>3, <1>4, <1>5
  DEF LedgerNext, Begin, SetMerchantPricing, ledgerVars, books

\* With providers that do not contradict themselves, the journals of every
\* payment are exactly those its status stands for, each posted once.
THEOREM PostedOnce == ASSUME ProvidersAgree PROVE LedgerSpec => []JournalsMatchStatus
<1>1. LedgerInit => JournalsMatchStatus
  BY DEF LedgerInit, JournalsMatchStatus, Exists
<1>2. LedgerSpec => []TypeInv
  BY LedgerTypeCorrect, PTL DEF TypeInv
<1>3. QED
  BY <1>1, <1>2, MatchInductive, PTL DEF LedgerSpec

-----------------------------------------------------------------------------
(* Finality *)

LEMMA FinalityStep ==
    ASSUME ProvidersAgree
    PROVE  TypeInv /\ [LedgerNext]_ledgerVars => [KeepsFinished]_ledgerVars
<1> SUFFICES ASSUME TypeInv, LedgerNext PROVE KeepsFinished
  OBVIOUS
<1>0. \A t \in TxIds : Exists(t) => txn[t] \in Txn
  BY DEF TypeInv, LedgerTypeOK, Exists
<1>1. ASSUME txn' = txn PROVE KeepsFinished
  BY <1>1 DEF KeepsFinished, Exists
<1>2. ASSUME NEW t \in TxIds, NEW row, ~Exists(t), txn' = [txn EXCEPT ![t] = row] PROVE KeepsFinished
  BY <1>2 DEF KeepsFinished, Exists, TypeInv, LedgerTypeOK
<1>3. ASSUME NEW t \in TxIds, Exists(t), NEW status \in Statuses,
             txn[t].status \in Terminal => status = txn[t].status,
             txn' = [txn EXCEPT ![t].status = status]
      PROVE  KeepsFinished
  <2>1. txn[t] \in Txn
    BY <1>0, <1>3
  <2>2. /\ [txn[t] EXCEPT !.status = status] \in Txn
        /\ [txn[t] EXCEPT !.status = status].status = status
        /\ [txn[t] EXCEPT !.status = status].amount = txn[t].amount
        /\ [txn[t] EXCEPT !.status = status].fee = txn[t].fee
        /\ [txn[t] EXCEPT !.status = status].version = txn[t].version
    BY <2>1 DEF Txn
  <2>3. txn'[t] = [txn[t] EXCEPT !.status = status] /\ \A u \in TxIds : u # t => txn'[u] = txn[u]
    BY <1>3 DEF TypeInv, LedgerTypeOK
  <2>4. QED
    BY <1>3, <2>2, <2>3, LedgerAssumption DEF KeepsFinished, Exists
<1>4. ASSUME NEW t \in TxIds, Exists(t), txn' = [txn EXCEPT ![t].ext = TRUE] PROVE KeepsFinished
  <2>1. txn[t] \in Txn
    BY <1>0, <1>4
  <2>2. /\ [txn[t] EXCEPT !.ext = TRUE] \in Txn
        /\ [txn[t] EXCEPT !.ext = TRUE].status = txn[t].status
        /\ [txn[t] EXCEPT !.ext = TRUE].amount = txn[t].amount
        /\ [txn[t] EXCEPT !.ext = TRUE].fee = txn[t].fee
        /\ [txn[t] EXCEPT !.ext = TRUE].version = txn[t].version
    BY <2>1 DEF Txn
  <2>3. txn'[t] = [txn[t] EXCEPT !.ext = TRUE] /\ \A u \in TxIds : u # t => txn'[u] = txn[u]
    BY <1>4 DEF TypeInv, LedgerTypeOK
  <2>4. QED
    BY <2>2, <2>3, LedgerAssumption DEF KeepsFinished, Exists
<1>5. ASSUME NEW t \in TxIds, Begin(t) PROVE KeepsFinished
  BY <1>2, <1>5 DEF Begin, BeginPixIn, CanBeginPixIn, BeginOutbound, CanBeginOutbound
<1>6. ASSUME NEW t \in TxIds, SettlePixIn(t) \/ CompleteOutbound(t) \/ FailOutbound(t) PROVE KeepsFinished
  BY <1>3, <1>6
  DEF SettlePixIn, CompleteOutbound, FailOutbound, CanSettlePixIn, CanFinishOutbound, Finalize, Statuses
<1>7. ASSUME NEW t \in TxIds, Patch(t) PROVE KeepsFinished
  BY <1>3, <1>4, <1>7
  DEF Patch, PatchExternalId, PatchStatus, MayBecomeAmbiguous, MayFailCharge, Terminal, Statuses
<1>8. QED
  BY <1>1, <1>5, <1>6, <1>7 DEF LedgerNext, SetMerchantPricing

\* With providers that do not contradict themselves, a finished payment stays
\* as it ended and its frozen fee never changes.
THEOREM Finality == ASSUME ProvidersAgree PROVE LedgerSpec => FinishedIsFinal
<1>1. LedgerSpec => []TypeInv
  BY LedgerTypeCorrect, PTL DEF TypeInv
<1>2. QED
  BY <1>1, FinalityStep, PTL DEF LedgerSpec, FinishedIsFinal

-----------------------------------------------------------------------------
(* What is reserved, earned and held *)

\* What a row adds to the funds reserved of an account, and to the revenue.
OpenDebit(row, a) ==
    IF row.kind \in OutboundKinds /\ row.account = a /\ row.status \notin Terminal
    THEN row.amount + row.fee ELSE 0
Gain(row) == IF row.status = "succeeded" THEN row.fee ELSE 0

\* What transaction t adds, with or without a row.
DebitOf(t, a) == IF Exists(t) THEN OpenDebit(txn[t], a) ELSE 0
GainOf(t) == IF Exists(t) THEN Gain(txn[t]) ELSE 0

\* A step that writes row t, with nothing said of the books.
Writes(t, new) == txn' = [txn EXCEPT ![t] = new]

\* The rows that are there stay finitely many, and a write moves the sums by
\* what the new row adds and the old one added.
LEMMA WriteMoves ==
    ASSUME LedgerTypeOK, IsFiniteSet(Rows), NEW t \in TxIds, NEW new \in Txn, Writes(t, new)
    PROVE  /\ IsFiniteSet(Rows')
           /\ Exists(t)' /\ txn'[t] = new
           /\ \A u \in TxIds \ {t} : Exists(u)' = Exists(u) /\ txn'[u] = txn[u]
<1>1. txn'[t] = new /\ new # NoTxn /\ \A u \in TxIds \ {t} : txn'[u] = txn[u]
  BY LedgerAssumption DEF LedgerTypeOK, Writes
<1>2. Rows' = Rows \cup {t}
  BY <1>1 DEF Rows, Exists
<1>3. IsFiniteSet(Rows')
  BY <1>2, FS_AddElement
<1>4. QED
  BY <1>1, <1>3 DEF Exists

LEMMA RowNumbers ==
    ASSUME NEW row \in Txn, NEW a
    PROVE  /\ row.amount \in Nat /\ row.fee \in Nat /\ row.amount + row.fee \in Nat
           /\ OpenDebit(row, a) \in Nat /\ Gain(row) \in Nat
BY DEF Txn, OpenDebit, Gain

LEMMA ReservedMoves ==
    ASSUME LedgerTypeOK, IsFiniteSet(Rows), NEW t \in TxIds, NEW new \in Txn, Writes(t, new),
           NEW a \in Accounts
    PROVE  SumFunction([u \in OpenOutbound(a)' |-> Debit(u)'])
             = SumFunction([u \in OpenOutbound(a) |-> Debit(u)]) + OpenDebit(new, a) - DebitOf(t, a)
<1> DEFINE S == OpenOutbound(a)
           R == OpenOutbound(a)'
           f == [u \in S |-> Debit(u)]
           g == [u \in R |-> Debit(u)']
<1>1. /\ IsFiniteSet(Rows') /\ Exists(t)' /\ txn'[t] = new
      /\ \A u \in TxIds \ {t} : Exists(u)' = Exists(u) /\ txn'[u] = txn[u]
  BY WriteMoves
<1>2. \A u \in TxIds : (Exists(u) => txn[u] \in Txn) /\ (Exists(u)' => txn'[u] \in Txn)
  BY <1>1 DEF LedgerTypeOK, Exists
<1>3. S \subseteq Rows /\ R \subseteq Rows' /\ IsFiniteSet(S) /\ IsFiniteSet(R)
  BY <1>1, FS_Subset DEF OpenOutbound
<1>4. f \in [S -> Int] /\ g \in [R -> Int]
  <2>1. \A u \in S : txn[u] \in Txn
    BY <1>2 DEF OpenOutbound, Rows
  <2>2. \A u \in R : txn'[u] \in Txn
    BY <1>2 DEF OpenOutbound, Rows
  <2>3. (\A u \in S : Debit(u) \in Int) /\ (\A u \in R : Debit(u)' \in Int)
    <3>1. \A row \in Txn : row.amount + row.fee \in Int
      BY DEF Txn
    <3> HIDE DEF S, R
    <3>2. QED
      BY <2>1, <2>2, <3>1 DEF Debit
  <2> HIDE DEF S, R
  <2>4. QED
    BY <2>3
<1>5. S \ {t} = R \ {t} /\ \A u \in S \ {t} : f[u] = g[u]
  BY <1>1 DEF OpenOutbound, Rows, Debit
<1>6. (IF t \in R THEN g[t] ELSE 0) = OpenDebit(new, a)
  BY <1>1 DEF OpenOutbound, Rows, Debit, OpenDebit
<1>7. (IF t \in S THEN f[t] ELSE 0) = DebitOf(t, a)
  BY DEF OpenOutbound, Rows, Debit, OpenDebit, DebitOf
<1> HIDE DEF S, R, f, g
<1>8. SumFunction(g) - OpenDebit(new, a) = SumFunction(f) - DebitOf(t, a)
  BY <1>3, <1>4, <1>5, <1>6, <1>7, SumChanges
<1>9. SumFunction(f) \in Int /\ SumFunction(g) \in Int
  BY <1>3, <1>4, SumType
<1>10. OpenDebit(new, a) \in Int /\ DebitOf(t, a) \in Int
  BY <1>2, RowNumbers DEF DebitOf
<1>11. QED
  BY <1>8, <1>9, <1>10 DEF S, R, f, g

LEMMA RevenueMoves ==
    ASSUME LedgerTypeOK, IsFiniteSet(Rows), NEW t \in TxIds, NEW new \in Txn, Writes(t, new)
    PROVE  SumFunction([u \in Succeeded' |-> txn'[u].fee])
             = SumFunction([u \in Succeeded |-> txn[u].fee]) + Gain(new) - GainOf(t)
<1> DEFINE S == Succeeded
           R == Succeeded'
           f == [u \in S |-> txn[u].fee]
           g == [u \in R |-> txn'[u].fee]
<1>1. /\ IsFiniteSet(Rows') /\ Exists(t)' /\ txn'[t] = new
      /\ \A u \in TxIds \ {t} : Exists(u)' = Exists(u) /\ txn'[u] = txn[u]
  BY WriteMoves
<1>2. \A u \in TxIds : (Exists(u) => txn[u] \in Txn) /\ (Exists(u)' => txn'[u] \in Txn)
  BY <1>1 DEF LedgerTypeOK, Exists
<1>3. S \subseteq Rows /\ R \subseteq Rows' /\ IsFiniteSet(S) /\ IsFiniteSet(R)
  BY <1>1, FS_Subset DEF Succeeded
<1>4. f \in [S -> Int] /\ g \in [R -> Int]
  <2>1. \A u \in S : txn[u] \in Txn
    BY <1>2 DEF Succeeded, Rows
  <2>2. \A u \in R : txn'[u] \in Txn
    BY <1>2 DEF Succeeded, Rows
  <2>3. (\A u \in S : txn[u].fee \in Int) /\ (\A u \in R : txn'[u].fee \in Int)
    <3>1. \A row \in Txn : row.fee \in Int
      BY DEF Txn
    <3> HIDE DEF S, R
    <3>2. QED
      BY <2>1, <2>2, <3>1
  <2> HIDE DEF S, R
  <2>4. QED
    BY <2>3
<1>5. S \ {t} = R \ {t} /\ \A u \in S \ {t} : f[u] = g[u]
  BY <1>1 DEF Succeeded, Rows
<1>6. (IF t \in R THEN g[t] ELSE 0) = Gain(new)
  BY <1>1 DEF Succeeded, Rows, Gain
<1>7. (IF t \in S THEN f[t] ELSE 0) = GainOf(t)
  BY DEF Succeeded, Rows, Gain, GainOf
<1> HIDE DEF S, R, f, g
<1>8. SumFunction(g) - Gain(new) = SumFunction(f) - GainOf(t)
  BY <1>3, <1>4, <1>5, <1>6, <1>7, SumChanges
<1>9. SumFunction(f) \in Int /\ SumFunction(g) \in Int
  BY <1>3, <1>4, SumType
<1>10. Gain(new) \in Int /\ GainOf(t) \in Int
  BY <1>2, RowNumbers DEF GainOf
<1>11. QED
  BY <1>8, <1>9, <1>10 DEF S, R, f, g

\* A journal moves money between buckets: the balances, the clearing and the
\* revenue add up to what they did.
LEMMA PostKeepsBalance ==
    ASSUME LedgerTypeOK, BooksBalance, NEW t \in TxIds, NEW row \in Txn, NEW kind \in JournalKinds,
           Post(t, row, kind)
    PROVE  BooksBalance'
<1> DEFINE e == Entries(kind, row.amount, row.fee)
           x == row.account
           f == [a \in Accounts |-> available[a] + reserved[a]]
           g == [a \in Accounts |-> available'[a] + reserved'[a]]
<1>1. e.available + e.reserved + e.clearing + e.revenue = 0
  BY JournalsBalance, RowNumbers
<1>2. e.available \in Int /\ e.reserved \in Int /\ e.clearing \in Int /\ e.revenue \in Int
  BY EntriesType, RowNumbers
<1>3. /\ available' = [available EXCEPT ![x] = @ + e.available]
      /\ reserved' = [reserved EXCEPT ![x] = @ + e.reserved]
      /\ clearing' = clearing + e.clearing /\ revenue' = revenue + e.revenue
  BY DEF Post
<1> HIDE DEF e
<1>4. x \in Accounts
  BY DEF Txn
<1>5. available'[x] = available[x] + e.available /\ reserved'[x] = reserved[x] + e.reserved
  BY <1>3, <1>4 DEF LedgerTypeOK
<1>6. \A a \in Accounts \ {x} : available'[a] = available[a] /\ reserved'[a] = reserved[a]
  BY <1>3 DEF LedgerTypeOK
<1>7. available[x] \in Int /\ reserved[x] \in Int /\ clearing \in Int /\ revenue \in Int
  BY <1>4 DEF LedgerTypeOK
<1>8. f \in [Accounts -> Int] /\ g \in [Accounts -> Int]
  <2>1. available'[x] \in Int /\ reserved'[x] \in Int
    BY <1>2, <1>5, <1>7
  <2>2. ASSUME NEW a \in Accounts
        PROVE  /\ available[a] \in Int /\ reserved[a] \in Int
               /\ available'[a] \in Int /\ reserved'[a] \in Int
    BY <1>6, <2>1 DEF LedgerTypeOK
  <2>3. QED
    BY <2>2
<1>9. f[x] = available[x] + reserved[x] /\ g[x] = available'[x] + reserved'[x]
  BY <1>4
<1>10. \A a \in Accounts \ {x} : f[a] = g[a]
  BY <1>6
<1>11. SumFunction(f) + clearing + revenue = SumFunction(Opening)
  BY DEF BooksBalance
<1> HIDE DEF f, g, x
<1>12. SumFunction(g) - g[x] = SumFunction(f) - f[x]
  BY <1>4, <1>8, <1>10, SumChanges, LedgerAssumption
<1>13. SumFunction(f) \in Int /\ SumFunction(g) \in Int
  BY <1>8, SumType, LedgerAssumption
<1>14. SumFunction(g) + clearing' + revenue' = SumFunction(Opening)
  <2>1. f[x] = available[x] + reserved[x]
        /\ g[x] = (available[x] + e.available) + (reserved[x] + e.reserved)
    BY <1>5, <1>9
  <2>2. g[x] \in Int /\ f[x] \in Int /\ g[x] - f[x] = e.available + e.reserved
    BY <1>2, <1>7, <2>1
  <2>3. SumFunction(g) = SumFunction(f) + e.available + e.reserved
    BY <1>2, <1>12, <1>13, <2>2
  <2>4. clearing' + revenue' = clearing + revenue - (e.available + e.reserved)
    BY <1>1, <1>2, <1>3, <1>7
  <2>5. clearing' \in Int /\ revenue' \in Int
    BY <1>2, <1>3, <1>7
  <2>6. QED
    BY <1>2, <1>7, <1>11, <1>13, <2>3, <2>4, <2>5
<1>15. QED
  BY <1>14 DEF BooksBalance, g

\* What a journal of a row moves in the reserved funds and the revenue.
ReservedBy(kind, row) ==
    CASE kind = "reserve_outbound" -> row.amount + row.fee
      [] kind \in {"complete_outbound", "release_outbound"} -> -(row.amount + row.fee)
      [] kind = "settle_pix_in" -> 0
EarnedBy(kind, row) == IF kind \in {"complete_outbound", "settle_pix_in"} THEN row.fee ELSE 0

LEMMA PostMoves ==
    ASSUME LedgerTypeOK, NEW t \in TxIds, NEW row \in Txn, NEW kind \in JournalKinds, Post(t, row, kind)
    PROVE  /\ \A a \in Accounts :
                reserved'[a] = reserved[a] + (IF a = row.account THEN ReservedBy(kind, row) ELSE 0)
           /\ revenue' = revenue + EarnedBy(kind, row)
<1>1. /\ Entries(kind, row.amount, row.fee).reserved = ReservedBy(kind, row)
      /\ Entries(kind, row.amount, row.fee).revenue = EarnedBy(kind, row)
  BY DEF JournalKinds, Entries, Bucket, ReserveEntries, CompleteEntries, ReleaseEntries, SettleEntries,
         ReservedBy, EarnedBy
<1>2. /\ reserved' = [reserved EXCEPT ![row.account] = reserved[row.account] + ReservedBy(kind, row)]
      /\ revenue' = revenue + EarnedBy(kind, row)
  BY <1>1 DEF Post
<1>3. QED
  BY <1>2 DEF LedgerTypeOK

\* A step that writes row t and moves the books by what that changes.
Moves(t, new) ==
    /\ Writes(t, new)
    /\ \A a \in Accounts : reserved'[a] = reserved[a] + OpenDebit(new, a) - DebitOf(t, a)
    /\ ProvidersAgree => revenue' = revenue + Gain(new) - GainOf(t)
    /\ BooksBalance => BooksBalance'

LEMMA PostedMoves ==
    ASSUME LedgerTypeOK, NEW t \in TxIds, NEW row \in Txn, NEW kind \in JournalKinds, NEW new \in Txn,
           Post(t, row, kind), Writes(t, new),
           \A a \in Accounts :
               OpenDebit(new, a) = DebitOf(t, a) + (IF a = row.account THEN ReservedBy(kind, row) ELSE 0),
           Gain(new) = GainOf(t) + EarnedBy(kind, row)
    PROVE  Moves(t, new)
<1>1. /\ \A a \in Accounts :
           reserved'[a] = reserved[a] + (IF a = row.account THEN ReservedBy(kind, row) ELSE 0)
      /\ revenue' = revenue + EarnedBy(kind, row)
  BY PostMoves
<1>2. Exists(t) => txn[t] \in Txn
  BY DEF Exists, LedgerTypeOK
<1>3. \A a \in Accounts : DebitOf(t, a) \in Int /\ reserved[a] \in Int
  BY <1>2, RowNumbers DEF DebitOf, LedgerTypeOK
<1>4. GainOf(t) \in Int /\ revenue \in Int
  BY <1>2 DEF GainOf, Gain, Txn, LedgerTypeOK
<1>5. ReservedBy(kind, row) \in Int /\ EarnedBy(kind, row) \in Int
  BY RowNumbers DEF ReservedBy, EarnedBy, JournalKinds
<1>6. \A a \in Accounts : reserved'[a] = reserved[a] + OpenDebit(new, a) - DebitOf(t, a)
  BY <1>1, <1>3, <1>5
<1>7. revenue' = revenue + Gain(new) - GainOf(t)
  BY <1>1, <1>4, <1>5
<1>8. BooksBalance => BooksBalance'
  BY PostKeepsBalance
<1>9. QED
  BY <1>6, <1>7, <1>8 DEF Moves

LEMMA QuietMoves ==
    ASSUME LedgerTypeOK, NEW t \in TxIds, NEW new \in Txn, UNCHANGED books, Writes(t, new),
           \A a \in Accounts : OpenDebit(new, a) = DebitOf(t, a),
           ProvidersAgree => Gain(new) = GainOf(t)
    PROVE  Moves(t, new)
<1>1. Exists(t) => txn[t] \in Txn
  BY DEF Exists, LedgerTypeOK
<1>2. \A a \in Accounts : DebitOf(t, a) \in Int /\ reserved[a] \in Int
  BY <1>1, RowNumbers DEF DebitOf, LedgerTypeOK
<1>3. GainOf(t) \in Int /\ revenue \in Int
  BY <1>1 DEF GainOf, Gain, Txn, LedgerTypeOK
<1>4. reserved' = reserved /\ revenue' = revenue /\ available' = available /\ clearing' = clearing
  BY DEF books
<1>5. BooksBalance => BooksBalance'
  BY <1>4 DEF BooksBalance
<1>6. \A a \in Accounts : reserved'[a] = reserved[a] + OpenDebit(new, a) - DebitOf(t, a)
  BY <1>2, <1>4
<1>7. ProvidersAgree => revenue' = revenue + Gain(new) - GainOf(t)
  BY <1>3, <1>4
<1>8. QED
  BY <1>5, <1>6, <1>7 DEF Moves

\* Every call that writes a row moves the sums by what its row adds.
LEMMA StepMoves ==
    ASSUME TypeInv, NEW t \in TxIds,
           Begin(t) \/ SettlePixIn(t) \/ CompleteOutbound(t) \/ FailOutbound(t) \/ Patch(t)
    PROVE  \E new \in Txn : Moves(t, new)
<1>0. LedgerTypeOK /\ (Exists(t) => txn[t] \in Txn)
  BY DEF TypeInv, LedgerTypeOK, Exists
<1>1. ASSUME NEW a \in Accounts, NEW amount \in Amounts, NEW v \in 1..Len(pricing),
             BeginPixIn(t, a, amount, v)
      PROVE  \E new \in Txn : Moves(t, new)
  <2> DEFINE new == NewTxn("pix_in", a, amount, v)
  <2>1. new \in Txn
    BY NewTxnType, LedgerAssumption DEF TypeInv, PricingOK, Kinds
  <2>2. Writes(t, new) /\ UNCHANGED books /\ ~Exists(t)
    BY <1>1 DEF BeginPixIn, CanBeginPixIn, Writes
  <2>3. new.kind = "pix_in" /\ new.status = "pending"
    BY DEF NewTxn
  <2> HIDE DEF new
  <2>4. Gain(new) = GainOf(t) /\ \A b \in Accounts : OpenDebit(new, b) = DebitOf(t, b)
    BY <2>2, <2>3 DEF Gain, GainOf, OpenDebit, DebitOf, OutboundKinds
  <2>5. QED
    BY <1>0, <2>1, <2>2, <2>4, QuietMoves
<1>2. ASSUME NEW a \in Accounts, NEW amount \in Amounts, NEW v \in 1..Len(pricing),
             NEW kind \in OutboundKinds, BeginOutbound(t, a, kind, amount, v)
      PROVE  \E new \in Txn : Moves(t, new)
  <2> DEFINE new == NewTxn(kind, a, amount, v)
  <2>1. new \in Txn
    BY NewTxnType, LedgerAssumption DEF TypeInv, PricingOK, Kinds, OutboundKinds
  <2>2. Writes(t, new) /\ Post(t, new, "reserve_outbound") /\ ~Exists(t)
    BY <1>2 DEF BeginOutbound, CanBeginOutbound, Writes
  <2>3. new.kind \in OutboundKinds /\ new.status = "pending"
    BY DEF NewTxn
  <2> HIDE DEF new
  <2>4. /\ Gain(new) = GainOf(t) + EarnedBy("reserve_outbound", new)
        /\ \A b \in Accounts : OpenDebit(new, b) = DebitOf(t, b) +
              (IF b = new.account THEN ReservedBy("reserve_outbound", new) ELSE 0)
    BY <2>1, <2>2, <2>3, RowNumbers
    DEF Gain, GainOf, OpenDebit, DebitOf, EarnedBy, ReservedBy, Terminal
  <2>5. QED
    BY <1>0, <2>1, <2>2, <2>4, PostedMoves DEF JournalKinds
<1>3. ASSUME SettlePixIn(t) \/ CompleteOutbound(t) \/ FailOutbound(t)
      PROVE  \E new \in Txn : Moves(t, new)
  <2>1. txn[t] \in Txn /\ Exists(t)
    BY <1>0, <1>3 DEF SettlePixIn, CompleteOutbound, FailOutbound
  <2>2. PICK kind \in JournalKinds, status \in Terminal :
           /\ Finalize(t, kind, status)
           /\ txn[t].status \notin Terminal
           /\ \/ kind = "settle_pix_in" /\ status = "succeeded" /\ txn[t].kind = "pix_in"
              \/ kind = "complete_outbound" /\ status = "succeeded" /\ txn[t].kind \in OutboundKinds
              \/ kind = "release_outbound" /\ status = "failed" /\ txn[t].kind \in OutboundKinds
    BY <1>3
    DEF SettlePixIn, CompleteOutbound, FailOutbound, CanSettlePixIn, CanFinishOutbound, JournalKinds, Terminal
  <2> DEFINE new == [txn[t] EXCEPT !.status = status]
  <2>3. new \in Txn
    BY <2>1 DEF Txn, Terminal, Statuses
  <2>4. Writes(t, new) /\ Post(t, txn[t], kind)
    BY <2>2 DEF Finalize, Writes
  <2>5. /\ new.status = status /\ new.kind = txn[t].kind /\ new.account = txn[t].account
        /\ new.amount = txn[t].amount /\ new.fee = txn[t].fee
    BY <2>1 DEF Txn
  <2> HIDE DEF new
  <2>6. /\ Gain(new) = GainOf(t) + EarnedBy(kind, txn[t])
        /\ \A b \in Accounts : OpenDebit(new, b) = DebitOf(t, b) +
              (IF b = txn[t].account THEN ReservedBy(kind, txn[t]) ELSE 0)
    BY <2>1, <2>2, <2>3, <2>5, RowNumbers
    DEF Gain, GainOf, OpenDebit, DebitOf, EarnedBy, ReservedBy, Terminal, OutboundKinds
  <2>7. QED
    BY <1>0, <2>1, <2>3, <2>4, <2>6, PostedMoves
<1>4. ASSUME Patch(t) PROVE \E new \in Txn : Moves(t, new)
  <2>1. txn[t] \in Txn /\ Exists(t)
    BY <1>0, <1>4 DEF Patch
  <2>2. CASE MayRecordId(txn[t]) /\ PatchExternalId(t)
    <3> DEFINE new == [txn[t] EXCEPT !.ext = TRUE]
    <3>1. /\ new \in Txn /\ new.status = txn[t].status /\ new.kind = txn[t].kind
          /\ new.account = txn[t].account /\ new.amount = txn[t].amount /\ new.fee = txn[t].fee
      BY <2>1 DEF Txn
    <3>2. Writes(t, new) /\ UNCHANGED books
      BY <2>2 DEF PatchExternalId, Writes
    <3> HIDE DEF new
    <3>3. Gain(new) = GainOf(t) /\ \A b \in Accounts : OpenDebit(new, b) = DebitOf(t, b)
      BY <2>1, <3>1 DEF Gain, GainOf, OpenDebit, DebitOf
    <3>4. QED
      BY <1>0, <3>1, <3>2, <3>3, QuietMoves
  <2>3. ASSUME NEW status \in {"ambiguous", "failed"}, PatchStatus(t, status),
               status = "ambiguous" => txn[t].status = "pending",
               status = "failed" => txn[t].kind = "pix_in" /\ (ProvidersAgree => txn[t].status # "succeeded")
        PROVE  \E new \in Txn : Moves(t, new)
    <3> DEFINE new == [txn[t] EXCEPT !.status = status]
    <3>1. /\ new \in Txn /\ new.status = status /\ new.kind = txn[t].kind
          /\ new.account = txn[t].account /\ new.amount = txn[t].amount /\ new.fee = txn[t].fee
      BY <2>1 DEF Txn, Statuses
    <3>2. Writes(t, new) /\ UNCHANGED books
      BY <2>3 DEF PatchStatus, Writes
    <3> HIDE DEF new
    <3>3. \A b \in Accounts : OpenDebit(new, b) = DebitOf(t, b)
      BY <2>1, <2>3, <3>1 DEF OpenDebit, DebitOf, Terminal, OutboundKinds
    <3>4. ProvidersAgree => Gain(new) = GainOf(t)
      BY <2>1, <2>3, <3>1 DEF Gain, GainOf
    <3>5. QED
      BY <1>0, <3>1, <3>2, <3>3, <3>4, QuietMoves
  <2>4. QED
    BY <1>4, <2>2, <2>3 DEF Patch, MayBecomeAmbiguous, MayFailCharge
<1>5. QED
  BY <1>1, <1>2, <1>3, <1>4 DEF Begin

\* The sums hold together, with finitely many rows to take them over.
SumsInv == IsFiniteSet(Rows) /\ ReservedIsOpenDebit /\ BooksBalance

LEMMA SumsInductive == TypeInv /\ SumsInv /\ [LedgerNext]_ledgerVars => SumsInv'
<1> SUFFICES ASSUME TypeInv, SumsInv, [LedgerNext]_ledgerVars PROVE SumsInv'
  OBVIOUS
<1>0. LedgerTypeOK /\ IsFiniteSet(Rows)
  BY DEF TypeInv, SumsInv
<1>1. ASSUME NEW t \in TxIds, NEW new \in Txn, Moves(t, new) PROVE SumsInv'
  <2>1. IsFiniteSet(Rows')
    BY <1>0, <1>1, WriteMoves DEF Moves
  <2>2. ASSUME NEW a \in Accounts PROVE reserved'[a] = SumFunction([u \in OpenOutbound(a)' |-> Debit(u)'])
    <3>1. SumFunction([u \in OpenOutbound(a)' |-> Debit(u)'])
            = SumFunction([u \in OpenOutbound(a) |-> Debit(u)]) + OpenDebit(new, a) - DebitOf(t, a)
      BY <1>0, <1>1, ReservedMoves DEF Moves
    <3>2. reserved[a] = SumFunction([u \in OpenOutbound(a) |-> Debit(u)])
      BY DEF SumsInv, ReservedIsOpenDebit
    <3>3. QED
      BY <1>1, <3>1, <3>2 DEF Moves
  <2>3. QED
    BY <1>1, <2>1, <2>2 DEF SumsInv, ReservedIsOpenDebit, Moves
<1>2. ASSUME UNCHANGED <<txn, books>> PROVE SumsInv'
  <2>1. Rows' = Rows /\ \A a \in Accounts : OpenOutbound(a)' = OpenOutbound(a)
    BY <1>2 DEF Rows, OpenOutbound, Exists
  <2>2. \A t : Debit(t)' = Debit(t)
    BY <1>2 DEF Debit
  <2>3. BooksBalance'
    BY <1>2 DEF SumsInv, BooksBalance, books
  <2>4. ReservedIsOpenDebit'
    BY <1>2, <2>1, <2>2 DEF SumsInv, ReservedIsOpenDebit, books
  <2>5. QED
    BY <2>1, <2>3, <2>4 DEF SumsInv
<1>3. QED
  BY <1>1, <1>2, StepMoves DEF LedgerNext, SetMerchantPricing, ledgerVars

LEMMA RevenueInductive ==
    ASSUME ProvidersAgree
    PROVE  TypeInv /\ SumsInv /\ RevenueIsRealizedFees /\ [LedgerNext]_ledgerVars => RevenueIsRealizedFees'
<1> SUFFICES ASSUME TypeInv, SumsInv, RevenueIsRealizedFees, [LedgerNext]_ledgerVars
             PROVE  RevenueIsRealizedFees'
  OBVIOUS
<1>1. ASSUME NEW t \in TxIds, NEW new \in Txn, Moves(t, new) PROVE RevenueIsRealizedFees'
  <2>1. SumFunction([u \in Succeeded' |-> txn'[u].fee])
             = SumFunction([u \in Succeeded |-> txn[u].fee]) + Gain(new) - GainOf(t)
    BY <1>1, RevenueMoves DEF Moves, TypeInv, SumsInv
  <2>2. QED
    BY <1>1, <2>1 DEF Moves, RevenueIsRealizedFees
<1>2. ASSUME UNCHANGED <<txn, books>> PROVE RevenueIsRealizedFees'
  <2>1. Succeeded' = Succeeded
    BY <1>2 DEF Succeeded, Rows, Exists
  <2>2. QED
    BY <1>2, <2>1 DEF RevenueIsRealizedFees, books
<1>3. QED
  BY <1>1, <1>2, StepMoves DEF LedgerNext, SetMerchantPricing, ledgerVars

LEMMA SumsInitial == LedgerInit => SumsInv /\ RevenueIsRealizedFees
<1> SUFFICES ASSUME LedgerInit PROVE SumsInv /\ RevenueIsRealizedFees
  OBVIOUS
<1>1. Rows = {}
  BY DEF LedgerInit, Rows, Exists
<1>2. Succeeded = {} /\ \A a : OpenOutbound(a) = {}
  BY <1>1 DEF Succeeded, OpenOutbound
<1>3. ReservedIsOpenDebit
  <2>1. ASSUME NEW a \in Accounts PROVE SumFunction([u \in OpenOutbound(a) |-> Debit(u)]) = 0
    <3> DEFINE f == [u \in OpenOutbound(a) |-> Debit(u)]
    <3>1. DOMAIN f = {}
      BY <1>2
    <3> HIDE DEF f
    <3>2. SumFunction(f) = 0
      BY <3>1, SumOfNone
    <3>3. QED
      BY <3>2 DEF f
  <2>2. QED
    BY <2>1 DEF ReservedIsOpenDebit, LedgerInit
<1>4. RevenueIsRealizedFees
  <2> DEFINE f == [u \in Succeeded |-> txn[u].fee]
  <2>1. DOMAIN f = {}
    BY <1>2
  <2> HIDE DEF f
  <2>2. SumFunction(f) = 0
    BY <2>1, SumOfNone
  <2>3. QED
    BY <2>2 DEF f, RevenueIsRealizedFees, LedgerInit
<1>5. BooksBalance
  <2>1. [a \in Accounts |-> available[a] + reserved[a]] = Opening
    BY LedgerAssumption DEF LedgerInit
  <2>2. Opening \in [Accounts -> Int]
    BY LedgerAssumption
  <2>3. SumFunction(Opening) \in Int
    BY <2>2, SumType, LedgerAssumption
  <2>4. QED
    BY <2>1, <2>3 DEF BooksBalance, LedgerInit
<1>6. QED
  BY <1>1, <1>3, <1>4, <1>5, FS_EmptySet DEF SumsInv

LEMMA SumsHold == LedgerSpec => [](TypeInv /\ SumsInv)
<1>1. LedgerSpec => []TypeInv
  BY LedgerTypeCorrect, PTL DEF TypeInv
<1>2. QED
  BY <1>1, SumsInitial, SumsInductive, PTL DEF LedgerSpec

\* What an account has reserved is what its open outbound payments will debit,
\* for any number of payments, whatever the providers say.
THEOREM ReservedCovers == LedgerSpec => []ReservedIsOpenDebit
BY SumsHold, PTL DEF SumsInv

\* Money is neither made nor lost.
THEOREM MoneyConserved == LedgerSpec => []BooksBalance
BY SumsHold, PTL DEF SumsInv

\* With providers that do not contradict themselves, the revenue booked is the
\* sum of the fees of the payments that succeeded.
THEOREM RevenueRealized == ASSUME ProvidersAgree PROVE LedgerSpec => []RevenueIsRealizedFees
BY SumsHold, SumsInitial, RevenueInductive, PTL DEF LedgerSpec

=============================================================================
