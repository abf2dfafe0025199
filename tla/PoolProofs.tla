----------------------------- MODULE PoolProofs -----------------------------
(***************************************************************************)
(* Theorems about Budget and Pool.  About the ledger, Budget, by itself,   *)
(* for every set of runs, ceiling, promise, TTL and bound.  About the door *)
(* in front of it, for every set of processes and subjects and every       *)
(* policy: the door and the ledger agree, a probing pool admits one run,   *)
(* everything the pools do to the budget file is Budget, and so what is    *)
(* proved of the ledger holds under the pools.                             *)
(***************************************************************************)
EXTENDS Pool, SequenceTheorems, FiniteSetTheorems, TLAPS

-----------------------------------------------------------------------------
(* Sums over sets of runs.                                                 *)

\* The units of finitely many runs are finitely many, so a sum is a number.
LEMMA SumType ==
    ASSUME NEW f \in [Runs -> Nat], NEW S \in SUBSET Runs
    PROVE  IsFiniteSet(Units(f, S)) /\ Sum(f, S) \in Nat
<1> DEFINE Of(r) == {r} \X (1 .. f[r])
           All == {Of(r) : r \in S}
           map == [r \in S |-> Of(r)]
<1>1. IsFiniteSet(S)
  BY FS_Subset, BudgetAssumption
<1>2. map \in Surjection(S, All)
  BY DEF Surjection
<1>3. IsFiniteSet(All)
  BY <1>1, <1>2, FS_Surjection
<1>4. ASSUME NEW r \in S PROVE IsFiniteSet(Of(r))
  <2>1. f[r] \in Nat
    OBVIOUS
  <2>2. IsFiniteSet(1 .. f[r])
    BY <2>1, FS_Interval, 1 \in Int, f[r] \in Int
  <2>3. IsFiniteSet({r})
    BY FS_Singleton
  <2> QED
    BY <2>2, <2>3, FS_Product
<1>5. \A T \in All : IsFiniteSet(T)
  BY <1>4
<1>6. IsFiniteSet(UNION All)
  <2> HIDE DEF All
  <2> QED BY <1>3, <1>5, FS_UNION
<1>7. Units(f, S) = UNION All
  BY DEF Units
<1> QED
  BY <1>6, <1>7, FS_CardinalityType DEF Sum

\* Nothing sums to nothing.
LEMMA SumEmpty ==
    ASSUME NEW f
    PROVE  Sum(f, {}) = 0
<1>1. Units(f, {}) = {}
  BY DEF Units
<1> QED
  BY <1>1, FS_EmptySet DEF Sum

\* A single run sums to its own value.
LEMMA SumOne ==
    ASSUME NEW f \in [Runs -> Nat], NEW r \in Runs
    PROVE  Sum(f, {r}) = f[r]
<1> DEFINE n == f[r]
           map == [i \in 1 .. n |-> <<r, i>>]
<1>1. n \in Nat
  OBVIOUS
<1>2. Units(f, {r}) = {r} \X (1 .. n)
  BY DEF Units
<1>3. map \in Bijection(1 .. n, {r} \X (1 .. n))
  <2>1. map \in [1 .. n -> {r} \X (1 .. n)]
    OBVIOUS
  <2>2. \A i, j \in 1 .. n : map[i] = map[j] => i = j
    OBVIOUS
  <2>3. \A u \in {r} \X (1 .. n) : \E i \in 1 .. n : map[i] = u
    OBVIOUS
  <2> QED
    BY <2>1, <2>2, <2>3 DEF Bijection, Injection, Surjection, IsInjective
<1>4. ExistsBijection(1 .. n, Units(f, {r}))
  BY <1>2, <1>3 DEF ExistsBijection
<1> QED
  BY <1>1, <1>4, FS_CountingElements DEF Sum

\* The sum over two disjoint sets is the sum of their sums.
LEMMA SumSplit ==
    ASSUME NEW f \in [Runs -> Nat], NEW S \in SUBSET Runs, NEW T \in SUBSET Runs,
           S \cap T = {}
    PROVE  Sum(f, S \cup T) = Sum(f, S) + Sum(f, T)
<1>1. Units(f, S \cup T) = Units(f, S) \cup Units(f, T)
  BY DEF Units
<1>2. Units(f, S) \cap Units(f, T) = {}
  <2> SUFFICES ASSUME NEW u \in Units(f, S), u \in Units(f, T)
               PROVE  FALSE
    OBVIOUS
  <2>1. PICK r \in S : u \in {r} \X (1 .. f[r])
    BY DEF Units
  <2>2. PICK q \in T : u \in {q} \X (1 .. f[q])
    BY DEF Units
  <2> QED
    BY <2>1, <2>2
<1>3. /\ IsFiniteSet(Units(f, S)) /\ IsFiniteSet(Units(f, T))
      /\ Sum(f, S) \in Nat /\ Sum(f, T) \in Nat
  BY SumType
<1>4. Cardinality(Units(f, S) \cap Units(f, T)) = 0
  BY <1>2, FS_EmptySet
<1>5. Cardinality(Units(f, S) \cup Units(f, T)) =
          Cardinality(Units(f, S)) + Cardinality(Units(f, T)) - 0
  BY <1>3, <1>4, FS_Union
<1>6. Cardinality(Units(f, S)) \in Nat /\ Cardinality(Units(f, T)) \in Nat
  BY <1>3 DEF Sum
<1>7. Sum(f, S \cup T) = Cardinality(Units(f, S) \cup Units(f, T))
  BY <1>1 DEF Sum
<1>8. Sum(f, S) = Cardinality(Units(f, S)) /\ Sum(f, T) = Cardinality(Units(f, T))
  BY DEF Sum
<1> QED
  BY <1>5, <1>6, <1>7, <1>8

\* A sum looks at nothing but the values in its set.
LEMMA SumSame ==
    ASSUME NEW S, NEW f, NEW g, \A r \in S : f[r] = g[r]
    PROVE  Sum(f, S) = Sum(g, S)
<1>1. Units(f, S) = Units(g, S)
  BY DEF Units
<1> QED
  BY <1>1 DEF Sum

\* A sum of larger values is not smaller.
LEMMA SumMonotone ==
    ASSUME NEW S \in SUBSET Runs, NEW f \in [Runs -> Nat], NEW g \in [Runs -> Nat],
           \A r \in S : f[r] <= g[r]
    PROVE  Sum(f, S) <= Sum(g, S)
<1>1. Units(f, S) \subseteq Units(g, S)
  <2> SUFFICES ASSUME NEW u \in Units(f, S)
               PROVE  u \in Units(g, S)
    OBVIOUS
  <2>1. PICK r \in S : u \in {r} \X (1 .. f[r])
    BY DEF Units
  <2>2. f[r] \in Nat /\ g[r] \in Nat /\ f[r] <= g[r]
    OBVIOUS
  <2>3. u \in {r} \X (1 .. g[r])
    BY <2>1, <2>2
  <2> QED
    BY <2>3 DEF Units
<1>2. IsFiniteSet(Units(g, S))
  BY SumType
<1> QED
  BY <1>1, <1>2, FS_Subset DEF Sum

-----------------------------------------------------------------------------
(* Budget: the inductive invariant.                                        *)

\* Only api mode charges anybody.
SubscriptionChargesNobody == Mode = "subscription" => todays = {}

\* A run that may start has nothing in the ledger.
IdleHoldsNothing == \A r \in Runs : phase[r] = "idle" => r \notin open \cup todays

\* The reservation of a run under supervision is no older than the limit that
\* ends the run, and so, where that is within the TTL, has not expired.
SupervisedIsYoung ==
    \A r \in open : phase[r] = "running" => age[r] <= RunLimit

LedgerInv ==
         /\ TypeOK /\ ChargedOnce /\ CapHolds /\ LiveRunsHold
         /\ SubscriptionChargesNobody /\ IdleHoldsNothing /\ SupervisedIsYoung

\* The functions that are summed are functions of the runs to numbers.
LEMMA SummandTypes ==
    ASSUME TypeOK
    PROVE  /\ Held \in [Runs -> Nat] /\ Promise \in [Runs -> Nat]
           /\ Promised \in [Runs -> Nat] /\ bill \in [Runs -> Nat]
           /\ \A r \in Runs : Promise[r] = PerRun /\ Promise[r] <= Held[r]
           /\ \A r \in Runs : Promised[r] <= Promise[r] /\ Promised[r] <= bill[r]
<1>1. PerRun \in Nat /\ actual \in [Runs -> Nat] /\ bill \in [Runs -> Nat]
  BY BudgetAssumption DEF TypeOK
<1> QED
  BY <1>1 DEF Held, Promise, Promised, Max2, Min2

\* What a day starts with is what the runs charged on it were charged.
LEMMA RolledDay ==
    ASSUME TypeOK, ChargedOnce
    PROVE  /\ RollDay = IF Mode = "api" THEN Sum(bill, RolledTodays) ELSE 0
           /\ RollDay \in Nat
           /\ RolledTodays \in SUBSET todays /\ RolledTodays \in SUBSET Runs
<1>1. Sum(bill, {}) = 0
  BY SumEmpty
<1>2. CASE rolled
  BY <1>2 DEF RollDay, RolledTodays, ChargedOnce, TypeOK
<1>3. CASE ~rolled
  BY <1>1, <1>3 DEF RollDay, RolledTodays, TypeOK
<1> QED
  BY <1>2, <1>3

\* The step all settling methods share: the file stays well formed, every
\* charge is counted once, and the promises of the runs it charges cover what
\* they are charged up to their promise.
LEMMA TransactStep ==
    ASSUME TypeOK, ChargedOnce, SubscriptionChargesNobody,
           NEW S \in SUBSET open, NEW cost \in [Runs -> Nat],
           NEW New \in SUBSET Runs, New \cap todays = {}, New \cap S = {},
           Transact(S, cost, New)
    PROVE  /\ accrued' \in Nat /\ rolled' \in BOOLEAN
           /\ open' \in SUBSET Runs /\ todays' \in SUBSET Runs
           /\ actual' \in [Runs -> Nat] /\ age' \in [Runs -> Nat] /\ bill' \in [Runs -> Nat]
           /\ ChargedOnce' /\ SubscriptionChargesNobody'
           /\ Sum(Promised', todays') \in Nat
           /\ Sum(Promised', todays')
                 <= Sum(Promised, RolledTodays) + Sum(Promise, S)
<1>1. /\ S \in SUBSET Runs /\ S \cap todays = {}
      /\ RolledTodays \in SUBSET Runs /\ RolledTodays \in SUBSET todays
      /\ S \cap RolledTodays = {} /\ RolledTodays \cap S = {}
  BY RolledDay DEF TypeOK, ChargedOnce
<1>2. /\ RollDay \in Nat
      /\ RollDay = IF Mode = "api" THEN Sum(bill, RolledTodays) ELSE 0
  BY RolledDay
<1>3. Sum(cost, S) \in Nat
  BY <1>1, SumType
<1>4. /\ open' \in SUBSET Runs /\ todays' \in SUBSET Runs
      /\ actual' \in [Runs -> Nat] /\ age' \in [Runs -> Nat]
      /\ bill' \in [Runs -> Nat] /\ rolled' = TRUE
  BY <1>1 DEF Transact, TypeOK
<1>5. accrued' \in Nat
  BY <1>2, <1>3 DEF Transact, Accrues
<1>6. open' \cap todays' = {}
  BY <1>1 DEF Transact, ChargedOnce
<1>7. /\ Promised' \in [Runs -> Nat] /\ Promised \in [Runs -> Nat]
      /\ Promise \in [Runs -> Nat]
      /\ \A r \in Runs : Promised'[r] = Min2(PerRun, bill'[r])
      /\ \A r \in Runs : Promised[r] = Min2(PerRun, bill[r])
      /\ \A r \in Runs : Promised'[r] <= Promise[r]
  <2>1. PerRun \in Nat
    BY BudgetAssumption
  <2> QED
    BY <1>4, <2>1, SummandTypes DEF Promised, Promise, Min2
<1>8. CASE Mode = "subscription"
  <2>1. todays' = {} /\ RolledTodays = {}
    BY <1>8 DEF Transact, SubscriptionChargesNobody, RolledTodays
  <2>2. accrued' = 0
    BY <1>2, <1>8 DEF Transact, Accrues
  <2>3. /\ Sum(Promised', todays') = 0 /\ Sum(Promised, RolledTodays) = 0
    BY <2>1, SumEmpty
  <2>4. Sum(Promise, S) \in Nat
    BY <1>1, <1>7, SumType
  <2> QED
    BY <1>4, <1>5, <1>6, <1>8, <2>1, <2>2, <2>3, <2>4
       DEF ChargedOnce, SubscriptionChargesNobody
<1>9. CASE Mode = "api"
  <2>1. todays' = RolledTodays \cup S
    BY <1>9 DEF Transact
  <2>2. /\ \A r \in RolledTodays : bill'[r] = bill[r]
        /\ \A r \in S : bill'[r] = cost[r]
    BY <1>1, <1>9 DEF Transact
  <2>3. Sum(bill', todays') = Sum(bill', RolledTodays) + Sum(bill', S)
    BY <1>1, <1>4, <2>1, SumSplit
  <2>4. /\ Sum(bill', RolledTodays) = Sum(bill, RolledTodays)
        /\ Sum(bill', S) = Sum(cost, S)
    BY <2>2, SumSame
  <2>5. accrued' = Sum(bill', todays')
    BY <1>2, <1>9, <2>3, <2>4 DEF Transact, Accrues
  <2>6. Sum(Promised', todays') = Sum(Promised', RolledTodays) + Sum(Promised', S)
    BY <1>1, <1>7, <2>1, SumSplit
  <2>7. Sum(Promised', RolledTodays) = Sum(Promised, RolledTodays)
    <3>1. \A r \in RolledTodays : Promised'[r] = Promised[r]
      BY <1>1, <1>7, <2>2
    <3> QED
      BY <3>1, SumSame
  <2>8. Sum(Promised', S) <= Sum(Promise, S)
    BY <1>1, <1>7, SumMonotone
  <2>9. /\ Sum(Promised', S) \in Nat /\ Sum(Promise, S) \in Nat
        /\ Sum(Promised, RolledTodays) \in Nat
    BY <1>1, <1>7, SumType
  <2>10. /\ Sum(Promised', todays') \in Nat
         /\ Sum(Promised', todays') <= Sum(Promised, RolledTodays) + Sum(Promise, S)
    BY <2>6, <2>7, <2>8, <2>9
  <2> QED
    BY <1>4, <1>5, <1>6, <1>9, <2>5, <2>10 DEF ChargedOnce, SubscriptionChargesNobody
<1> QED
  BY <1>8, <1>9, BudgetAssumption

\* A settlement that lets nobody in keeps the cap.
LEMMA SettlementKeepsCap ==
    ASSUME TypeOK, ChargedOnce, CapHolds, SubscriptionChargesNobody,
           NEW S \in SUBSET open, NEW cost \in [Runs -> Nat],
           Transact(S, cost, {})
    PROVE  CapHolds'
<1>1. /\ Sum(Promised', todays') \in Nat
      /\ Sum(Promised', todays') <= Sum(Promised, RolledTodays) + Sum(Promise, S)
  BY TransactStep
<1>2. /\ open \in SUBSET Runs /\ S \in SUBSET Runs /\ open \ S \in SUBSET Runs
      /\ open' = open \ S /\ (open \ S) \cup S = open /\ (open \ S) \cap S = {}
  BY DEF TypeOK, Transact
<1>3. Promise \in [Runs -> Nat] /\ Promised \in [Runs -> Nat] /\ Promise' = Promise
  BY SummandTypes DEF Promise
<1>4. Sum(Promise, open) = Sum(Promise, open \ S) + Sum(Promise, S)
  BY <1>2, <1>3, SumSplit
<1>5. Sum(Promised, RolledTodays) <= Sum(Promised, todays)
  <2>1. Sum(Promised, todays) \in Nat
    BY <1>3, SumType DEF TypeOK
  <2>2. CASE rolled
    BY <2>1, <2>2 DEF RolledTodays
  <2>3. CASE ~rolled
    BY <2>1, <2>3, SumEmpty DEF RolledTodays
  <2> QED
    BY <2>2, <2>3
<1>6. /\ Sum(Promise, S) \in Nat /\ Sum(Promise, open \ S) \in Nat
      /\ Sum(Promised, RolledTodays) \in Nat /\ Sum(Promised, todays) \in Nat
  BY <1>2, <1>3, RolledDay, SumType DEF TypeOK
<1>7. Ceiling \in Nat
  BY BudgetAssumption
<1>8. Sum(Promise', open') = Sum(Promise, open \ S)
  BY <1>2, <1>3
<1> QED
  BY <1>1, <1>4, <1>5, <1>6, <1>7, <1>8 DEF CapHolds

\* An admission keeps the cap: what the ledger weighs before it lets a run in
\* is never less than what the cap counts.
LEMMA ReserveKeepsCap ==
    ASSUME TypeOK, ChargedOnce, SubscriptionChargesNobody,
           NEW r \in Runs, r \notin open \cup todays, NEW observed \in Nat,
           Reserve(r, observed)
    PROVE  CapHolds'
<1> DEFINE kept == open \ Expired
<1>1. /\ Expired \in SUBSET open /\ Held \in [Runs -> Nat]
      /\ {r} \in SUBSET Runs /\ {r} \cap todays = {} /\ {r} \cap Expired = {}
      /\ kept \in SUBSET Runs /\ Expired \in SUBSET Runs /\ kept \cap {r} = {}
  BY SummandTypes DEF Expired, TypeOK
<1>2. /\ Base(observed) + Outstanding(kept) + PerRun <= Ceiling
      /\ Transact(Expired, Held, {r})
  BY DEF Reserve
<1>3. /\ Sum(Promised', todays') \in Nat
      /\ Sum(Promised', todays')
            <= Sum(Promised, RolledTodays) + Sum(Promise, Expired)
  BY <1>1, <1>2, TransactStep
<1>4. /\ Promise \in [Runs -> Nat] /\ Promised \in [Runs -> Nat] /\ bill \in [Runs -> Nat]
      /\ Promise' = Promise /\ Promise[r] = PerRun
      /\ \A q \in Runs : Promise[q] <= Held[q] /\ Promised[q] <= bill[q]
  BY SummandTypes DEF Promise
<1>5. open' = kept \cup {r}
  BY <1>2 DEF Transact
<1>6. Sum(Promise', open') = Sum(Promise, kept) + PerRun
  <2>1. Sum(Promise, kept \cup {r}) = Sum(Promise, kept) + Sum(Promise, {r})
    BY <1>1, <1>4, SumSplit
  <2>2. Sum(Promise, {r}) = PerRun
    BY <1>4, SumOne
  <2> QED
    BY <1>4, <1>5, <2>1, <2>2
<1>7. /\ Sum(Promise, kept) <= Sum(Held, kept)
      /\ Sum(Promise, Expired) <= Sum(Held, Expired)
  BY <1>1, <1>4, SumMonotone
<1>8. /\ Sum(Promise, kept) \in Nat /\ Sum(Held, kept) \in Nat
      /\ Sum(Promise, Expired) \in Nat /\ Sum(Held, Expired) \in Nat
  BY <1>1, <1>4, SumType
<1>9. /\ RolledTodays \in SUBSET Runs /\ RolledTodays \in SUBSET todays
      /\ RollDay = IF Mode = "api" THEN Sum(bill, RolledTodays) ELSE 0
  BY RolledDay
<1>10. PerRun \in Nat /\ Ceiling \in Nat
  BY BudgetAssumption
<1>11. Outstanding(kept) = Sum(Held, kept)
  BY DEF Outstanding
<1>12. CASE Mode = "api"
  <2>1. Base(observed) = Sum(bill, RolledTodays) + Sum(Held, Expired)
    BY <1>9, <1>12 DEF Base, Accrues
  <2>2. /\ Sum(Promised, RolledTodays) <= Sum(bill, RolledTodays)
        /\ Sum(Promised, RolledTodays) \in Nat /\ Sum(bill, RolledTodays) \in Nat
    BY <1>4, <1>9, SumMonotone, SumType
  <2> QED
    BY <1>2, <1>3, <1>6, <1>7, <1>8, <1>10, <1>11, <2>1, <2>2 DEF CapHolds
<1>13. CASE Mode = "subscription"
  <2>1. Base(observed) = observed
    BY <1>13 DEF Base
  <2>2. todays' = {}
    BY <1>2, <1>13 DEF Transact, RolledTodays, SubscriptionChargesNobody
  <2>3. Sum(Promised', todays') = 0
    BY <2>2, SumEmpty
  <2> QED
    BY <1>2, <1>6, <1>7, <1>8, <1>10, <1>11, <2>1, <2>3 DEF CapHolds
<1> QED
  BY <1>12, <1>13, BudgetAssumption

-----------------------------------------------------------------------------
(* Budget: the invariant is inductive.                                     *)

\* The empty ledger satisfies it.
LEMMA LedgerInitially == Init => LedgerInv
<1> SUFFICES ASSUME Init PROVE LedgerInv
  OBVIOUS
<1>1. /\ TypeOK /\ LiveRunsHold
      /\ SubscriptionChargesNobody /\ IdleHoldsNothing /\ SupervisedIsYoung
  BY BudgetAssumption
     DEF Init, TypeOK, Phases, LiveRunsHold, SubscriptionChargesNobody, IdleHoldsNothing,
         SupervisedIsYoung
<1>2. Sum(bill, todays) = 0 /\ Sum(Promised, todays) = 0 /\ Sum(Promise, open) = 0
  BY SumEmpty DEF Init
<1> QED
  BY <1>1, <1>2, BudgetAssumption DEF Init, LedgerInv, ChargedOnce, CapHolds

\* A settlement by whatever method keeps the ledger's half of the invariant.
LEMMA SettlementKeepsLedger ==
    ASSUME LedgerInv, NEW S \in SUBSET open, NEW cost \in [Runs -> Nat],
           Transact(S, cost, {})
    PROVE  /\ accrued' \in Nat /\ rolled' \in BOOLEAN
           /\ open' \in SUBSET Runs /\ todays' \in SUBSET Runs
           /\ actual' \in [Runs -> Nat] /\ age' \in [Runs -> Nat] /\ bill' \in [Runs -> Nat]
           /\ ChargedOnce' /\ CapHolds' /\ SubscriptionChargesNobody'
           /\ open' = open \ S /\ todays' \subseteq todays \cup S
           /\ \A r \in Runs \ S : age'[r] = age[r]
<1>1. /\ accrued' \in Nat /\ rolled' \in BOOLEAN
      /\ open' \in SUBSET Runs /\ todays' \in SUBSET Runs
      /\ actual' \in [Runs -> Nat] /\ age' \in [Runs -> Nat] /\ bill' \in [Runs -> Nat]
      /\ ChargedOnce' /\ SubscriptionChargesNobody'
  BY TransactStep DEF LedgerInv
<1>2. CapHolds'
  BY SettlementKeepsCap DEF LedgerInv
<1>3. /\ open' = open \ S /\ todays' \subseteq todays \cup S
      /\ \A r \in Runs \ S : age'[r] = age[r]
  BY DEF Transact, RolledTodays
<1> QED
  BY <1>1, <1>2, <1>3

\* Every step keeps it.
LEMMA LedgerInvKept == LedgerInv /\ [Next]_vars => LedgerInv'
<1> SUFFICES ASSUME LedgerInv, [Next]_vars PROVE LedgerInv'
  OBVIOUS
<1> USE DEF LedgerInv
<1>types. /\ phase \in [Runs -> Phases] /\ spent \in [Runs -> 0 .. MaxSpend]
          /\ open \in SUBSET Runs /\ todays \in SUBSET Runs
          /\ age \in [Runs -> Nat] /\ actual \in [Runs -> Nat] /\ bill \in [Runs -> Nat]
          /\ Held \in [Runs -> Nat]
  BY SummandTypes DEF TypeOK
<1>bounds. /\ MaxSpend \in Nat /\ TTL \in Nat /\ PerRun \in Nat
           /\ RunLimit \in Nat
  BY BudgetAssumption
<1>young. /\ Expired \in SUBSET open
          /\ RunLimit <= TTL => \A r \in Expired : phase[r] # "running"
  BY <1>types, <1>bounds DEF Expired, SupervisedIsYoung
<1>1. ASSUME NEW r \in Runs, NEW observed \in Observed, Start(r, observed)
      PROVE  LedgerInv'
  <2>1. /\ Transact(Expired, Held, {r}) /\ Reserve(r, observed)
        /\ Expired \in SUBSET open /\ observed \in Nat
        /\ r \notin open \cup todays /\ {r} \cap todays = {} /\ {r} \cap Expired = {}
        /\ phase' = [phase EXCEPT ![r] = "running"] /\ spent' = spent
    BY <1>1, <1>young, BudgetAssumption DEF Start, Reserve, IdleHoldsNothing
  <2>2. /\ accrued' \in Nat /\ rolled' \in BOOLEAN
        /\ open' \in SUBSET Runs /\ todays' \in SUBSET Runs
        /\ actual' \in [Runs -> Nat] /\ age' \in [Runs -> Nat] /\ bill' \in [Runs -> Nat]
        /\ ChargedOnce' /\ SubscriptionChargesNobody'
    BY <1>types, <2>1, TransactStep
  <2>3. CapHolds'
    BY <2>1, ReserveKeepsCap
  <2>4. /\ open' = (open \ Expired) \cup {r} /\ todays' \subseteq todays \cup Expired
        /\ age'[r] = 0 /\ \A q \in open \ Expired : q # r => age'[q] = age[q]
    BY <1>types, <2>1 DEF Transact, RolledTodays
  <2>5. TypeOK'
    BY <1>types, <2>1, <2>2 DEF TypeOK, Phases
  <2>6. LiveRunsHold' /\ IdleHoldsNothing' /\ SupervisedIsYoung'
    BY <1>types, <1>bounds, <1>young, <2>1, <2>4
       DEF LiveRunsHold, IdleHoldsNothing, SupervisedIsYoung
  <2> QED
    BY <2>2, <2>3, <2>5, <2>6
<1>2. ASSUME NEW r \in Runs, Meter(r)
      PROVE  LedgerInv'
  <2>1. PICK cost \in Costs(r) : spent' = [spent EXCEPT ![r] = cost] /\ Report(r, cost)
    BY <1>2 DEF Meter
  <2>2. cost \in 0 .. MaxSpend
    BY <1>types, <1>bounds DEF Costs
  <2>3. TypeOK'
    BY <1>2, <1>types, <2>1, <2>2 DEF TypeOK, Meter, Report
  <2>4. CapHolds' /\ ChargedOnce' /\ SubscriptionChargesNobody'
    BY <2>1 DEF Report, CapHolds, ChargedOnce, SubscriptionChargesNobody, Promised,
         Promise
  <2>5. LiveRunsHold' /\ IdleHoldsNothing' /\ SupervisedIsYoung'
    BY <1>2, <2>1 DEF Meter, Report, LiveRunsHold, IdleHoldsNothing, SupervisedIsYoung
  <2> QED
    BY <2>3, <2>4, <2>5
<1>3. ASSUME NEW r \in Runs, Finish(r)
      PROVE  LedgerInv'
  <2>1. PICK cost \in Costs(r) : spent' = [spent EXCEPT ![r] = cost] /\ Settle(r, cost)
    BY <1>3 DEF Finish
  <2> DEFINE S == open \cap {r}
             costs == [x \in Runs |-> cost]
  <2>2. cost \in 0 .. MaxSpend
    BY <1>types, <1>bounds DEF Costs
  <2>3. /\ S \in SUBSET open /\ costs \in [Runs -> Nat] /\ Transact(S, costs, {})
        /\ phase' = [phase EXCEPT ![r] = IF r \in open THEN "done" ELSE "cut"]
        /\ phase[r] \in {"running", "killed"}
    BY <1>3, <1>types, <2>1, <2>2 DEF Settle, Finish
  <2> HIDE DEF S, costs
  <2>4. /\ accrued' \in Nat /\ rolled' \in BOOLEAN
        /\ open' \in SUBSET Runs /\ todays' \in SUBSET Runs
        /\ actual' \in [Runs -> Nat] /\ age' \in [Runs -> Nat] /\ bill' \in [Runs -> Nat]
        /\ ChargedOnce' /\ CapHolds' /\ SubscriptionChargesNobody'
        /\ open' = open \ S /\ todays' \subseteq todays \cup S
        /\ \A q \in Runs \ S : age'[q] = age[q]
    BY <2>3, SettlementKeepsLedger
  <2>5. TypeOK'
    BY <1>types, <2>1, <2>2, <2>3, <2>4 DEF TypeOK, Phases
  <2>6. LiveRunsHold' /\ IdleHoldsNothing' /\ SupervisedIsYoung'
    BY <1>types, <2>3, <2>4 DEF S, LiveRunsHold, IdleHoldsNothing, SupervisedIsYoung
  <2> QED
    BY <2>4, <2>5, <2>6
<1>4. ASSUME NEW r \in Runs, Cancel(r)
      PROVE  LedgerInv'
  <2>1. /\ phase[r] = "running" /\ phase' = [phase EXCEPT ![r] = "killed"]
        /\ spent' = spent /\ SettleRun(r)
    BY <1>4 DEF Cancel
  <2>2. CASE r \in open
    <3>1. {r} \in SUBSET open /\ Transact({r}, Held, {})
      BY <2>1, <2>2 DEF SettleRun
    <3>2. /\ accrued' \in Nat /\ rolled' \in BOOLEAN
          /\ open' \in SUBSET Runs /\ todays' \in SUBSET Runs
          /\ actual' \in [Runs -> Nat] /\ age' \in [Runs -> Nat] /\ bill' \in [Runs -> Nat]
          /\ ChargedOnce' /\ CapHolds' /\ SubscriptionChargesNobody'
          /\ open' = open \ {r} /\ todays' \subseteq todays \cup {r}
          /\ \A q \in Runs \ {r} : age'[q] = age[q]
      BY <1>types, <3>1, SettlementKeepsLedger
    <3>3. TypeOK'
      BY <1>types, <2>1, <3>2 DEF TypeOK, Phases
    <3>4. LiveRunsHold' /\ IdleHoldsNothing' /\ SupervisedIsYoung'
      BY <1>types, <2>1, <3>2 DEF LiveRunsHold, IdleHoldsNothing, SupervisedIsYoung
    <3> QED
      BY <3>2, <3>3, <3>4
  <2>3. CASE r \notin open
    <3>1. /\ accrued' = accrued /\ rolled' = rolled /\ open' = open /\ actual' = actual
          /\ age' = age /\ bill' = bill /\ todays' = todays
      BY <2>1, <2>3 DEF SettleRun, ledgerVars
    <3>2. TypeOK'
      BY <1>types, <2>1, <3>1 DEF TypeOK, Phases
    <3>3. CapHolds' /\ ChargedOnce' /\ SubscriptionChargesNobody'
      BY <3>1 DEF CapHolds, ChargedOnce, SubscriptionChargesNobody, Promised, Promise
    <3>4. LiveRunsHold' /\ IdleHoldsNothing' /\ SupervisedIsYoung'
      BY <1>types, <2>1, <3>1 DEF LiveRunsHold, IdleHoldsNothing, SupervisedIsYoung
    <3> QED
      BY <3>2, <3>3, <3>4
  <2> QED
    BY <2>2, <2>3
<1>5. ASSUME NEW r \in Runs, Reap(r)
      PROVE  LedgerInv'
  <2>1. /\ {r} \in SUBSET open /\ Transact({r}, Held, {})
        /\ phase[r] = "dead" /\ phase' = phase /\ spent' = spent
    BY <1>5 DEF Reap, SettleRun
  <2>2. /\ accrued' \in Nat /\ rolled' \in BOOLEAN
        /\ open' \in SUBSET Runs /\ todays' \in SUBSET Runs
        /\ actual' \in [Runs -> Nat] /\ age' \in [Runs -> Nat] /\ bill' \in [Runs -> Nat]
        /\ ChargedOnce' /\ CapHolds' /\ SubscriptionChargesNobody'
        /\ open' = open \ {r} /\ todays' \subseteq todays \cup {r}
        /\ \A q \in Runs \ {r} : age'[q] = age[q]
    BY <1>types, <2>1, SettlementKeepsLedger
  <2>3. TypeOK'
    BY <1>types, <2>1, <2>2 DEF TypeOK
  <2>4. LiveRunsHold' /\ IdleHoldsNothing' /\ SupervisedIsYoung'
    BY <2>1, <2>2 DEF LiveRunsHold, IdleHoldsNothing, SupervisedIsYoung
  <2> QED
    BY <2>2, <2>3, <2>4
<1>6. ASSUME NEW r \in Runs, Recycle(r)
      PROVE  LedgerInv'
  <2>1. /\ r \notin open \cup todays /\ phase' = [phase EXCEPT ![r] = "idle"]
        /\ spent' = [spent EXCEPT ![r] = 0] /\ bill' = [bill EXCEPT ![r] = 0]
        /\ accrued' = accrued /\ rolled' = rolled /\ open' = open
        /\ actual' = actual /\ age' = age /\ todays' = todays
    BY <1>6 DEF Recycle
  <2>2. TypeOK'
    BY <1>types, <1>bounds, <2>1 DEF TypeOK, Phases
  <2>3. /\ \A q \in todays : bill'[q] = bill[q]
        /\ \A q \in todays : Promised'[q] = Promised[q]
    BY <1>types, <2>1 DEF Promised
  <2>4. /\ Sum(bill', todays') = Sum(bill, todays)
        /\ Sum(Promised', todays') = Sum(Promised, todays)
    BY <2>1, <2>3, SumSame
  <2>5. Sum(Promise', open') = Sum(Promise, open)
    BY <2>1 DEF Promise
  <2>6. CapHolds' /\ ChargedOnce' /\ SubscriptionChargesNobody'
    BY <2>1, <2>4, <2>5 DEF CapHolds, ChargedOnce, SubscriptionChargesNobody
  <2>7. LiveRunsHold' /\ IdleHoldsNothing' /\ SupervisedIsYoung'
    BY <1>types, <2>1 DEF LiveRunsHold, IdleHoldsNothing, SupervisedIsYoung
  <2> QED
    BY <2>2, <2>6, <2>7
<1>7. ASSUME NEW S \in SUBSET Runs, Crash(S)
      PROVE  LedgerInv'
  <2>1. /\ phase' = [r \in Runs |-> IF r \in S THEN "dead" ELSE phase[r]]
        /\ accrued' = accrued /\ rolled' = rolled /\ open' = open /\ actual' = actual
        /\ age' = age /\ bill' = bill /\ todays' = todays /\ spent' = spent
    BY <1>7 DEF Crash
  <2>2. TypeOK'
    BY <1>types, <2>1 DEF TypeOK, Phases
  <2>3. CapHolds' /\ ChargedOnce' /\ SubscriptionChargesNobody'
    BY <2>1 DEF CapHolds, ChargedOnce, SubscriptionChargesNobody, Promised, Promise
  <2>4. LiveRunsHold' /\ IdleHoldsNothing' /\ SupervisedIsYoung'
    BY <1>types, <2>1 DEF LiveRunsHold, IdleHoldsNothing, SupervisedIsYoung
  <2> QED
    BY <2>2, <2>3, <2>4
<1>8. CASE ExpireStale
  <2>1. /\ Expired \in SUBSET open /\ Transact(Expired, Held, {})
        /\ phase' = phase /\ spent' = spent
    BY <1>8, <1>young DEF ExpireStale
  <2>2. /\ accrued' \in Nat /\ rolled' \in BOOLEAN
        /\ open' \in SUBSET Runs /\ todays' \in SUBSET Runs
        /\ actual' \in [Runs -> Nat] /\ age' \in [Runs -> Nat] /\ bill' \in [Runs -> Nat]
        /\ ChargedOnce' /\ CapHolds' /\ SubscriptionChargesNobody'
        /\ open' = open \ Expired /\ todays' \subseteq todays \cup Expired
        /\ \A q \in Runs \ Expired : age'[q] = age[q]
    BY <1>types, <2>1, SettlementKeepsLedger
  <2>3. TypeOK'
    BY <1>types, <2>1, <2>2 DEF TypeOK
  <2>4. LiveRunsHold' /\ IdleHoldsNothing' /\ SupervisedIsYoung'
    BY <1>young, <1>types, <2>1, <2>2 DEF LiveRunsHold, IdleHoldsNothing, SupervisedIsYoung
  <2> QED
    BY <2>2, <2>3, <2>4
<1>9. CASE Tick
  <2>1. /\ \A r \in open : phase[r] = "running" => age[r] < RunLimit
        /\ age' = [r \in Runs |-> IF r \in open /\ age[r] <= TTL THEN age[r] + 1 ELSE age[r]]
        /\ accrued' = accrued /\ rolled' = rolled /\ open' = open /\ actual' = actual
        /\ phase' = phase /\ bill' = bill /\ todays' = todays /\ spent' = spent
    BY <1>9 DEF Tick
  <2>2. TypeOK'
    BY <1>types, <2>1 DEF TypeOK
  <2>3. CapHolds' /\ ChargedOnce' /\ SubscriptionChargesNobody'
    BY <2>1 DEF CapHolds, ChargedOnce, SubscriptionChargesNobody, Promised, Promise
  <2>4. LiveRunsHold' /\ IdleHoldsNothing'
    BY <2>1 DEF LiveRunsHold, IdleHoldsNothing
  <2>5. SupervisedIsYoung'
    BY <1>types, <1>bounds, <2>1 DEF SupervisedIsYoung
  <2> QED
    BY <2>2, <2>3, <2>4, <2>5
<1>10. CASE NewDay
  <2>1. /\ rolled' = FALSE
        /\ accrued' = accrued /\ age' = age /\ open' = open /\ actual' = actual
        /\ phase' = phase /\ bill' = bill /\ todays' = todays /\ spent' = spent
    BY <1>10 DEF NewDay
  <2>2. TypeOK'
    BY <1>types, <2>1 DEF TypeOK
  <2>3. CapHolds' /\ ChargedOnce' /\ SubscriptionChargesNobody'
    BY <2>1 DEF CapHolds, ChargedOnce, SubscriptionChargesNobody, Promised, Promise
  <2>4. LiveRunsHold' /\ IdleHoldsNothing' /\ SupervisedIsYoung'
    BY <2>1 DEF LiveRunsHold, IdleHoldsNothing, SupervisedIsYoung
  <2> QED
    BY <2>2, <2>3, <2>4
<1>11. CASE UNCHANGED vars
  BY <1>11 DEF vars, TypeOK, CapHolds, ChargedOnce, SubscriptionChargesNobody, Promised,
               Promise, LiveRunsHold, IdleHoldsNothing, SupervisedIsYoung
<1> QED
  BY <1>1, <1>2, <1>3, <1>4, <1>5, <1>6, <1>7, <1>8, <1>9, <1>10, <1>11 DEF Next

\* The ledger as a whole: in every state the invariant holds.
LEMMA LedgerInvariant == Spec => []LedgerInv
<1>1. Init => LedgerInv
  BY LedgerInitially
<1>2. LedgerInv /\ [Next]_vars => LedgerInv'
  BY LedgerInvKept
<1> QED
  BY <1>1, <1>2, PTL DEF Spec

-----------------------------------------------------------------------------
(* Budget: bills.                                                          *)

\* What the ledger last heard of a run is what its process last knew; a run in
\* the ledger runs or has lost its process; a run that may start spent nothing.
\* (A run that outlived its reservation is no longer in the ledger.)
SpendReported ==
    /\ \A r \in open : phase[r] \in {"running", "dead"} /\ actual[r] = spent[r]
    /\ \A r \in Runs : phase[r] = "idle" => spent[r] = 0

BillInv == BilledForSpend /\ SpendReported

LEMMA BillsHold == Init => BillInv
  BY DEF Init, BillInv, BilledForSpend, SpendReported

\* Charging held() bills a run for the larger of its promise and its spend.
LEMMA HeldIsBilled ==
    ASSUME LedgerInv, BillInv, NEW S \in SUBSET open, NEW New \in SUBSET Runs,
           Transact(S, Held, New)
    PROVE  /\ \A r \in S : Mode = "api" => bill'[r] = Max2(PerRun, spent[r])
           /\ \A r \in Runs \ S : bill'[r] = bill[r]
           /\ \A r \in Runs \ (S \cup New) : actual'[r] = actual[r]
           /\ \A r \in New : actual'[r] = 0
  BY DEF LedgerInv, TypeOK, BillInv, SpendReported, Transact, Held

\* A run whose bill, spend and phase a step leaves alone is as billed as before.
LEMMA StaysBilled ==
    ASSUME NEW r, Billed(r),
           bill'[r] = bill[r], spent'[r] = spent[r], phase'[r] = phase[r]
    PROVE  Billed(r)'
  BY DEF Billed

\* A bill of the larger of promise and spend is right for any run its own
\* process did not settle.
LEMMA WorstIsBilled ==
    ASSUME NEW r \in Runs, spent'[r] \in Nat,
           bill'[r] = Max2(PerRun, spent'[r]), phase'[r] # "done"
    PROVE  Billed(r)'
<1>1. PerRun \in Nat
  BY BudgetAssumption
<1> QED
  BY <1>1 DEF Billed, Max2

\* A bill within its bounds stays within them when the run's process learns of
\* more spend, or ends, provided reservations may expire under live runs or the
\* run is not one its process has left.
LEMMA RangeIsBilled ==
    ASSUME NEW r \in Runs, spent[r] \in Nat, spent'[r] \in Nat, spent[r] <= spent'[r],
           bill[r] \in PerRun .. Max2(PerRun, spent[r]), bill'[r] = bill[r],
           phase'[r] # "done", RunLimit > TTL \/ phase'[r] \notin {"killed", "dead"}
    PROVE  Billed(r)'
<1>1. PerRun \in Nat /\ RunLimit \in Nat /\ TTL \in Nat
  BY BudgetAssumption
<1>2. bill'[r] \in PerRun .. Max2(PerRun, spent'[r])
  BY <1>1 DEF Max2
<1> QED
  BY <1>1, <1>2 DEF Billed

LEMMA BillsKept == LedgerInv /\ BillInv /\ [Next]_vars => BillInv'
<1> SUFFICES ASSUME LedgerInv, BillInv, [Next]_vars PROVE BillInv'
  OBVIOUS
<1> USE DEF BillInv
<1>types. /\ phase \in [Runs -> Phases] /\ spent \in [Runs -> 0 .. MaxSpend]
          /\ open \in SUBSET Runs /\ todays \in SUBSET Runs
          /\ age \in [Runs -> Nat] /\ actual \in [Runs -> Nat] /\ bill \in [Runs -> Nat]
          /\ \A r \in Runs : spent[r] \in Nat
          /\ TypeOK
  BY BudgetAssumption DEF LedgerInv, TypeOK
<1>bounds. /\ MaxSpend \in Nat /\ TTL \in Nat /\ PerRun \in Nat
           /\ RunLimit \in Nat
  BY BudgetAssumption
<1>gone. /\ Expired \in SUBSET open
         /\ \A r \in Expired : phase[r] \in {"running", "dead"}
  BY DEF Expired, SpendReported
<1>live. RunLimit > TTL \/ \A r \in Runs : phase[r] = "running" => r \in open
  BY <1>bounds DEF LedgerInv, LiveRunsHold
<1>1. ASSUME NEW r \in Runs, NEW observed \in Observed, Start(r, observed)
      PROVE  BillInv'
  <2>1. /\ Transact(Expired, Held, {r}) /\ Expired \in SUBSET open
        /\ phase[r] = "idle" /\ phase' = [phase EXCEPT ![r] = "running"] /\ spent' = spent
        /\ open' = (open \ Expired) \cup {r} /\ r \notin Expired
    BY <1>1, <1>gone DEF Start, Reserve, Transact
  <2>2. /\ \A q \in Expired : Mode = "api" => bill'[q] = Max2(PerRun, spent[q])
        /\ \A q \in Runs \ Expired : bill'[q] = bill[q]
        /\ \A q \in Runs \ (Expired \cup {r}) : actual'[q] = actual[q]
        /\ actual'[r] = 0
    BY <2>1, HeldIsBilled
  <2>3. SpendReported'
    BY <1>types, <2>1, <2>2 DEF SpendReported
  <2>4. ASSUME NEW q \in Runs, Mode = "api", phase'[q] # "idle", q \notin open'
        PROVE  Billed(q)'
    <3>1. q # r /\ phase'[q] = phase[q] /\ spent'[q] = spent[q]
      BY <1>types, <2>1, <2>4
    <3>2. CASE q \in Expired
      BY <1>types, <1>gone, <2>2, <2>4, <3>1, <3>2, WorstIsBilled
    <3>3. CASE q \notin Expired
      BY <2>1, <2>2, <2>4, <3>1, <3>3, StaysBilled DEF BilledForSpend
    <3> QED
      BY <3>2, <3>3
  <2> QED
    BY <2>3, <2>4 DEF BilledForSpend
<1>2. ASSUME NEW r \in Runs, Meter(r)
      PROVE  BillInv'
  <2>1. PICK cost \in Costs(r) : spent' = [spent EXCEPT ![r] = cost] /\ Report(r, cost)
    BY <1>2 DEF Meter
  <2>2. /\ phase[r] = "running" /\ phase' = phase /\ open' = open /\ bill' = bill
        /\ actual' = IF r \in open THEN [actual EXCEPT ![r] = cost] ELSE actual
    BY <1>2, <2>1 DEF Meter, Report
  <2>3. cost \in Nat /\ spent[r] <= cost
    BY <1>types, <1>bounds DEF Costs
  <2>4. SpendReported'
    BY <1>types, <2>1, <2>2 DEF SpendReported
  <2>5. ASSUME NEW q \in Runs, Mode = "api", phase'[q] # "idle", q \notin open'
        PROVE  Billed(q)'
    <3>1. Billed(q)
      BY <2>2, <2>5 DEF BilledForSpend
    <3>2. CASE q = r
      <4>1. bill[q] \in PerRun .. Max2(PerRun, spent[q])
        BY <2>2, <3>1, <3>2 DEF Billed
      <4>2. spent'[q] = cost /\ phase'[q] = "running" /\ bill'[q] = bill[q]
        BY <1>types, <2>1, <2>2, <3>2
      <4> QED
        BY <1>types, <2>3, <3>2, <4>1, <4>2, RangeIsBilled
    <3>3. CASE q # r
      BY <1>types, <2>1, <2>2, <3>1, <3>3, StaysBilled
    <3> QED
      BY <3>2, <3>3
  <2> QED
    BY <2>4, <2>5 DEF BilledForSpend
<1>3. ASSUME NEW r \in Runs, Finish(r)
      PROVE  BillInv'
  <2>1. PICK cost \in Costs(r) : spent' = [spent EXCEPT ![r] = cost] /\ Settle(r, cost)
    BY <1>3 DEF Finish
  <2>2. cost \in Nat /\ spent[r] <= cost
    BY <1>types, <1>bounds DEF Costs
  <2>3. /\ open' = open \ {r} /\ phase[r] \in {"running", "killed"}
        /\ phase' = [phase EXCEPT ![r] = IF r \in open THEN "done" ELSE "cut"]
        /\ \A q \in Runs \ {r} : /\ bill'[q] = bill[q] /\ actual'[q] = actual[q]
                                 /\ phase'[q] = phase[q] /\ spent'[q] = spent[q]
        /\ spent'[r] = cost
        /\ r \in open /\ Mode = "api" => bill'[r] = cost
        /\ r \notin open => bill'[r] = bill[r]
    BY <1>3, <1>types, <2>1 DEF Finish, Settle, Transact
  <2>4. SpendReported'
    BY <1>types, <2>3 DEF SpendReported
  <2>5. ASSUME NEW q \in Runs, Mode = "api", phase'[q] # "idle", q \notin open'
        PROVE  Billed(q)'
    <3>1. CASE q # r
      BY <2>3, <2>5, <3>1, StaysBilled DEF BilledForSpend
    <3>2. CASE q = r /\ r \in open
      <4>1. phase'[q] = "done" /\ bill'[q] = spent'[q]
        BY <1>types, <2>3, <2>5, <3>2
      <4> QED
        BY <4>1 DEF Billed
    <3>3. CASE q = r /\ r \notin open
      <4>1. bill[q] \in PerRun .. Max2(PerRun, spent[q])
        BY <2>3, <2>5, <3>3 DEF BilledForSpend, Billed
      <4>2. phase'[q] = "cut" /\ bill'[q] = bill[q] /\ spent'[q] = cost
        BY <1>types, <2>3, <3>3
      <4> QED
        BY <1>types, <2>2, <3>3, <4>1, <4>2, RangeIsBilled
    <3> QED
      BY <3>1, <3>2, <3>3
  <2> QED
    BY <2>4, <2>5 DEF BilledForSpend
<1>4. ASSUME NEW r \in Runs, r \in open, SettleRun(r), spent' = spent,
             phase'[r] \in {"killed", "dead"},
             \A q \in Runs \ {r} : phase'[q] = phase[q]
      PROVE  BillInv'
  <2>1. {r} \in SUBSET open /\ {} \in SUBSET Runs /\ Transact({r}, Held, {})
    BY <1>4 DEF SettleRun
  <2>2. open' = open \ {r}
    BY <2>1 DEF Transact
  <2>3. /\ Mode = "api" => bill'[r] = Max2(PerRun, spent[r])
        /\ \A q \in Runs \ {r} : bill'[q] = bill[q] /\ actual'[q] = actual[q]
    BY <2>1, HeldIsBilled
  <2>4. SpendReported'
    BY <1>4, <1>types, <2>2, <2>3 DEF SpendReported
  <2>5. ASSUME NEW q \in Runs, Mode = "api", phase'[q] # "idle", q \notin open'
        PROVE  Billed(q)'
    <3>1. CASE q = r
      BY <1>4, <1>types, <2>3, <2>5, <3>1, WorstIsBilled
    <3>2. CASE q # r
      BY <1>4, <2>2, <2>3, <2>5, <3>2, StaysBilled DEF BilledForSpend
    <3> QED
      BY <3>1, <3>2
  <2> QED
    BY <2>4, <2>5 DEF BilledForSpend
<1>5. ASSUME NEW r \in Runs, Reap(r)
      PROVE  BillInv'
  BY <1>4, <1>5 DEF Reap
<1>6. ASSUME NEW r \in Runs, Cancel(r)
      PROVE  BillInv'
  <2>1. /\ phase[r] = "running" /\ phase'[r] = "killed" /\ spent' = spent
        /\ \A q \in Runs \ {r} : phase'[q] = phase[q]
        /\ SettleRun(r)
    BY <1>6, <1>types DEF Cancel
  <2>2. CASE r \in open
    BY <1>4, <2>1, <2>2
  <2>3. CASE r \notin open
    <3>1. open' = open /\ actual' = actual /\ bill' = bill
      BY <2>1, <2>3 DEF SettleRun, ledgerVars
    <3>2. SpendReported'
      BY <1>types, <2>1, <2>3, <3>1 DEF SpendReported
    <3>3. ASSUME NEW q \in Runs, Mode = "api", phase'[q] # "idle", q \notin open'
          PROVE  Billed(q)'
      <4>1. CASE q = r
        <5>1. bill[q] \in PerRun .. Max2(PerRun, spent[q])
          BY <2>1, <2>3, <3>3, <4>1 DEF BilledForSpend, Billed
        <5>2. RunLimit > TTL
          BY <1>live, <2>1, <2>3
        <5> QED
          BY <1>types, <2>1, <3>1, <4>1, <5>1, <5>2, RangeIsBilled
      <4>2. CASE q # r
        BY <2>1, <3>1, <3>3, <4>2, StaysBilled DEF BilledForSpend
      <4> QED
        BY <4>1, <4>2
    <3> QED
      BY <3>2, <3>3 DEF BilledForSpend
  <2> QED
    BY <2>2, <2>3
<1>7. ASSUME NEW r \in Runs, Recycle(r)
      PROVE  BillInv'
  <2>1. /\ phase'[r] = "idle" /\ spent'[r] = 0 /\ r \notin open
        /\ open' = open /\ actual' = actual
        /\ \A q \in Runs \ {r} : /\ bill'[q] = bill[q] /\ spent'[q] = spent[q]
                                 /\ phase'[q] = phase[q]
    BY <1>7, <1>types DEF Recycle
  <2>2. SpendReported'
    BY <1>types, <2>1 DEF SpendReported
  <2>3. ASSUME NEW q \in Runs, Mode = "api", phase'[q] # "idle", q \notin open'
        PROVE  Billed(q)'
    BY <2>1, <2>3, StaysBilled DEF BilledForSpend
  <2> QED
    BY <2>2, <2>3 DEF BilledForSpend
<1>8. ASSUME NEW S \in SUBSET Runs, Crash(S)
      PROVE  BillInv'
  <2>1. /\ phase' = [r \in Runs |-> IF r \in S THEN "dead" ELSE phase[r]]
        /\ \A r \in S : phase[r] \in {"running", "killed"}
        /\ open' = open /\ actual' = actual /\ bill' = bill /\ spent' = spent
    BY <1>8 DEF Crash
  <2>2. SpendReported'
    BY <1>types, <2>1 DEF SpendReported
  <2>3. ASSUME NEW q \in Runs, Mode = "api", phase'[q] # "idle", q \notin open'
        PROVE  Billed(q)'
    <3>1. Billed(q) \/ phase[q] = "idle"
      BY <2>1, <2>3 DEF BilledForSpend
    <3>2. CASE q \notin S
      BY <2>1, <2>3, <3>1, <3>2, StaysBilled
    <3>3. CASE q \in S
      <4>1. bill[q] \in PerRun .. Max2(PerRun, spent[q])
        BY <2>1, <3>1, <3>3 DEF Billed
      <4>2. CASE RunLimit > TTL
        BY <1>types, <2>1, <3>3, <4>1, <4>2, RangeIsBilled
      <4>3. CASE ~(RunLimit > TTL)
        <5>1. phase[q] = "killed"
          BY <1>live, <2>1, <2>3, <3>3, <4>3
        <5>2. bill[q] = Max2(PerRun, spent[q])
          BY <1>bounds, <3>1, <4>3, <5>1 DEF Billed
        <5> QED
          BY <1>types, <2>1, <3>3, <5>2, WorstIsBilled
      <4> QED
        BY <4>2, <4>3
    <3> QED
      BY <3>2, <3>3
  <2> QED
    BY <2>2, <2>3 DEF BilledForSpend
<1>9. CASE ExpireStale
  <2>1. /\ Expired \in SUBSET open /\ Transact(Expired, Held, {})
        /\ phase' = phase /\ spent' = spent /\ open' = open \ Expired
    BY <1>9, <1>gone DEF ExpireStale, Transact
  <2>2. /\ \A q \in Expired : Mode = "api" => bill'[q] = Max2(PerRun, spent[q])
        /\ \A q \in Runs \ Expired : bill'[q] = bill[q] /\ actual'[q] = actual[q]
    BY <2>1, HeldIsBilled
  <2>3. SpendReported'
    BY <1>types, <2>1, <2>2 DEF SpendReported
  <2>4. ASSUME NEW q \in Runs, Mode = "api", phase'[q] # "idle", q \notin open'
        PROVE  Billed(q)'
    <3>1. CASE q \in Expired
      BY <1>types, <1>gone, <2>1, <2>2, <2>4, <3>1, WorstIsBilled
    <3>2. CASE q \notin Expired
      BY <2>1, <2>2, <2>4, <3>2, StaysBilled DEF BilledForSpend
    <3> QED
      BY <3>1, <3>2
  <2> QED
    BY <2>3, <2>4 DEF BilledForSpend
<1>10. CASE Tick \/ NewDay \/ UNCHANGED vars
  BY <1>10 DEF Tick, NewDay, vars, SpendReported, BilledForSpend, Billed
<1> QED
  BY <1>1, <1>2, <1>3, <1>5, <1>6, <1>7, <1>8, <1>9, <1>10 DEF Next

-----------------------------------------------------------------------------
(* Budget: the theorems.                                                   *)

\* The file and the processes keep to their values: no total, reservation or
\* bill is ever negative.
THEOREM TypeCorrect == Spec => []TypeOK
  BY LedgerInvariant, PTL DEF LedgerInv

\* The cap, for every number of runs that race for it, with expiry, crashes,
\* cancellation and midnight in between (budget.py, reserve).
THEOREM CapIsKept == Spec => []CapHolds
  BY LedgerInvariant, PTL DEF LedgerInv

\* The day's total is the sum of the bills of the runs charged today, and none
\* of them is charged while it still holds a reservation.
THEOREM EveryChargeCountsOnce == Spec => []ChargedOnce
  BY LedgerInvariant, PTL DEF LedgerInv

\* Where runs are shorter than the TTL, as Config.validate_hold has them when a
\* question hold is configured, expiry takes nothing from a supervised run.
THEOREM LiveRunsKeepTheirBudget == Spec => []LiveRunsHold
  BY LedgerInvariant, PTL DEF LedgerInv

\* Whichever way a run leaves the ledger, it is billed for its spend, or between
\* its promise and its spend where its own process did not settle it.
THEOREM BillsMatchSpend == Spec => []BilledForSpend
<1>1. Init => BillInv
  BY BillsHold
<1>2. LedgerInv /\ BillInv /\ [Next]_vars => BillInv'
  BY BillsKept
<1>3. BillInv => BilledForSpend
  BY DEF BillInv
<1> QED
  BY <1>1, <1>2, <1>3, LedgerInvariant, PTL DEF Spec

\* The total shown for a day never falls within the day.
THEOREM TotalFallsAtMidnightOnly == Spec => AccruedFallsAtMidnightOnly
<1>1. ASSUME LedgerInv, NEW S \in SUBSET open, NEW cost \in [Runs -> Nat],
             NEW New, Transact(S, cost, New), rolled
      PROVE  accrued' >= accrued
  <2>1. Sum(cost, S) \in Nat /\ accrued \in Nat
    BY <1>1, SumType DEF LedgerInv, TypeOK
  <2> QED
    BY <1>1, <2>1 DEF Transact, RollDay, Accrues
<1>2. LedgerInv /\ [Next]_vars => [accrued' < accrued => ~rolled]_vars
  <2> SUFFICES ASSUME LedgerInv, Next, rolled
               PROVE  accrued' >= accrued \/ accrued' = accrued
    <3>1. LedgerInv /\ [Next]_vars => accrued \in Nat /\ accrued' \in Nat
      BY LedgerInvKept DEF LedgerInv, TypeOK
    <3>2. UNCHANGED vars => accrued' = accrued
      BY DEF vars
    <3> QED
      BY <3>1, <3>2
  <2>1. /\ Held \in [Runs -> Nat] /\ open \in SUBSET Runs /\ accrued \in Nat
        /\ Expired \in SUBSET open /\ spent \in [Runs -> 0 .. MaxSpend] /\ MaxSpend \in Nat
    BY SummandTypes, BudgetAssumption DEF LedgerInv, TypeOK, Expired
  <2>2. ASSUME NEW r \in Runs, NEW observed \in Observed, Start(r, observed)
        PROVE  accrued' >= accrued
    BY <1>1, <2>1, <2>2 DEF Start, Reserve
  <2>3. ASSUME NEW r \in Runs, Finish(r)
        PROVE  accrued' >= accrued
    <3>1. PICK cost \in Costs(r) : Settle(r, cost)
      BY <2>3 DEF Finish
    <3>2. cost \in Nat /\ [x \in Runs |-> cost] \in [Runs -> Nat]
      BY <2>1 DEF Costs
    <3>3. open \cap {r} \in SUBSET open
      OBVIOUS
    <3> QED
      BY <1>1, <3>1, <3>2, <3>3 DEF Settle
  <2>4. ASSUME NEW r \in Runs, SettleRun(r)
        PROVE  accrued' >= accrued \/ accrued' = accrued
    BY <1>1, <2>1, <2>4 DEF SettleRun, ledgerVars
  <2>5. CASE ExpireStale
    BY <1>1, <2>1, <2>5 DEF ExpireStale
  <2> QED
    BY <2>2, <2>3, <2>4, <2>5
       DEF Next, Meter, Report, Cancel, Reap, Recycle, Crash, Tick, NewDay
<1> QED
  BY <1>2, LedgerInvariant, PTL DEF Spec, AccruedFallsAtMidnightOnly

-----------------------------------------------------------------------------
(* Pool: the inductive invariant.  Of the ledger it needs no more than which     *)
(* runs hold a reservation and what phase each run is in.                  *)

\* What the proof needs of the variables of Budget.
LedgerTypes == open \subseteq Runs /\ phase \in [Runs -> Phases]

\* A pool never has room for less than one run, however the recompute went.
RoomForOne == \A p \in Procs : health[p].size >= 1

IInv ==
    /\ LedgerTypes
    /\ DoorTypeOK
    /\ RoomForOne
    /\ LanesMatchLive
    /\ ReservationsHaveOwners

USE DEF Live

-----------------------------------------------------------------------------
(* Health.                                                                 *)

\* The recompute keeps the size between one and MaxWorkers.
LEMMA RecomputedSize ==
    ASSUME NEW p \in Procs, DoorTypeOK, RoomForOne
    PROVE  Recomputed(p) \in Healths /\ Recomputed(p).size >= 1
<1> DEFINE f == Failures(outcomes[p])
           n == Len(outcomes[p])
<1>1. health[p] \in Healths /\ health[p].size \in 1 .. MaxWorkers
  BY DEF DoorTypeOK, RoomForOne, Healths
<1>2. Resized(health[p], f, n) \in Healths /\ Resized(health[p], f, n).size >= 1
  <2> HIDE DEF f, n
  <2> DEFINE a == n < MinSamples
             b == 100 * f > CollapseAbove * n
             c == 100 * f > ShrinkAbove * n
             d == 100 * f < GrowBelow * n
  <2>1. Resized(health[p], f, n) =
            IF a THEN health[p]
            ELSE IF b THEN [size |-> 1, state |-> "probing"]
            ELSE IF c THEN [size |-> Max2(MinWorkers, health[p].size - 1), state |-> "degraded"]
            ELSE IF d THEN [size |-> Min2(MaxWorkers, health[p].size + 1),
                            state |-> IF Min2(MaxWorkers, health[p].size + 1) >= MaxWorkers
                                      THEN "healthy" ELSE "degraded"]
            ELSE health[p]
    BY DEF Resized
  <2> HIDE DEF a, b, c, d
  <2> QED
    BY <1>1, <2>1, PoolAssumption DEF Healths, Max2, Min2
<1> QED
  BY <1>1, <1>2 DEF Recomputed

\* The samples never outgrow their window.
LEMMA RecordBounded ==
    ASSUME NEW samples \in Seq(BOOLEAN), Len(samples) <= RecentSamples, NEW ok \in BOOLEAN
    PROVE  /\ Record(samples, ok) \in Seq(BOOLEAN)
           /\ Len(Record(samples, ok)) <= RecentSamples
<1> DEFINE all == Append(samples, ok)
<1>1. Len(samples) \in Nat
  BY LenProperties
<1>2. all \in Seq(BOOLEAN) /\ all # <<>> /\ Len(all) = Len(samples) + 1
  BY AppendProperties
<1>3. Tail(all) \in Seq(BOOLEAN) /\ Len(Tail(all)) = Len(all) - 1
  BY <1>2, HeadTailProperties
<1>4. CASE Len(all) > RecentSamples
  <2>1. Record(samples, ok) = Tail(all)
    BY <1>4 DEF Record
  <2> QED
    BY <1>1, <1>2, <1>3, <2>1
<1>5. CASE ~(Len(all) > RecentSamples)
  <2>1. Record(samples, ok) = all
    BY <1>5 DEF Record
  <2> HIDE DEF all
  <2> QED
    BY <1>1, <1>2, <1>5, <2>1, PoolAssumption
<1> QED
  BY <1>4, <1>5

\* A process with nothing in flight admits on every subject.
LEMMA IdleIsFree ==
    IInv => NeverStopsDead
<1> SUFFICES ASSUME IInv, NEW p \in Procs, Live(p) = {}, NEW s \in Subjects
             PROVE  Free(p, s, Recomputed(p))
  BY DEF NeverStopsDead
<1>1. Recomputed(p).size >= 1 /\ Recomputed(p).size \in Int
  BY RecomputedSize DEF IInv, Healths
<1>2. lanes[p][s] = NoRun
  BY PoolAssumption DEF IInv, DoorTypeOK, LanesMatchLive
<1>3. Cardinality(Live(p)) = 0
  BY FS_EmptySet
<1> QED
  BY <1>1, <1>2, <1>3 DEF Free

-----------------------------------------------------------------------------
(* The invariant is kept.                                                  *)

LEMMA InvariantHolds == PoolInit => IInv
<1> SUFFICES ASSUME PoolInit PROVE IInv
  OBVIOUS
<1> USE DEF PoolInit, FreshHealth, Init
<1>1. LedgerTypes
  BY DEF LedgerTypes, Phases
<1>2. DoorTypeOK
  <2>1. [p \in Procs |-> FALSE] \in [Procs -> BOOLEAN]
    OBVIOUS
  <2>2. FreshHealth \in Healths
    BY PoolAssumption DEF Healths
  <2>3. health \in [Procs -> Healths]
    BY <2>2
  <2>4. /\ outcomes \in [Procs -> Seq(BOOLEAN)]
        /\ \A p \in Procs : Len(outcomes[p]) <= RecentSamples
    BY PoolAssumption
  <2>5. due \in [Procs -> BOOLEAN]
    BY <2>1
  <2> QED
    BY <2>3, <2>4, <2>5 DEF DoorTypeOK
<1>3. RoomForOne
  BY PoolAssumption DEF RoomForOne
<1>4. LanesMatchLive
  BY PoolAssumption DEF LanesMatchLive
<1>5. ReservationsHaveOwners
  BY DEF ReservationsHaveOwners
<1> QED
  BY <1>1, <1>2, <1>3, <1>4, <1>5 DEF IInv

\* What a step of the ledger does to reservations and phases.
LEMMA LedgerKept ==
    ASSUME IInv, [PoolNext]_poolVars
    PROVE  LedgerTypes'
<1> USE DEF IInv, LedgerTypes, Phases, Transact
<1>1. CASE \E p \in Procs, r \in Runs, s \in Subjects : Admit(p, r, s)
  BY <1>1 DEF Admit, Start, Reserve, Expired
<1>2. CASE \E p \in Procs, s \in Subjects : Refuse(p, s) \/ AdmitFails(p, s)
  BY <1>2 DEF Refuse, AdmitFails, vars
<1>3. CASE \E p \in Procs, r \in Runs, ok \in BOOLEAN :
             Release(p, r, ok) \/ ReleaseFails(p, r, ok)
  BY <1>3 DEF Release, ReleaseFails, Leave, Crash, Finish, Settle
<1>4. CASE \E p \in Procs : Probe(p) \/ Observe(p) \/ RecomputeDue(p) \/ Forget(p)
  BY <1>4 DEF Probe, Observe, RecomputeDue, Forget, vars
<1>5. CASE \E p \in Procs : Die(p)
  BY <1>5 DEF Die, Crash
<1>6. CASE WindowMoves
  BY <1>6 DEF WindowMoves, vars
<1>7. CASE LedgerOnly
  BY <1>7 DEF LedgerOnly, Meter, Report, Cancel, Reap, SettleRun, ledgerVars,
              Recycle, ExpireStale, Expired, Tick, NewDay
<1>8. CASE UNCHANGED poolVars
  BY <1>8 DEF poolVars
<1> QED
  BY <1>1, <1>2, <1>3, <1>4, <1>5, <1>6, <1>7, <1>8 DEF PoolNext

LEMMA TypeKept ==
    ASSUME IInv, [PoolNext]_poolVars
    PROVE  DoorTypeOK' /\ RoomForOne'
<1>1. CASE \E p \in Procs, r \in Runs, s \in Subjects : Admit(p, r, s)
  <2> PICK p \in Procs, r \in Runs, s \in Subjects : Admit(p, r, s)
    BY <1>1
  <2>1. Recomputed(p) \in Healths /\ Recomputed(p).size >= 1
    BY RecomputedSize DEF IInv
  <2>2. health' \in [Procs -> Healths] /\ RoomForOne'
    BY <2>1 DEF IInv, DoorTypeOK, RoomForOne, Admit
  <2>3. due' \in [Procs -> BOOLEAN]
    BY DEF IInv, DoorTypeOK, Admit
  <2> QED
    BY <2>2, <2>3 DEF IInv, DoorTypeOK, Admit
<1>2. CASE \E p \in Procs, s \in Subjects : Refuse(p, s) \/ AdmitFails(p, s)
  <2> PICK p \in Procs, s \in Subjects : Refuse(p, s) \/ AdmitFails(p, s)
    BY <1>2
  <2>1. Recomputed(p) \in Healths /\ Recomputed(p).size >= 1
    BY RecomputedSize DEF IInv
  <2>2. health' \in [Procs -> Healths] /\ RoomForOne'
    BY <2>1 DEF IInv, DoorTypeOK, RoomForOne, Refuse, AdmitFails
  <2>3. due' \in [Procs -> BOOLEAN]
    BY DEF IInv, DoorTypeOK, Refuse, AdmitFails
  <2> QED
    BY <2>2, <2>3 DEF IInv, DoorTypeOK, Refuse, AdmitFails
<1>3. CASE \E p \in Procs, r \in Runs, ok \in BOOLEAN :
             Release(p, r, ok) \/ ReleaseFails(p, r, ok)
  <2> PICK p \in Procs, r \in Runs, ok \in BOOLEAN :
             Release(p, r, ok) \/ ReleaseFails(p, r, ok)
    BY <1>3
  <2>0. /\ Leave(p, r, ok)
        /\ UNCHANGED <<due, window, seen>>
    BY DEF Release, ReleaseFails, Leave
  <2>1. /\ Record(outcomes[p], ok) \in Seq(BOOLEAN)
        /\ Len(Record(outcomes[p], ok)) <= RecentSamples
    BY RecordBounded DEF IInv, DoorTypeOK
  <2>2. /\ outcomes' \in [Procs -> Seq(BOOLEAN)]
        /\ \A q \in Procs : Len(outcomes'[q]) <= RecentSamples
    BY <2>0, <2>1 DEF IInv, DoorTypeOK, Leave
  <2>3. health' \in [Procs -> Healths] /\ RoomForOne'
    BY <2>0 DEF IInv, DoorTypeOK, RoomForOne, Leave, Healths
  <2>4. lanes' \in [Procs -> [Subjects -> Runs \cup {NoRun}]]
    BY <2>0 DEF IInv, DoorTypeOK, Leave
  <2>5. live' \in [Procs -> [Runs -> Subjects \cup {NoSubject}]]
    BY <2>0 DEF IInv, DoorTypeOK, Leave
  <2> QED
    BY <2>0, <2>2, <2>3, <2>4, <2>5 DEF IInv, DoorTypeOK
<1>4. CASE \E p \in Procs : Probe(p) \/ Observe(p)
  BY <1>4 DEF IInv, DoorTypeOK, RoomForOne, Probe, Observe, doorVars
<1>5. CASE \E p \in Procs : RecomputeDue(p)
  <2>1. due' \in [Procs -> BOOLEAN]
    BY <1>5 DEF IInv, DoorTypeOK, RecomputeDue
  <2> QED
    BY <1>5, <2>1 DEF IInv, DoorTypeOK, RoomForOne, RecomputeDue
<1>6. CASE \E p \in Procs : Forget(p)
  <2> PICK p \in Procs : Forget(p)
    BY <1>6
  <2>1. /\ Tail(outcomes[p]) \in Seq(BOOLEAN)
        /\ Len(Tail(outcomes[p])) <= RecentSamples
    BY HeadTailProperties, LenProperties, PoolAssumption DEF IInv, DoorTypeOK, Forget
  <2> QED
    BY <2>1 DEF IInv, DoorTypeOK, RoomForOne, Forget
<1>7. CASE \E p \in Procs : Die(p)
  <2> PICK p \in Procs : Die(p)
    BY <1>7
  <2>1. FreshHealth \in Healths /\ FreshHealth.size >= 1
    BY PoolAssumption DEF FreshHealth, Healths
  <2>2. health' \in [Procs -> Healths] /\ RoomForOne'
    BY <2>1 DEF IInv, DoorTypeOK, RoomForOne, Die
  <2>3. due' \in [Procs -> BOOLEAN]
    BY DEF IInv, DoorTypeOK, Die
  <2>4. /\ outcomes' \in [Procs -> Seq(BOOLEAN)]
        /\ \A q \in Procs : Len(outcomes'[q]) <= RecentSamples
    BY PoolAssumption DEF IInv, DoorTypeOK, Die
  <2> QED
    BY <2>2, <2>3, <2>4 DEF IInv, DoorTypeOK, Die
<1>8. CASE WindowMoves \/ LedgerOnly \/ UNCHANGED poolVars
  BY <1>8 DEF IInv, DoorTypeOK, RoomForOne, WindowMoves, LedgerOnly, doorVars, poolVars
<1> QED
  BY <1>1, <1>2, <1>3, <1>4, <1>5, <1>6, <1>7, <1>8 DEF PoolNext

LEMMA LanesKept ==
    ASSUME IInv, [PoolNext]_poolVars
    PROVE  LanesMatchLive'
<1> USE DEF IInv, DoorTypeOK, LedgerTypes, LanesMatchLive, Phases
<1>1. CASE \E p \in Procs, r \in Runs, s \in Subjects : Admit(p, r, s)
  <2> PICK p \in Procs, r \in Runs, s \in Subjects : Admit(p, r, s)
    BY <1>1
  <2>1. phase[r] = "idle" /\ phase' = [phase EXCEPT ![r] = "running"]
    BY DEF Admit, Start
  <2>2. lanes[p][s] = NoRun /\ \A q \in Procs : r \notin Live(q)
    BY <2>1 DEF Admit, Free
  <2>3. lanes' = [lanes EXCEPT ![p][s] = r] /\ live' = [live EXCEPT ![p][r] = s]
    BY DEF Admit
  <2> QED
    BY <2>1, <2>2, <2>3, PoolAssumption
<1>2. CASE \E p \in Procs, r \in Runs, ok \in BOOLEAN :
             Release(p, r, ok) \/ ReleaseFails(p, r, ok)
  <2> PICK p \in Procs, r \in Runs, ok \in BOOLEAN :
             Release(p, r, ok) \/ ReleaseFails(p, r, ok)
    BY <1>2
  <2>1. \A q \in Runs \ {r} : phase'[q] = phase[q]
    BY DEF Release, ReleaseFails, Crash, Finish
  <2>2. r \in Live(p) /\ \A q \in Procs \ {p} : r \notin Live(q)
    BY DEF Release, ReleaseFails, Leave
  <2>3. /\ lanes' = [lanes EXCEPT ![p][live[p][r]] = NoRun]
        /\ live' = [live EXCEPT ![p][r] = NoSubject]
    BY DEF Release, ReleaseFails, Leave
  <2> QED
    BY <2>1, <2>2, <2>3, PoolAssumption
<1>3. CASE \E p \in Procs : Die(p)
  <2> PICK p \in Procs : Die(p)
    BY <1>3
  <2>1. \A q \in Runs \ Live(p) : phase'[q] = phase[q]
    BY DEF Die, Crash
  <2>2. /\ lanes' = [lanes EXCEPT ![p] = [s \in Subjects |-> NoRun]]
        /\ live' = [live EXCEPT ![p] = [r \in Runs |-> NoSubject]]
    BY DEF Die
  <2> QED
    BY <2>1, <2>2, PoolAssumption
<1>4. CASE \/ \E p \in Procs, s \in Subjects : Refuse(p, s) \/ AdmitFails(p, s)
           \/ \E p \in Procs : Probe(p) \/ Observe(p) \/ RecomputeDue(p) \/ Forget(p)
           \/ WindowMoves \/ UNCHANGED poolVars
  BY <1>4 DEF Refuse, AdmitFails, Probe, Observe, RecomputeDue, Forget, WindowMoves,
              vars, doorVars, poolVars
<1>5. CASE LedgerOnly
  <2>1. \A r \in Runs : phase[r] \in {"running", "killed"} => phase'[r] \in {"running", "killed"}
    BY <1>5 DEF LedgerOnly, Meter, Cancel, Reap, Recycle, ExpireStale, Tick, NewDay
  <2> QED
    BY <1>5, <2>1 DEF LedgerOnly, doorVars
<1> QED
  BY <1>1, <1>2, <1>3, <1>4, <1>5 DEF PoolNext

LEMMA OwnersKept ==
    ASSUME IInv, [PoolNext]_poolVars
    PROVE  ReservationsHaveOwners'
<1> USE DEF IInv, DoorTypeOK, LedgerTypes, LanesMatchLive, ReservationsHaveOwners, Phases
<1>1. CASE \E p \in Procs, r \in Runs, s \in Subjects : Admit(p, r, s)
  <2> PICK p \in Procs, r \in Runs, s \in Subjects : Admit(p, r, s)
    BY <1>1
  <2>1. /\ phase' = [phase EXCEPT ![r] = "running"] /\ phase[r] = "idle"
        /\ open' \subseteq open \cup {r}
    BY DEF Admit, Start, Reserve, Transact
  <2>2. live' = [live EXCEPT ![p][r] = s] /\ s # NoSubject
    BY PoolAssumption DEF Admit
  <2> QED
    BY <2>1, <2>2
<1>2. CASE \E p \in Procs, r \in Runs, ok \in BOOLEAN :
             Release(p, r, ok) \/ ReleaseFails(p, r, ok)
  <2> PICK p \in Procs, r \in Runs, ok \in BOOLEAN :
             Release(p, r, ok) \/ ReleaseFails(p, r, ok)
    BY <1>2
  <2>1. /\ \A q \in Runs \ {r} : phase'[q] = phase[q]
        /\ \/ open' = open \ {r}
           \/ open' = open /\ phase'[r] = "dead"
    <3>1. CASE Release(p, r, ok)
      <4>1. (\A q \in Runs \ {r} : phase'[q] = phase[q]) /\ open' = open \ {r}
        BY <3>1 DEF Release, Finish, Settle, Transact
      <4> QED
        BY <4>1
    <3>2. CASE ReleaseFails(p, r, ok)
      BY <3>2 DEF ReleaseFails, Crash
    <3> QED
      BY <3>1, <3>2
  <2>2. live' = [live EXCEPT ![p][r] = NoSubject]
    BY DEF Release, ReleaseFails, Leave
  <2> QED
    BY <2>1, <2>2
<1>3. CASE \E p \in Procs : Die(p)
  <2> PICK p \in Procs : Die(p)
    BY <1>3
  <2>1. /\ \A r \in Runs : phase'[r] = IF r \in Live(p) THEN "dead" ELSE phase[r]
        /\ open' = open
    BY DEF Die, Crash
  <2>2. live' = [live EXCEPT ![p] = [r \in Runs |-> NoSubject]]
    BY DEF Die
  <2> QED
    BY <2>1, <2>2
<1>4. CASE \/ \E p \in Procs, s \in Subjects : Refuse(p, s) \/ AdmitFails(p, s)
           \/ \E p \in Procs : Probe(p) \/ Observe(p) \/ RecomputeDue(p) \/ Forget(p)
           \/ WindowMoves \/ UNCHANGED poolVars
  BY <1>4 DEF Refuse, AdmitFails, Probe, Observe, RecomputeDue, Forget, WindowMoves,
              vars, doorVars, poolVars
<1>5. CASE LedgerOnly
  <2>1. open' \subseteq open
    <3>1. ASSUME NEW r \in Runs, Cancel(r) \/ Reap(r)
          PROVE  open' \subseteq open
      BY <3>1 DEF Cancel, Reap, SettleRun, Transact, ledgerVars
    <3>2. ASSUME NEW r \in Runs, Meter(r) \/ Recycle(r)
          PROVE  open' \subseteq open
      BY <3>2 DEF Meter, Report, Recycle
    <3>3. ASSUME ExpireStale \/ Tick \/ NewDay
          PROVE  open' \subseteq open
      BY <3>3 DEF ExpireStale, Transact, Tick, NewDay
    <3> QED
      BY <1>5, <3>1, <3>2, <3>3 DEF LedgerOnly
  <2>2. \A r \in open : phase[r] = "dead" => phase'[r] = "dead"
    BY <1>5 DEF LedgerOnly, Meter, Cancel, Reap, Recycle, ExpireStale, Tick, NewDay
  <2> QED
    BY <1>5, <2>1, <2>2 DEF LedgerOnly, doorVars
<1> QED
  BY <1>1, <1>2, <1>3, <1>4, <1>5 DEF PoolNext

LEMMA InvariantAlways == PoolSpec => []IInv
<1>1. IInv /\ [PoolNext]_poolVars => IInv'
  BY LedgerKept, TypeKept, LanesKept, OwnersKept DEF IInv
<1> QED
  BY <1>1, InvariantHolds, PTL DEF PoolSpec

-----------------------------------------------------------------------------
(* The theorems.                                                           *)

\* In every reachable state the lanes, the live runs and the ledger's
\* reservations tell one story, and an idle process refuses nothing but for
\* budget (pool.py, admit and release beside budget.py),
\* also when an admission or a release is cut short by a file that cannot be
\* written.
THEOREM DoorAgreesAlways == PoolSpec => []DoorAgrees
<1>1. IInv => DoorAgrees
  BY IdleIsFree DEF IInv, DoorAgrees
<1> QED
  BY <1>1, InvariantAlways, PTL

\* A run admitted while its pool probes, or by the very call that makes it
\* probe, has the pool to itself (pool.py, admit).
THEOREM ProbeRunsAlone == PoolSpec => ProbesAlone
<1> DEFINE Alone == \A p \in Procs :
               (health'[p].state = "probing" /\ Live(p)' \ Live(p) # {})
                   => Cardinality(Live(p)') = 1
<1>1. ASSUME IInv, [PoolNext]_poolVars
      PROVE  [Alone]_poolVars
  <2> SUFFICES ASSUME NEW q \in Procs, health'[q].state = "probing", Live(q)' \ Live(q) # {}
               PROVE  Cardinality(Live(q)') = 1
    BY DEF Alone
  <2> USE <1>1 DEF IInv, DoorTypeOK
  <2>1. CASE \E p \in Procs, r \in Runs, s \in Subjects : Admit(p, r, s)
    <3> PICK p \in Procs, r \in Runs, s \in Subjects : Admit(p, r, s)
      BY <2>1
    <3>1. live' = [live EXCEPT ![p][r] = s] /\ s # NoSubject
      BY PoolAssumption DEF Admit
    <3>2. q = p
      BY <3>1
    <3>3. health'[p] = Recomputed(p)
      BY DEF Admit
    <3>4. Live(p) = {}
      BY <3>2, <3>3 DEF Admit, Free
    <3>5. Live(p)' = {r}
      BY <3>1, <3>4
    <3> QED
      BY <3>2, <3>5, FS_Singleton
  <2>2. CASE \E p \in Procs, r \in Runs, ok \in BOOLEAN :
             Release(p, r, ok) \/ ReleaseFails(p, r, ok)
    <3> PICK p \in Procs, r \in Runs, ok \in BOOLEAN :
             Release(p, r, ok) \/ ReleaseFails(p, r, ok)
      BY <2>2
    <3>1. live' = [live EXCEPT ![p][r] = NoSubject]
      BY DEF Release, ReleaseFails, Leave
    <3> QED
      BY <3>1
  <2>3. CASE \E p \in Procs : Die(p)
    BY <2>3 DEF Die
  <2>4. CASE UNCHANGED live
    BY <2>4
  <2> QED
    BY <2>1, <2>2, <2>3, <2>4 DEF PoolNext, Refuse, AdmitFails, Probe, Observe, RecomputeDue,
       Forget, WindowMoves, LedgerOnly, doorVars, poolVars
<1> QED
  BY <1>1, InvariantAlways, PTL DEF PoolSpec, ProbesAlone

\* A step of the pool is a step of the ledger or leaves the ledger alone.
LEMMA StepsOfBudget ==
    ASSUME IInv, [PoolNext]_poolVars
    PROVE  [Next]_vars
<1>1. CASE \E p \in Procs, r \in Runs, s \in Subjects : Admit(p, r, s)
  <2> PICK p \in Procs, r \in Runs, s \in Subjects : Admit(p, r, s)
    BY <1>1
  <2>1. Start(r, Position(p)) /\ Position(p) # Unknown
    BY DEF Admit
  <2>2. CASE Mode = "subscription"
    <3>1. Position(p) \in Observed
      BY <2>1, <2>2 DEF Position, IInv, DoorTypeOK
    <3> QED
      BY <2>1, <3>1 DEF Next
  <2>3. CASE Mode # "subscription"
    <3>1. window \in Observed
      BY DEF IInv, DoorTypeOK
    <3>2. Base(window) = Base(Position(p))
      BY <2>3 DEF Base
    <3>3. Start(r, window)
      BY <2>1, <3>2 DEF Start, Reserve
    <3> QED
      BY <3>1, <3>3 DEF Next
  <2> QED
    BY <2>2, <2>3
<1>2. CASE \E p \in Procs, r \in Runs, ok \in BOOLEAN :
             Release(p, r, ok) \/ ReleaseFails(p, r, ok)
  BY <1>2 DEF Release, ReleaseFails, Next
<1>3. CASE \E p \in Procs : Die(p)
  <2> PICK p \in Procs : Die(p)
    BY <1>3
  <2>1. Live(p) \in SUBSET Runs /\ Crash(Live(p))
    BY DEF Die
  <2> QED
    BY <2>1 DEF Next
<1>4. CASE LedgerOnly
  BY <1>4 DEF LedgerOnly, Next
<1>5. CASE \/ \E p \in Procs, s \in Subjects : Refuse(p, s) \/ AdmitFails(p, s)
           \/ \E p \in Procs : Probe(p) \/ Observe(p) \/ RecomputeDue(p) \/ Forget(p)
           \/ WindowMoves \/ UNCHANGED poolVars
  <2>1. UNCHANGED vars
    BY <1>5 DEF Refuse, AdmitFails, Probe, Observe, RecomputeDue, Forget, WindowMoves,
                vars, poolVars
  <2> QED
    BY <2>1
<1> QED
  BY <1>1, <1>2, <1>3, <1>4, <1>5 DEF PoolNext

\* However many processes admit, release, probe and crash, what happens to the
\* budget file is a behaviour of Budget, so all that is proved of the ledger
\* holds of it under the pools (pool.py, admit and release).
THEOREM PoolImplementsBudget == PoolSpec => BudgetImplemented
<1>1. PoolInit => Init
  BY DEF PoolInit
<1> QED
  BY <1>1, StepsOfBudget, InvariantAlways, PTL DEF PoolSpec, BudgetImplemented, Spec

\* Under the pools, whoever starts runs, dies or is cancelled: the cap holds, each
\* run is charged once and for what it cost, and a run under supervision keeps its
\* reservation where runs are shorter than the TTL (budget.py, as pool.py and the
\* commands use it).
THEOREM LedgerHoldsUnderPools ==
    PoolSpec => [](CapHolds /\ ChargedOnce /\ BilledForSpend /\ LiveRunsHold)
  BY PoolImplementsBudget, CapIsKept, EveryChargeCountsOnce, BillsMatchSpend,
     LiveRunsKeepTheirBudget, PTL DEF BudgetImplemented
=============================================================================
