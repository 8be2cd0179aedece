------------------------- MODULE BudgetManagerProofs -------------------------
(***************************************************************************)
(* Theorems about BudgetManager, for every number of requests, teams,      *)
(* months and every amount.  Costs are cardinalities of sets of units, so  *)
(* that adding a charge is the union of two disjoint finite sets and       *)
(* comparing two costs is set inclusion.                                   *)
(***************************************************************************)
EXTENDS BudgetManager, FiniteSetTheorems, TLAPS

-----------------------------------------------------------------------------
(* The cost of a set of requests.                                          *)

\* Finitely many requests pay finitely many units.
LEMMA UnitsFinite ==
    ASSUME NEW f, NEW S, IsFiniteSet(S)
    PROVE  IsFiniteSet(Units(f, S))
<1>1. IsFiniteSet(1..MaxCost)
    BY FS_Interval, BoundAssumption
<1>2. IsFiniteSet(S \X (1..MaxCost))
    BY <1>1, FS_Product
<1> QED BY <1>2, FS_Subset DEF Units

\* The cost of finitely many requests is a number.
LEMMA CostIsNat ==
    ASSUME NEW f, NEW S, IsFiniteSet(S)
    PROVE  CostUnder(f, S) \in Nat
BY UnitsFinite, FS_CardinalityType DEF CostUnder

\* A larger set of requests, at the same prices, costs at least as much.
LEMMA CostMonotone ==
    ASSUME NEW f, NEW g, NEW S, NEW T, IsFiniteSet(T), S \subseteq T,
           \A q \in S : f[q] = g[q]
    PROVE  CostUnder(f, S) <= CostUnder(g, T)
<1>1. Units(f, S) \subseteq Units(g, T)
    BY DEF Units
<1> QED BY <1>1, UnitsFinite, FS_Subset DEF CostUnder

\* The cost depends on the prices of the members only.
LEMMA CostFrame ==
    ASSUME NEW f, NEW g, NEW S, \A q \in S : f[q] = g[q]
    PROVE  CostUnder(f, S) = CostUnder(g, S)
<1>1. Units(f, S) = Units(g, S)
    BY DEF Units
<1> QED BY <1>1 DEF CostUnder

\* Nothing costs nothing.
LEMMA CostOfNothing ==
    ASSUME NEW f
    PROVE  CostUnder(f, {}) = 0
<1>1. Units(f, {}) = {}
    BY DEF Units
<1> QED BY <1>1, FS_EmptySet DEF CostUnder

\* One more request adds exactly its own cost.
LEMMA CostAdds ==
    ASSUME NEW f, NEW S, IsFiniteSet(S), NEW r, r \notin S, f[r] \in 0..MaxCost
    PROVE  CostUnder(f, S \cup {r}) = CostUnder(f, S) + f[r]
<1>1. IsFiniteSet({r}) /\ Cardinality({r}) = 1
    BY FS_Singleton
<1>2. IsFiniteSet(1..f[r]) /\ Cardinality(1..f[r]) = f[r]
  <2>1. PICK n \in Nat : n = f[r]
    BY BoundAssumption
  <2>2. 1 \in Int /\ n \in Int
    BY <2>1
  <2>3. IsFiniteSet(1..n) /\ Cardinality(1..n) = IF 1 > n THEN 0 ELSE n - 1 + 1
    BY <2>2, FS_Interval
  <2>4. Cardinality(1..n) = n
    BY <2>1, <2>3
  <2> QED BY <2>1, <2>3, <2>4
<1>3. Units(f, {r}) = {r} \X (1..f[r])
    BY BoundAssumption DEF Units
<1>4. IsFiniteSet(Units(f, {r})) /\ Cardinality(Units(f, {r})) = f[r]
  <2>1. /\ IsFiniteSet({r} \X (1..f[r]))
        /\ Cardinality({r} \X (1..f[r])) = Cardinality({r}) * Cardinality(1..f[r])
    BY <1>1, <1>2, FS_Product
  <2>2. 1 * f[r] = f[r]
    BY BoundAssumption
  <2>3. Cardinality({r} \X (1..f[r])) = f[r]
    BY <1>1, <1>2, <2>1, <2>2
  <2> QED BY <1>3, <2>1, <2>3
<1>5. Units(f, S \cup {r}) = Units(f, S) \cup Units(f, {r})
    BY DEF Units
<1>6. Units(f, S) \cap Units(f, {r}) = {}
    BY DEF Units
<1>7. IsFiniteSet(Units(f, S)) /\ Cardinality(Units(f, S)) \in Nat
    BY UnitsFinite, FS_CardinalityType
<1>8. Cardinality(Units(f, S) \cup Units(f, {r}))
        = Cardinality(Units(f, S)) + Cardinality(Units(f, {r}))
            - Cardinality(Units(f, S) \cap Units(f, {r}))
    BY <1>4, <1>7, FS_Union
<1>9. Cardinality(Units(f, S) \cap Units(f, {r})) = 0
    BY <1>6, FS_EmptySet
<1>10. f[r] \in Int
    BY BoundAssumption
<1>11. Cardinality(Units(f, S) \cup Units(f, {r})) = Cardinality(Units(f, S)) + f[r]
    BY <1>4, <1>7, <1>8, <1>9, <1>10
<1> QED BY <1>5, <1>11 DEF CostUnder

-----------------------------------------------------------------------------
(* Type correctness.                                                       *)

\* The verdict on a usage row is one of three.
LEMMA VerdictType ==
    ASSUME NEW u
    PROVE  Verdict(u) \in {"rejected", "downgraded", "admitted"}
BY DEF Verdict

\* The row written back fits the table.
LEMMA ChargedType ==
    ASSUME TypeOK, NEW r \in Requests, Fits(held[r], r)
    PROVE  /\ Charged(held[r], r) \in Usage
           /\ Charged(held[r], r).budget = held[r].budget
           /\ Charged(held[r], r).period = held[r].period
           /\ Charged(held[r], r).spent = held[r].spent + cost[r]
           /\ Charged(held[r], r).request_count = held[r].request_count + 1
           /\ Charged(held[r], r).entries = held[r].entries \cup {r}
<1>1. held[r] \in Usage /\ cost[r] \in 0..MaxCost
    BY DEF TypeOK
<1>2. held[r].spent + cost[r] \in 0..MaxSpent
    BY <1>1, BoundAssumption DEF Fits, Usage
<1> QED BY <1>1, <1>2 DEF Charged, Usage

\* A row just inserted fits the table.
LEMMA NewUsageType ==
    ASSUME NEW t \in Teams, NEW m \in Months
    PROVE  NewUsage(t, m) \in Usage
BY BoundAssumption DEF NewUsage, Usage

\* The empty database and the idle handlers have their types.
LEMMA TypeInit == Init => TypeOK
<1> SUFFICES ASSUME Init PROVE TypeOK
    OBVIOUS
<1>1. NoUsage \in Usage
    BY BudgetAssumption, BoundAssumption DEF NoUsage, Usage, Months
<1> QED BY <1>1, BoundAssumption DEF Init, TypeOK, Months, InFlight, Answered

\* Every step keeps the types.
LEMMA TypeStep == TypeOK /\ [Next]_vars => TypeOK'
<1> SUFFICES ASSUME TypeOK, [Next]_vars PROVE TypeOK'
    OBVIOUS
<1> USE DEF TypeOK, Goto, InFlight, Deciding, Calling, Recording, Answered
<1>1. ASSUME NEW r \in Requests, Arrive(r) PROVE TypeOK'
    BY <1>1 DEF Arrive
<1>2. ASSUME NEW r \in Requests, SelectNone(r) PROVE TypeOK'
    BY <1>2 DEF SelectNone
<1>3. ASSUME NEW r \in Requests, SelectOne(r) PROVE TypeOK'
    BY <1>3, VerdictType DEF SelectOne
<1>4. ASSUME NEW r \in Requests, SelectMany(r) PROVE TypeOK'
    BY <1>4 DEF SelectMany
<1>5. ASSUME NEW r \in Requests, CreateUsage(r) PROVE TypeOK'
  <2>1. NewUsage(team[r], period[r]) \in Usage
    BY NewUsageType
  <2>2. /\ DOMAIN usages' \subseteq Requests
        /\ \A id \in DOMAIN usages' : usages'[id] \in Usage
        /\ usages' = [id \in DOMAIN usages' |-> usages'[id]]
    BY <1>5, <2>1 DEF CreateUsage
  <2> QED BY <1>5, <2>2 DEF CreateUsage
<1>6. ASSUME NEW r \in Requests, RefreshUsage(r) PROVE TypeOK'
    BY <1>6, VerdictType DEF RefreshUsage
<1>7. ASSUME NEW r \in Requests, Complete(r) PROVE TypeOK'
    BY <1>7 DEF Complete
<1>8. ASSUME NEW r \in Requests, CallFails(r) PROVE TypeOK'
    BY <1>8 DEF CallFails
<1>9. ASSUME NEW r \in Requests, LoadUsage(r) PROVE TypeOK'
    BY <1>9 DEF LoadUsage
<1>10. ASSUME NEW r \in Requests, LoadNothing(r) PROVE TypeOK'
    BY <1>10 DEF LoadNothing
<1>11. ASSUME NEW r \in Requests, CommitSpend(r) PROVE TypeOK'
  <2>1. Charged(held[r], r) \in Usage
    BY <1>11, ChargedType DEF CommitSpend
  <2>2. /\ DOMAIN usages' = DOMAIN usages
        /\ \A id \in DOMAIN usages' : usages'[id] \in Usage
        /\ usages' = [id \in DOMAIN usages' |-> usages'[id]]
    BY <1>11, <2>1 DEF CommitSpend
  <2> QED BY <1>11, <2>2 DEF CommitSpend
<1>12. ASSUME NEW r \in Requests, CommitOverflows(r) PROVE TypeOK'
    BY <1>12 DEF CommitOverflows
<1>13. ASSUME NEW r \in Requests, DatabaseError(r) PROVE TypeOK'
    BY <1>13 DEF DatabaseError
<1>14. ASSUME NEW r \in Requests, Crash(r) PROVE TypeOK'
    BY <1>14 DEF Crash
<1>15. CASE NextMonth
    BY <1>15, BoundAssumption DEF NextMonth, Months
<1>16. CASE UNCHANGED vars
    BY <1>16 DEF vars
<1> QED BY <1>1, <1>2, <1>3, <1>4, <1>5, <1>6, <1>7, <1>8, <1>9, <1>10, <1>11,
           <1>12, <1>13, <1>14, <1>15, <1>16
        DEF Next, HandlerStep, CallReturns, Quiescent

\* The database table and the handlers' variables keep their types, whatever
\* the number of requests, teams and months.
THEOREM TypeCorrect == Spec => []TypeOK
BY TypeInit, TypeStep, PTL DEF Spec

-----------------------------------------------------------------------------
(* The parts of the inductive invariant, one lemma each.                   *)

\* Every step keeps the order of the stages: checked, priced, recorded.
LEMMA StagesStep == TypeOK /\ StagesInv /\ [Next]_vars => StagesInv'
<1> SUFFICES ASSUME TypeOK, StagesInv, [Next]_vars PROVE StagesInv'
    OBVIOUS
<1> USE DEF TypeOK, StagesInv, Goto, Deciding, Calling, Recording, InFlight, Answered
<1>1. ASSUME NEW r \in Requests, Arrive(r) PROVE StagesInv'
    BY <1>1 DEF Arrive
<1>2. ASSUME NEW r \in Requests, SelectNone(r) PROVE StagesInv'
    BY <1>2 DEF SelectNone
<1>3. ASSUME NEW r \in Requests, SelectOne(r) PROVE StagesInv'
    BY <1>3 DEF SelectOne, Verdict, MatchingRows
<1>4. ASSUME NEW r \in Requests, SelectMany(r) PROVE StagesInv'
    BY <1>4 DEF SelectMany
<1>5. ASSUME NEW r \in Requests, CreateUsage(r) PROVE StagesInv'
    BY <1>5 DEF CreateUsage
<1>6. ASSUME NEW r \in Requests, RefreshUsage(r) PROVE StagesInv'
    BY <1>6 DEF RefreshUsage, Verdict
<1>7. ASSUME NEW r \in Requests, Complete(r) PROVE StagesInv'
    BY <1>7, BoundAssumption DEF Complete
<1>8. ASSUME NEW r \in Requests, CallFails(r) PROVE StagesInv'
    BY <1>8 DEF CallFails
<1>9. ASSUME NEW r \in Requests, LoadUsage(r) PROVE StagesInv'
    BY <1>9 DEF LoadUsage
<1>10. ASSUME NEW r \in Requests, LoadNothing(r) PROVE StagesInv'
    BY <1>10 DEF LoadNothing
<1>11. ASSUME NEW r \in Requests, CommitSpend(r) PROVE StagesInv'
    BY <1>11 DEF CommitSpend
<1>12. ASSUME NEW r \in Requests, CommitOverflows(r) PROVE StagesInv'
    BY <1>12 DEF CommitOverflows
<1>13. ASSUME NEW r \in Requests, DatabaseError(r) PROVE StagesInv'
    BY <1>13 DEF DatabaseError
<1>14. ASSUME NEW r \in Requests, Crash(r) PROVE StagesInv'
    BY <1>14 DEF Crash
<1>15. CASE NextMonth
    BY <1>15 DEF NextMonth
<1>16. CASE UNCHANGED vars
    BY <1>16 DEF vars
<1> QED BY <1>1, <1>2, <1>3, <1>4, <1>5, <1>6, <1>7, <1>8, <1>9, <1>10, <1>11,
           <1>12, <1>13, <1>14, <1>15, <1>16
        DEF Next, HandlerStep, CallReturns, Quiescent

\* A call that was served keeps its price, team, month and row.
LEMMA ServedKept ==
    ASSUME TypeOK, [Next]_vars, NEW q \in Requests, pc[q] = "served"
    PROVE  /\ pc'[q] = "served" /\ cost'[q] = cost[q] /\ team'[q] = team[q]
           /\ period'[q] = period[q] /\ row'[q] = row[q]
<1> USE DEF TypeOK, Goto, Deciding, Calling, Recording, InFlight
<1>1. ASSUME NEW r \in Requests,
             Arrive(r) \/ HandlerStep(r) \/ CallReturns(r) \/ DatabaseError(r) \/ Crash(r)
      PROVE  r # q /\ UNCHANGED <<pc[q], cost[q], team[q], period[q], row[q]>>
    BY <1>1 DEF Arrive, HandlerStep, SelectNone, SelectOne, SelectMany, CreateUsage,
        RefreshUsage, LoadUsage, LoadNothing, CommitSpend, CommitOverflows,
        CallReturns, Complete, CallFails, DatabaseError, Crash
<1>2. CASE NextMonth
    BY <1>2 DEF NextMonth
<1>3. CASE UNCHANGED vars
    BY <1>3 DEF vars
<1> QED BY <1>1, <1>2, <1>3 DEF Next, Quiescent

\* What was paid stays paid, by the same team in the same month.
LEMMA PriceKept ==
    ASSUME TypeOK, StagesInv, [Next]_vars, NEW q \in Requests, cost[q] > 0
    PROVE  cost'[q] = cost[q] /\ team'[q] = team[q] /\ period'[q] = period[q]
<1> USE DEF TypeOK, Goto, Deciding, Calling, Recording, InFlight
<1>1. ASSUME NEW r \in Requests, Arrive(r) \/ Complete(r)
      PROVE  r # q /\ UNCHANGED <<cost[q], team[q], period[q]>>
    BY <1>1 DEF Arrive, Complete, StagesInv
<1>2. ASSUME NEW r \in Requests,
             HandlerStep(r) \/ CallFails(r) \/ DatabaseError(r) \/ Crash(r)
      PROVE  UNCHANGED <<cost, team, period>>
    BY <1>2 DEF HandlerStep, SelectNone, SelectOne, SelectMany, CreateUsage,
        RefreshUsage, LoadUsage, LoadNothing, CommitSpend, CommitOverflows,
        CallFails, DatabaseError, Crash
<1>3. CASE NextMonth
    BY <1>3 DEF NextMonth
<1>4. CASE UNCHANGED vars
    BY <1>4 DEF vars
<1> QED BY <1>1, <1>2, <1>3, <1>4 DEF Next, CallReturns, Quiescent

\* What a team has paid for a month never shrinks.
LEMMA PaidGrows ==
    ASSUME TypeOK, StagesInv, [Next]_vars, NEW t, NEW m
    PROVE  CostUnder(cost, {q \in Requests : cost[q] > 0 /\ team[q] = t /\ period[q] = m})
        <= CostUnder(cost', {q \in Requests : cost'[q] > 0 /\ team'[q] = t /\ period'[q] = m})
<1> DEFINE P == {q \in Requests : cost[q] > 0 /\ team[q] = t /\ period[q] = m}
           Q == {q \in Requests : cost'[q] > 0 /\ team'[q] = t /\ period'[q] = m}
<1>1. P \subseteq Q /\ \A q \in P : cost[q] = cost'[q]
    BY PriceKept
<1>2. IsFiniteSet(Q)
    BY RequestsAssumption, FS_Subset
<1> HIDE DEF P, Q
<1>3. CostUnder(cost, P) <= CostUnder(cost', Q)
    BY <1>1, <1>2, CostMonotone
<1> QED BY <1>3 DEF P, Q

\* Sound figures stay sound: nobody changes the price of what they include.
LEMMA SoundKept ==
    ASSUME TypeOK, [Next]_vars, NEW id, NEW u \in Usage, Sound(id, u)
    PROVE  Sound(id, u)'
<1>1. \A q \in u.entries :
        /\ pc'[q] = "served" /\ cost'[q] = cost[q] /\ team'[q] = team[q]
        /\ period'[q] = period[q] /\ row'[q] = row[q]
    BY ServedKept DEF Sound, Usage
<1>2. CostUnder(cost', u.entries) = CostUnder(cost, u.entries)
    BY <1>1, CostFrame
<1> QED BY <1>1, <1>2 DEF Sound, CostOf

\* A usage row never disappears and never changes its team or month.
LEMMA RowsKept ==
    ASSUME TypeOK, CreatedInv, HeldInv, [Next]_vars, NEW id \in DOMAIN usages
    PROVE  /\ id \in DOMAIN usages'
           /\ usages'[id].budget = usages[id].budget
           /\ usages'[id].period = usages[id].period
<1> USE DEF TypeOK
<1>1. ASSUME NEW r \in Requests, CreateUsage(r)
      PROVE  id \in DOMAIN usages' /\ usages'[id] = usages[id]
    BY <1>1 DEF CreateUsage, CreatedInv
<1>2. ASSUME NEW r \in Requests, CommitSpend(r)
      PROVE  /\ id \in DOMAIN usages'
             /\ usages'[id].budget = usages[id].budget
             /\ usages'[id].period = usages[id].period
  <2>1. /\ Charged(held[r], r).budget = held[r].budget
        /\ Charged(held[r], r).period = held[r].period
    BY <1>2, ChargedType DEF CommitSpend
  <2>2. /\ row[r] \in DOMAIN usages
        /\ usages[row[r]].budget = held[r].budget
        /\ usages[row[r]].period = held[r].period
    BY <1>2 DEF CommitSpend, HeldInv
  <2> QED BY <1>2, <2>1, <2>2 DEF CommitSpend
<1>3. ASSUME NEW r \in Requests,
             \/ Arrive(r) \/ SelectNone(r) \/ SelectOne(r) \/ SelectMany(r)
             \/ RefreshUsage(r) \/ LoadUsage(r) \/ LoadNothing(r) \/ CommitOverflows(r)
             \/ CallReturns(r) \/ DatabaseError(r) \/ Crash(r)
      PROVE  usages' = usages
    BY <1>3 DEF Arrive, SelectNone, SelectOne, SelectMany, RefreshUsage, LoadUsage,
        LoadNothing, CommitOverflows, CallReturns, Complete, CallFails,
        DatabaseError, Crash
<1>4. CASE NextMonth
    BY <1>4 DEF NextMonth
<1>5. CASE UNCHANGED vars
    BY <1>5 DEF vars
<1> QED BY <1>1, <1>2, <1>3, <1>4, <1>5 DEF Next, HandlerStep, Quiescent

\* Every step keeps a row with the handler that inserted it.
LEMMA CreatedStep ==
    TypeOK /\ CreatedInv /\ HeldInv /\ [Next]_vars => CreatedInv'
<1> SUFFICES ASSUME TypeOK, CreatedInv, HeldInv, [Next]_vars PROVE CreatedInv'
    OBVIOUS
<1> USE DEF TypeOK, CreatedInv, Goto, Deciding, Calling, Recording, InFlight, Answered
<1>1. ASSUME NEW r \in Requests, Arrive(r) PROVE CreatedInv'
    BY <1>1 DEF Arrive
<1>2. ASSUME NEW r \in Requests, SelectNone(r) PROVE CreatedInv'
    BY <1>2 DEF SelectNone
<1>3. ASSUME NEW r \in Requests, SelectOne(r) PROVE CreatedInv'
    BY <1>3, VerdictType DEF SelectOne
<1>4. ASSUME NEW r \in Requests, SelectMany(r) PROVE CreatedInv'
    BY <1>4 DEF SelectMany
<1>5. ASSUME NEW r \in Requests, CreateUsage(r) PROVE CreatedInv'
    BY <1>5 DEF CreateUsage, NewUsage
<1>6. ASSUME NEW r \in Requests, RefreshUsage(r) PROVE CreatedInv'
    BY <1>6, VerdictType DEF RefreshUsage
<1>7. ASSUME NEW r \in Requests, Complete(r) PROVE CreatedInv'
    BY <1>7 DEF Complete
<1>8. ASSUME NEW r \in Requests, CallFails(r) PROVE CreatedInv'
    BY <1>8 DEF CallFails
<1>9. ASSUME NEW r \in Requests, LoadUsage(r) PROVE CreatedInv'
    BY <1>9 DEF LoadUsage
<1>10. ASSUME NEW r \in Requests, LoadNothing(r) PROVE CreatedInv'
    BY <1>10 DEF LoadNothing
<1>11. ASSUME NEW r \in Requests, CommitSpend(r) PROVE CreatedInv'
    BY <1>11, RowsKept DEF CommitSpend
<1>12. ASSUME NEW r \in Requests, CommitOverflows(r) PROVE CreatedInv'
    BY <1>12 DEF CommitOverflows
<1>13. ASSUME NEW r \in Requests, DatabaseError(r) PROVE CreatedInv'
    BY <1>13 DEF DatabaseError
<1>14. ASSUME NEW r \in Requests, Crash(r) PROVE CreatedInv'
    BY <1>14 DEF Crash
<1>15. CASE NextMonth
    BY <1>15 DEF NextMonth
<1>16. CASE UNCHANGED vars
    BY <1>16 DEF vars
<1> QED BY <1>1, <1>2, <1>3, <1>4, <1>5, <1>6, <1>7, <1>8, <1>9, <1>10, <1>11,
           <1>12, <1>13, <1>14, <1>15, <1>16
        DEF Next, HandlerStep, CallReturns, Quiescent

\* Every step keeps the rows sound: only CommitSpend rewrites one, from a sound object.
LEMMA RowsStep ==
    TypeOK /\ StagesInv /\ RowsInv /\ HeldInv /\ [Next]_vars => RowsInv'
<1> SUFFICES ASSUME TypeOK, StagesInv, RowsInv, HeldInv, [Next]_vars PROVE RowsInv'
    OBVIOUS
<1>1. ASSUME NEW id \in DOMAIN usages, usages'[id] = usages[id]
      PROVE  Sound(id, usages[id])'
  <2>1. \A u \in Usage : Sound(id, u) => Sound(id, u)'
    BY SoundKept
  <2>2. usages[id] \in Usage /\ Sound(id, usages[id])
    BY DEF TypeOK, RowsInv
  <2> QED BY <1>1, <2>1, <2>2 DEF Sound, CostOf
<1>2. ASSUME NEW r \in Requests, CreateUsage(r) PROVE RowsInv'
  <2>1. usages'[r].spent = 0 /\ usages'[r].request_count = 0 /\ usages'[r].entries = {}
    BY <1>2 DEF CreateUsage, NewUsage
  <2>2. Sound(r, usages[r])'
    BY <2>1, CostOfNothing, FS_EmptySet DEF Sound, CostOf
  <2>3. \A id \in DOMAIN usages' : id # r => id \in DOMAIN usages /\ usages'[id] = usages[id]
    BY <1>2 DEF CreateUsage
  <2> QED BY <1>1, <2>2, <2>3 DEF RowsInv
<1>3. ASSUME NEW r \in Requests, CommitSpend(r) PROVE RowsInv'
  <2> DEFINE S == held[r].entries
  <2>1. /\ pc[r] = "committing" /\ held[r] \in Usage /\ cost[r] \in 0..MaxCost
        /\ row[r] \in DOMAIN usages
        /\ held[r].budget = team[r] /\ held[r].period = period[r]
        /\ Sound(row[r], held[r])
    BY <1>3 DEF CommitSpend, TypeOK, HeldInv
  <2>2. /\ S \subseteq Requests /\ r \notin S /\ IsFiniteSet(S)
    BY <2>1, RequestsAssumption, FS_Subset DEF Sound, Usage
  <2>3. /\ CostUnder(cost, S \cup {r}) = CostUnder(cost, S) + cost[r]
        /\ Cardinality(S \cup {r}) = Cardinality(S) + 1
    <3> HIDE DEF S
    <3>1. CostUnder(cost, S \cup {r}) = CostUnder(cost, S) + cost[r]
        BY <2>1, <2>2, CostAdds
    <3>2. Cardinality(S \cup {r}) = Cardinality(S) + 1
        BY <2>2, FS_AddElement
    <3> QED BY <3>1, <3>2
  <2>4. /\ usages'[row[r]].budget = team[r] /\ usages'[row[r]].period = period[r]
        /\ usages'[row[r]].spent = held[r].spent + cost[r]
        /\ usages'[row[r]].request_count = held[r].request_count + 1
        /\ usages'[row[r]].entries = S \cup {r}
    BY <1>3, <2>1, ChargedType DEF CommitSpend, TypeOK
  <2>5. UNCHANGED <<team, period, row, cost>> /\ pc' = [pc EXCEPT ![r] = "served"]
    BY <1>3 DEF CommitSpend, Goto
  <2>8. cost[r] > 0
    BY <2>1 DEF StagesInv, Recording
  <2>6. Sound(row[r], usages[row[r]])'
    <3>1. \A q \in S \cup {r} :
            /\ cost[q] > 0 /\ team[q] = team[r] /\ period[q] = period[r]
            /\ row[q] = row[r] /\ pc'[q] = "served"
        BY <2>1, <2>2, <2>5, <2>8 DEF Sound, TypeOK
    <3>2. usages'[row[r]].spent = CostUnder(cost, S \cup {r})
        BY <2>1, <2>3, <2>4 DEF Sound, CostOf
    <3>3. usages'[row[r]].request_count = Cardinality(S \cup {r})
        BY <2>1, <2>3, <2>4 DEF Sound
    <3> HIDE DEF S
    <3> QED BY <2>4, <2>5, <3>1, <3>2, <3>3 DEF Sound, CostOf
  <2>7. \A id \in DOMAIN usages' : id # row[r] => id \in DOMAIN usages /\ usages'[id] = usages[id]
    BY <1>3 DEF CommitSpend, TypeOK
  <2> QED BY <1>1, <2>5, <2>6, <2>7 DEF RowsInv
<1>4. ASSUME NEW r \in Requests,
             \/ Arrive(r) \/ SelectNone(r) \/ SelectOne(r) \/ SelectMany(r)
             \/ RefreshUsage(r) \/ LoadUsage(r) \/ LoadNothing(r) \/ CommitOverflows(r)
             \/ CallReturns(r) \/ DatabaseError(r) \/ Crash(r)
      PROVE  usages' = usages
    BY <1>4 DEF Arrive, SelectNone, SelectOne, SelectMany, RefreshUsage, LoadUsage,
        LoadNothing, CommitOverflows, CallReturns, Complete, CallFails,
        DatabaseError, Crash
<1>5. CASE NextMonth
    BY <1>1, <1>5 DEF NextMonth, RowsInv
<1>6. CASE UNCHANGED vars
    BY <1>1, <1>6 DEF vars, RowsInv
<1>7. CASE usages' = usages
    BY <1>1, <1>7 DEF RowsInv
<1> QED BY <1>2, <1>3, <1>4, <1>5, <1>6, <1>7 DEF Next, HandlerStep, Quiescent

\* Every step keeps the loaded objects sound, however outdated they get.
LEMMA HeldStep ==
    TypeOK /\ CreatedInv /\ RowsInv /\ HeldInv /\ [Next]_vars => HeldInv'
<1> SUFFICES ASSUME TypeOK, CreatedInv, RowsInv, HeldInv, [Next]_vars,
                    NEW q \in Requests, pc'[q] = "committing"
             PROVE  /\ row'[q] \in DOMAIN usages'
                    /\ usages'[row'[q]].budget = team'[q]
                    /\ usages'[row'[q]].period = period'[q]
                    /\ held'[q].budget = team'[q] /\ held'[q].period = period'[q]
                    /\ Sound(row[q], held[q])'
    BY DEF HeldInv
<1>1. \A id, u : u \in Usage /\ Sound(id, u) => Sound(id, u)'
    BY SoundKept
<1>2. CASE LoadUsage(q)
  <2>1. PICK id \in DOMAIN usages :
            /\ MatchingRows(team[q], period[q]) = {id}
            /\ row'[q] = id /\ held'[q] = usages[id]
    BY <1>2 DEF LoadUsage, TypeOK
  <2>2. usages[id].budget = team[q] /\ usages[id].period = period[q]
    BY <2>1 DEF MatchingRows
  <2>3. UNCHANGED <<usages, team, period>>
    BY <1>2 DEF LoadUsage
  <2>4. usages[id] \in Usage /\ Sound(id, usages[id])
    BY DEF TypeOK, RowsInv
  <2>5. Sound(row[q], held[q])'
    BY <1>1, <2>1, <2>4 DEF Sound, CostOf
  <2> QED BY <2>1, <2>2, <2>3, <2>5
<1>3. CASE /\ pc[q] = "committing"
           /\ UNCHANGED <<row[q], held[q], team[q], period[q]>>
  <2>1. /\ row[q] \in DOMAIN usages
        /\ usages[row[q]].budget = team[q] /\ usages[row[q]].period = period[q]
        /\ held[q].budget = team[q] /\ held[q].period = period[q]
        /\ held[q] \in Usage /\ Sound(row[q], held[q])
    BY <1>3 DEF HeldInv, TypeOK
  <2>2. /\ row[q] \in DOMAIN usages'
        /\ usages'[row[q]].budget = usages[row[q]].budget
        /\ usages'[row[q]].period = usages[row[q]].period
    BY <2>1, RowsKept
  <2>3. Sound(row[q], held[q])'
    BY <1>1, <1>3, <2>1 DEF Sound, CostOf
  <2> QED BY <1>3, <2>1, <2>2, <2>3
<1>4. LoadUsage(q) \/ (pc[q] = "committing" /\ UNCHANGED <<row[q], held[q], team[q], period[q]>>)
  <2> USE DEF TypeOK, Goto, Calling, Deciding, Recording, InFlight
  <2>1. ASSUME NEW r \in Requests, LoadUsage(r), r # q PROVE <1>4!2
    BY <2>1 DEF LoadUsage
  <2>2. ASSUME NEW r \in Requests,
               \/ Arrive(r) \/ SelectNone(r) \/ SelectMany(r) \/ CreateUsage(r)
               \/ LoadNothing(r) \/ CommitSpend(r) \/ CommitOverflows(r)
               \/ CallReturns(r) \/ DatabaseError(r) \/ Crash(r)
        PROVE  <1>4!2
    BY <2>2 DEF Arrive, SelectNone, SelectMany, CreateUsage, LoadNothing, CommitSpend,
        CommitOverflows, CallReturns, Complete, CallFails, DatabaseError, Crash
  <2>3. ASSUME NEW r \in Requests, SelectOne(r) \/ RefreshUsage(r) PROVE <1>4!2
    BY <2>3, VerdictType DEF SelectOne, RefreshUsage
  <2>4. CASE NextMonth
    BY <2>4 DEF NextMonth
  <2>5. CASE UNCHANGED vars
    BY <2>5 DEF vars
  <2> QED BY <2>1, <2>2, <2>3, <2>4, <2>5 DEF Next, HandlerStep, Quiescent
<1> QED BY <1>2, <1>3, <1>4

\* The figure of a sound row never exceeds what its team paid for its month.
LEMMA RowWithinPaid ==
    ASSUME TypeOK, RowsInv, NEW id \in DOMAIN usages
    PROVE  usages[id].spent <= CostUnder(cost, PaidBy(usages[id].budget, usages[id].period))
<1> DEFINE S == usages[id].entries
           P == PaidBy(usages[id].budget, usages[id].period)
<1>1. Sound(id, usages[id]) /\ S \subseteq Requests
    BY DEF RowsInv, TypeOK, Usage
<1>2. S \subseteq P
    BY <1>1 DEF Sound, PaidBy
<1>3. IsFiniteSet(P)
    BY RequestsAssumption, FS_Subset DEF PaidBy
<1>4. usages[id].spent = CostUnder(cost, S)
    BY <1>1 DEF Sound, CostOf
<1> HIDE DEF S, P
<1>5. CostUnder(cost, S) <= CostUnder(cost, P)
    BY <1>2, <1>3, CostMonotone
<1> QED BY <1>4, <1>5 DEF P

\* A verdict on a sound row is backed by what the team paid.
LEMMA VerdictBacked ==
    ASSUME TypeOK, RowsInv, NEW id \in DOMAIN usages, usages[id].budget \in Budgeted
    PROVE  LET u == usages[id]
               paid == CostUnder(cost, PaidBy(u.budget, u.period))
           IN  /\ Verdict(u) = "rejected" => paid >= Amount[u.budget]
               /\ Verdict(u) = "downgraded" => paid >= SoftLimit[u.budget]
<1> DEFINE u == usages[id]
           paid == CostUnder(cost, PaidBy(u.budget, u.period))
<1>1. u.spent <= paid /\ u.spent \in Int
    BY RowWithinPaid, BoundAssumption DEF TypeOK, Usage
<1>2. paid \in Nat
  <2>1. IsFiniteSet(PaidBy(u.budget, u.period))
    BY RequestsAssumption, FS_Subset DEF PaidBy
  <2> QED BY <2>1, CostIsNat
<1>3. Amount[u.budget] \in Nat /\ SoftLimit[u.budget] \in Nat
    BY BudgetAssumption
<1>4. /\ Verdict(u) = "rejected" => u.spent >= Amount[u.budget]
      /\ Verdict(u) = "downgraded" => u.spent >= SoftLimit[u.budget]
    BY DEF Verdict
<1> HIDE DEF u, paid
<1>5. /\ Verdict(u) = "rejected" => paid >= Amount[u.budget]
      /\ Verdict(u) = "downgraded" => paid >= SoftLimit[u.budget]
    BY <1>1, <1>2, <1>3, <1>4
<1> QED BY <1>5 DEF u, paid

\* Every step keeps the verdicts justified: they are taken on sound rows, and what
\* a team has paid never shrinks.
LEMMA EnforcementStep ==
    /\ TypeOK /\ StagesInv /\ CreatedInv /\ RowsInv /\ EnforcementJustified
    /\ [Next]_vars
    => EnforcementJustified'
<1> DEFINE Paid(c, tm, pd, t, m) ==
        CostUnder(c, {x \in Requests : c[x] > 0 /\ tm[x] = t /\ pd[x] = m})
    \* q may be where it is in the state with these values of the variables.
           Justified(p, c, tm, pd, q) ==
        /\ p[q] = "rejected" => Paid(c, tm, pd, tm[q], pd[q]) >= Amount[tm[q]]
        /\ p[q] = "downgraded" => Paid(c, tm, pd, tm[q], pd[q]) >= SoftLimit[tm[q]]
<1> SUFFICES ASSUME TypeOK, StagesInv, CreatedInv, RowsInv, EnforcementJustified,
                    [Next]_vars, NEW q \in Requests, pc'[q] \in {"rejected", "downgraded"}
             PROVE  Justified(pc', cost', team', period', q)
    BY DEF EnforcementJustified, CostOf, PaidBy
<1>1. /\ Justified(pc, cost, team, period, q)
      /\ pc[q] \in {"rejected", "downgraded"} => team[q] \in Budgeted
    BY DEF EnforcementJustified, CostOf, PaidBy, StagesInv
<1>2. /\ Paid(cost, team, period, team[q], period[q]) \in Nat
      /\ Paid(cost', team', period', team[q], period[q]) \in Nat
      /\ Paid(cost, team, period, team[q], period[q])
            <= Paid(cost', team', period', team[q], period[q])
  <2>1. /\ IsFiniteSet({x \in Requests : cost[x] > 0 /\ team[x] = team[q] /\ period[x] = period[q]})
        /\ IsFiniteSet({x \in Requests : cost'[x] > 0 /\ team'[x] = team[q] /\ period'[x] = period[q]})
    BY RequestsAssumption, FS_Subset
  <2> QED BY <2>1, CostIsNat, PaidGrows
<1>3. ASSUME NEW r \in Requests, Arrive(r) \/ Complete(r)
      PROVE  UNCHANGED <<pc[q], team[q], period[q]>>
    BY <1>3 DEF Arrive, Complete, Goto, TypeOK
<1>4. ASSUME NEW r \in Requests,
             \/ SelectNone(r) \/ SelectMany(r) \/ CreateUsage(r) \/ CallFails(r)
             \/ LoadUsage(r) \/ LoadNothing(r) \/ CommitSpend(r) \/ CommitOverflows(r)
             \/ DatabaseError(r) \/ Crash(r)
      PROVE  UNCHANGED <<pc[q], team[q], period[q]>>
    BY <1>4 DEF SelectNone, SelectMany, CreateUsage, CallFails, LoadUsage, LoadNothing,
        CommitSpend, CommitOverflows, DatabaseError, Crash, Goto, TypeOK
<1>5. ASSUME NEW r \in Requests, SelectOne(r) \/ RefreshUsage(r), r # q
      PROVE  UNCHANGED <<pc[q], team[q], period[q]>>
    BY <1>5 DEF SelectOne, RefreshUsage, Goto, TypeOK
<1>6. ASSUME NextMonth \/ UNCHANGED vars
      PROVE  UNCHANGED <<pc[q], team[q], period[q]>>
    BY <1>6 DEF NextMonth, vars
<1>7. CASE UNCHANGED <<pc[q], team[q], period[q]>>
  <2>1. Amount[team[q]] \in Nat /\ SoftLimit[team[q]] \in Nat
    BY <1>1, <1>7, BudgetAssumption
  <2> HIDE DEF Paid
  <2> QED BY <1>1, <1>2, <1>7, <2>1
<1>8. CASE SelectOne(q) \/ RefreshUsage(q)
  <2>1. PICK id \in DOMAIN usages :
            /\ usages[id].budget = team[q] /\ usages[id].period = period[q]
            /\ pc'[q] = Verdict(usages[id])
    BY <1>8 DEF SelectOne, RefreshUsage, MatchingRows, CreatedInv, Goto, TypeOK
  <2>2. team[q] \in Budgeted
    BY <1>8 DEF SelectOne, RefreshUsage, StagesInv, Deciding
  <2>3. /\ pc'[q] = "rejected"
            => Paid(cost, team, period, team[q], period[q]) >= Amount[team[q]]
        /\ pc'[q] = "downgraded"
            => Paid(cost, team, period, team[q], period[q]) >= SoftLimit[team[q]]
    BY <2>1, <2>2, VerdictBacked DEF PaidBy
  <2>4. UNCHANGED <<cost, team, period>>
    BY <1>8 DEF SelectOne, RefreshUsage
  <2> QED BY <2>3, <2>4
<1> QED BY <1>3, <1>4, <1>5, <1>6, <1>7, <1>8
        DEF Next, HandlerStep, CallReturns, Quiescent

-----------------------------------------------------------------------------
(* The theorems.                                                           *)

\* The invariant holds before the first call.
LEMMA IInvInit == Init => IInv
<1> SUFFICES ASSUME Init PROVE IInv
    OBVIOUS
<1>1. TypeOK
    BY TypeInit
<1>2. DOMAIN usages = {}
    BY DEF Init
<1> QED BY <1>1, <1>2 DEF Init, IInv, StagesInv, CreatedInv, RowsInv, HeldInv,
        EnforcementJustified, Deciding, Calling, Recording

\* Every step keeps the invariant.
LEMMA IInvStep == IInv /\ [Next]_vars => IInv'
BY TypeStep, StagesStep, CreatedStep, RowsStep, HeldStep, EnforcementStep DEF IInv

\* The invariant implies the two properties about money.
LEMMA IInvSafe == IInv => NeverOvercharged /\ EnforcementJustified
<1> SUFFICES ASSUME IInv PROVE NeverOvercharged
    BY DEF IInv
<1>1. ASSUME NEW id \in DOMAIN usages
      PROVE  /\ usages[id].spent = CostOf(usages[id].entries)
             /\ usages[id].request_count = Cardinality(usages[id].entries)
             /\ usages[id].entries \subseteq PaidBy(usages[id].budget, usages[id].period)
  <2>1. Sound(id, usages[id]) /\ usages[id].entries \subseteq Requests
    BY DEF IInv, RowsInv, TypeOK, Usage
  <2> QED BY <2>1 DEF Sound, PaidBy
<1>2. ASSUME NEW i \in DOMAIN usages, NEW j \in DOMAIN usages, i # j
      PROVE  usages[i].entries \cap usages[j].entries = {}
    BY <1>2 DEF IInv, RowsInv, Sound
<1> QED BY <1>1, <1>2 DEF NeverOvercharged

\* However many calls overlap, whatever fails, and however stale the objects are
\* that handlers write back, the figures of a usage row are the exact cost and
\* number of some of its team's completions of its month, each in one row only.
THEOREM NoOvercharge == Spec => []NeverOvercharged
BY IInvInit, IInvStep, IInvSafe, PTL DEF Spec

\* A team is rejected only when its completions of the month have really cost the
\* amount of its budget, and downgraded only when they have cost the soft limit.
THEOREM EnforcementIsJustified == Spec => []EnforcementJustified
BY IInvInit, IInvStep, IInvSafe, PTL DEF Spec

-----------------------------------------------------------------------------
(* One call after the other.                                               *)

\* The steps of a handler that neither enters nor changes a row.
ReadingStep(r) ==
    \/ SelectNone(r) \/ SelectOne(r) \/ SelectMany(r) \/ RefreshUsage(r) \/ LoadUsage(r)
    \/ LoadNothing(r) \/ CommitOverflows(r) \/ CallFails(r) \/ DatabaseError(r) \/ Crash(r)

\* They change neither the table nor what the call is.
LEMMA ReadingFrame ==
    ASSUME NEW r \in Requests, ReadingStep(r)
    PROVE  UNCHANGED <<month, usages, team, period, cost>>
BY DEF ReadingStep, SelectNone, SelectOne, SelectMany, RefreshUsage, LoadUsage, LoadNothing,
    CommitOverflows, CallFails, DatabaseError, Crash

\* Every step is the beginning of a handler, a step of a running one, or the calendar's.
LEMMA StepCases ==
    ASSUME [Next]_vars
    PROVE  \/ \E r \in Requests :
                Arrive(r) \/ Complete(r) \/ CreateUsage(r) \/ CommitSpend(r) \/ ReadingStep(r)
           \/ NextMonth
           \/ UNCHANGED vars
BY DEF Next, HandlerStep, CallReturns, ReadingStep, Quiescent

\* Only a handler that runs makes a step, or nobody runs when one begins; the others
\* stay where they are.
LEMMA OnlyOneMoves ==
    ASSUME TypeOK, MaxInFlight = 1, NEW r \in Requests,
           Arrive(r) \/ Complete(r) \/ CreateUsage(r) \/ CommitSpend(r) \/ ReadingStep(r)
    PROVE  /\ \/ pc[r] \in InFlight
              \/ \A q \in Requests : pc[q] \notin InFlight
           /\ \A q \in Requests \ {r} : pc'[q] = pc[q]
<1>1. CASE Arrive(r)
  <2> DEFINE F == {q \in Requests : pc[q] \in InFlight}
  <2>1. IsFiniteSet(F)
    BY RequestsAssumption, FS_Subset
  <2>2. Cardinality(F) \in Nat /\ Cardinality(F) < 1
    BY <1>1, <2>1, FS_CardinalityType DEF Arrive
  <2>3. F = {}
    BY <2>1, <2>2, FS_EmptySet
  <2> QED BY <1>1, <2>3 DEF Arrive, Goto, TypeOK
<1>2. CASE Complete(r) \/ CreateUsage(r) \/ CommitSpend(r) \/ ReadingStep(r)
    BY <1>2 DEF Complete, CreateUsage, CommitSpend, ReadingStep, SelectNone, SelectOne,
        SelectMany, RefreshUsage, LoadUsage, LoadNothing, CommitOverflows, CallFails,
        DatabaseError, Crash, Goto, TypeOK, InFlight, Deciding, Calling, Recording
<1> QED BY <1>1, <1>2

\* If the clients wait for one answer before they make the next call, one handler runs.
LEMMA AloneStep == MaxInFlight = 1 /\ TypeOK /\ AloneInv /\ [Next]_vars => AloneInv'
<1> SUFFICES ASSUME MaxInFlight = 1, TypeOK, AloneInv, [Next]_vars PROVE AloneInv'
    OBVIOUS
<1>1. ASSUME NEW r \in Requests,
             Arrive(r) \/ Complete(r) \/ CreateUsage(r) \/ CommitSpend(r) \/ ReadingStep(r)
      PROVE  AloneInv'
  <2>1. \A q \in Requests \ {r} : pc'[q] \in InFlight => FALSE
    BY <1>1, OnlyOneMoves DEF AloneInv
  <2> QED BY <2>1 DEF AloneInv
<1>2. CASE NextMonth
    BY <1>2 DEF NextMonth, AloneInv
<1>3. CASE UNCHANGED vars
    BY <1>3 DEF vars, AloneInv
<1> QED BY <1>1, <1>2, <1>3, StepCases

\* Nobody gets ahead of the calendar.
LEMMA CalendarStep == IInv /\ CalendarInv /\ [Next]_vars => CalendarInv'
<1> SUFFICES ASSUME IInv, CalendarInv, [Next]_vars PROVE CalendarInv'
    OBVIOUS
<1> USE DEF CalendarInv
<1>1. TypeOK /\ month \in Nat /\ MaxMonth \in Nat
    BY BoundAssumption DEF IInv, TypeOK, Months
<1>2. ASSUME NEW r \in Requests, Arrive(r) \/ Complete(r) PROVE CalendarInv'
    BY <1>1, <1>2 DEF Arrive, Complete, TypeOK
<1>3. ASSUME NEW r \in Requests, CreateUsage(r) PROVE CalendarInv'
  <2>1. team[r] \in Budgeted
    BY <1>3 DEF CreateUsage, IInv, StagesInv, Deciding
  <2> QED BY <1>1, <1>3, <2>1 DEF CreateUsage, NewUsage, TypeOK
<1>4. ASSUME NEW r \in Requests, CommitSpend(r) PROVE CalendarInv'
  <2>1. UNCHANGED <<month, period>> /\ DOMAIN usages' = DOMAIN usages
    BY <1>1, <1>4 DEF CommitSpend, TypeOK
  <2>2. \A id \in DOMAIN usages : usages'[id].budget = usages[id].budget
                                /\ usages'[id].period = usages[id].period
    BY RowsKept DEF IInv
  <2> QED BY <2>1, <2>2
<1>5. ASSUME NEW r \in Requests, ReadingStep(r) PROVE CalendarInv'
    BY <1>5, ReadingFrame
<1>6. CASE NextMonth
  <2>1. \A r \in Requests : period[r] \in Nat
    BY <1>1 DEF TypeOK, Months
  <2>2. \A id \in DOMAIN usages : usages[id].period \in Nat
    BY <1>1 DEF TypeOK, Usage, Months
  <2> QED BY <1>1, <1>6, <2>1, <2>2 DEF NextMonth
<1>7. CASE UNCHANGED vars
    BY <1>7 DEF vars
<1> QED BY <1>2, <1>3, <1>4, <1>5, <1>6, <1>7, StepCases

\* A handler about to insert a row is the only one that could, and an object stays what
\* the row is, for nobody else writes it.
LEMMA FreshStep ==
    MaxInFlight = 1 /\ IInv /\ AloneInv /\ FreshInv /\ [Next]_vars => FreshInv'
<1> SUFFICES ASSUME MaxInFlight = 1, IInv, AloneInv, FreshInv, [Next]_vars PROVE FreshInv'
    OBVIOUS
<1>1. TypeOK
    BY DEF IInv
<1>2. ASSUME NEW r \in Requests,
             Arrive(r) \/ Complete(r) \/ CreateUsage(r) \/ CommitSpend(r) \/ ReadingStep(r)
      PROVE  FreshInv'
  <2>1. \A q \in Requests \ {r} : pc'[q] \notin {"creating", "committing"}
    BY <1>1, <1>2, OnlyOneMoves DEF AloneInv, InFlight, Deciding, Recording
  <2>2. pc'[r] = "creating" => SelectNone(r)
    BY <1>1, <1>2, VerdictType DEF Arrive, Complete, CreateUsage, CommitSpend, ReadingStep,
        SelectOne, SelectMany, RefreshUsage, LoadUsage, LoadNothing, CommitOverflows, CallFails,
        DatabaseError, Crash, Goto, TypeOK
  <2>3. pc'[r] = "committing" => LoadUsage(r)
    BY <1>1, <1>2, VerdictType DEF Arrive, Complete, CreateUsage, CommitSpend, ReadingStep,
        SelectNone, SelectOne, SelectMany, RefreshUsage, LoadNothing, CommitOverflows, CallFails,
        DatabaseError, Crash, Goto, TypeOK
  <2>4. SelectNone(r) => MatchingRows(team[r], period[r])' = {}
    BY DEF SelectNone, MatchingRows
  <2>5. LoadUsage(r) => held'[r] = usages'[row'[r]]
    BY <1>1 DEF LoadUsage, TypeOK
  <2> QED BY <2>1, <2>2, <2>3, <2>4, <2>5 DEF FreshInv
<1>3. CASE NextMonth
    BY <1>3 DEF NextMonth, FreshInv, MatchingRows
<1>4. CASE UNCHANGED vars
    BY <1>4 DEF vars, FreshInv, MatchingRows
<1> QED BY <1>2, <1>3, <1>4, StepCases

\* No second row is inserted.
LEMMA OneRowStep ==
    IInv /\ FreshInv /\ OneUsageRow /\ [Next]_vars => OneUsageRow'
<1> SUFFICES ASSUME IInv, FreshInv, OneUsageRow, [Next]_vars PROVE OneUsageRow'
    OBVIOUS
<1> USE DEF OneUsageRow
<1>1. TypeOK
    BY DEF IInv
<1>2. ASSUME DOMAIN usages' = DOMAIN usages PROVE OneUsageRow'
    BY <1>2, RowsKept DEF IInv
<1>3. ASSUME NEW r \in Requests, CreateUsage(r) PROVE OneUsageRow'
  <2>1. MatchingRows(team[r], period[r]) = {}
    BY <1>3 DEF CreateUsage, FreshInv
  <2>2. /\ usages'[r].budget = team[r] /\ usages'[r].period = period[r]
        /\ DOMAIN usages' = DOMAIN usages \cup {r}
        /\ \A id \in DOMAIN usages \ {r} : usages'[id] = usages[id]
    BY <1>1, <1>3 DEF CreateUsage, NewUsage, TypeOK
  <2> QED BY <2>1, <2>2 DEF MatchingRows
<1>4. ASSUME NEW r \in Requests,
             Arrive(r) \/ Complete(r) \/ CommitSpend(r) \/ ReadingStep(r)
      PROVE  DOMAIN usages' = DOMAIN usages
    BY <1>1, <1>4, ReadingFrame DEF Arrive, Complete, CommitSpend, TypeOK
<1>5. ASSUME NextMonth \/ UNCHANGED vars PROVE DOMAIN usages' = DOMAIN usages
    BY <1>5 DEF NextMonth, vars
<1> QED BY <1>2, <1>3, <1>4, <1>5, StepCases

\* With one row a month, what the query finds for the team and month of a row is the row.
LEMMA TheRow ==
    ASSUME OneUsageRow, NEW id \in DOMAIN usages
    PROVE  MatchingRows(usages[id].budget, usages[id].period) = {id}
BY DEF OneUsageRow, MatchingRows

\* A verdict that lets a call through was taken on a row with room.
LEMMA VerdictHasRoom ==
    ASSUME TypeOK, NEW id \in DOMAIN usages, usages[id].budget \in Budgeted,
           Verdict(usages[id]) \in Calling
    PROVE  usages[id].spent < Amount[usages[id].budget]
<1>1. usages[id].spent \in Nat /\ Amount[usages[id].budget] \in Nat
    BY BudgetAssumption, BoundAssumption DEF TypeOK, Usage
<1> QED BY <1>1 DEF Verdict, Calling

\* Whoever is let through has room in the row it will be billed to, because the room it
\* was promised cannot be taken by another, and a later month has no row yet.
LEMMA RoomStep ==
    MaxInFlight = 1 /\ IInv /\ AloneInv /\ CalendarInv /\ RoomInv /\ OneUsageRow /\ [Next]_vars
        => RoomInv'
<1> SUFFICES ASSUME MaxInFlight = 1, IInv, AloneInv, CalendarInv, RoomInv, OneUsageRow,
                    [Next]_vars
             PROVE  RoomInv'
    OBVIOUS
<1>1. TypeOK
    BY DEF IInv
<1>2. /\ \A q \in Requests : period[q] \in Nat
      /\ \A id \in DOMAIN usages : usages[id].period \in Nat
      /\ month \in Nat
    BY <1>1, BoundAssumption DEF TypeOK, Usage, Months
<1>3. ASSUME NEW r \in Requests,
             Arrive(r) \/ Complete(r) \/ CreateUsage(r) \/ CommitSpend(r) \/ ReadingStep(r)
      PROVE  RoomInv'
  <2>1. \A q \in Requests \ {r} : pc'[q] \notin InFlight
    BY <1>1, <1>3, OnlyOneMoves DEF AloneInv
  <2>2. SUFFICES ASSUME NEW id \in DOMAIN usages'
                 PROVE  /\ pc'[r] \in Deciding \cup Calling => usages'[id].period <= period'[r]
                        /\ /\ FALSE \notin Enforcement
                           /\ pc'[r] \in Calling \cup Recording
                           /\ usages'[id].budget = team'[r] /\ usages'[id].period = period'[r]
                           => usages'[id].spent < Amount[team'[r]]
    BY <2>1 DEF RoomInv, InFlight
  <2> USE DEF Deciding, Calling, Recording
  <2>3. CASE Arrive(r)
    <3>1. UNCHANGED <<usages, team>> /\ period'[r] = month
        BY <1>1, <2>3 DEF Arrive, TypeOK
    <3>2. usages[id].period <= month
        BY <3>1 DEF CalendarInv
    <3>3. /\ pc'[r] \in {"selecting", "admitted"}
          /\ FALSE \notin Enforcement /\ team[r] \in Budgeted => pc'[r] = "selecting"
        BY <1>1, <2>3, BudgetAssumption DEF Arrive, Goto, TypeOK
    <3>4. usages[id].budget \in Budgeted
        BY <3>1 DEF CalendarInv
    <3> QED BY <3>1, <3>2, <3>3, <3>4
  <2>4. CASE Complete(r)
    <3>1. UNCHANGED <<usages, team>> /\ period'[r] = month /\ pc[r] \in Calling
        BY <1>1, <2>4 DEF Complete, TypeOK
    <3>2. pc'[r] \in {"recording", "served"}
        BY <1>1, <2>4 DEF Complete, Goto, TypeOK
    <3>3. usages[id].period <= period[r] /\ period[r] <= month
        BY <3>1 DEF RoomInv, CalendarInv
    <3>4. ASSUME FALSE \notin Enforcement, usages[id].budget = team[r], usages[id].period = month
          PROVE  usages[id].spent < Amount[team[r]]
      <4>1. id \in DOMAIN usages /\ pc[r] \in Calling
        BY <3>1
      <4>2. usages[id].period = period[r]
        BY <1>2, <3>3, <3>4, <4>1
      <4> HIDE DEF Deciding, Calling, Recording
      <4> QED BY <3>4, <4>1, <4>2 DEF RoomInv
    <3>5. usages' = usages /\ team' = team
        BY <3>1
    <3>6. pc'[r] \notin Deciding \cup Calling
        BY <3>2
    <3> HIDE DEF Deciding, Calling, Recording
    <3> QED BY <3>1, <3>4, <3>5, <3>6
  <2>5. CASE CreateUsage(r)
    <3>1. /\ pc[r] = "creating" /\ pc'[r] = "refreshing"
          /\ UNCHANGED <<team, period>>
        BY <1>1, <2>5 DEF CreateUsage, Goto, TypeOK
    <3>2. usages'[id].period <= period[r]
      <4>1. CASE id = r
        BY <1>1, <1>2, <2>5, <4>1 DEF CreateUsage, NewUsage
      <4>2. CASE id # r
        <5>1. id \in DOMAIN usages /\ usages'[id] = usages[id]
            BY <2>5, <4>2 DEF CreateUsage
        <5> QED BY <3>1, <5>1 DEF RoomInv
      <4> QED BY <4>1, <4>2
    <3> QED BY <3>1, <3>2
  <2>6. CASE CommitSpend(r)
    BY <1>1, <2>6 DEF CommitSpend, Goto, TypeOK
  <2>7. CASE ReadingStep(r)
    <3>1. UNCHANGED <<usages, team, period>>
        BY <2>7, ReadingFrame
    <3>2. CASE pc'[r] \in Calling
      <4> DEFINE Decided(i) ==
            /\ MatchingRows(team[r], period[r]) = {i} /\ pc'[r] = Verdict(usages[i])
            /\ usages[i].budget = team[r] /\ usages[i].period = period[r]
            /\ pc[r] \in Deciding
      <4>1. PICK i \in DOMAIN usages : Decided(i)
        <5>1. ASSUME SelectOne(r) PROVE \E i \in DOMAIN usages : Decided(i)
            BY <1>1, <5>1 DEF SelectOne, MatchingRows, Goto, TypeOK
        <5>2. ASSUME RefreshUsage(r) PROVE \E i \in DOMAIN usages : Decided(i)
          <6>1. /\ r \in DOMAIN usages /\ pc'[r] = Verdict(usages[r]) /\ pc[r] = "refreshing"
                /\ usages[r].budget = team[r] /\ usages[r].period = period[r]
            BY <1>1, <5>2 DEF RefreshUsage, Goto, TypeOK, IInv, CreatedInv
          <6> QED BY <6>1, TheRow
        <5> QED BY <1>1, <2>7, <3>2, <5>1, <5>2 DEF ReadingStep, SelectNone, SelectMany, LoadUsage,
                LoadNothing, CommitOverflows, CallFails, DatabaseError, Crash, Goto, TypeOK
      <4>2. usages[i].spent < Amount[usages[i].budget]
        BY <1>1, <3>2, <4>1, VerdictHasRoom DEF CalendarInv
      <4>3. ASSUME usages[id].budget = team[r], usages[id].period = period[r] PROVE id = i
        BY <3>1, <4>1, <4>3 DEF MatchingRows
      <4>4. usages[id].period <= period[r]
        BY <3>1, <4>1 DEF RoomInv
      <4> QED BY <3>1, <3>2, <4>1, <4>2, <4>3, <4>4
    <3>3. CASE pc'[r] \in Recording
      <4>1. pc[r] \in Recording
        BY <1>1, <2>7, <3>3, VerdictType DEF ReadingStep, SelectNone, SelectOne, SelectMany,
            RefreshUsage, LoadUsage, LoadNothing, CommitOverflows, CallFails, DatabaseError,
            Crash, Goto, TypeOK
      <4> QED BY <3>1, <3>3, <4>1 DEF RoomInv
    <3>4. CASE pc'[r] \in Deciding
      <4>1. pc[r] \in Deciding
        BY <1>1, <2>7, <3>4, VerdictType DEF ReadingStep, SelectNone, SelectOne, SelectMany,
            RefreshUsage, LoadUsage, LoadNothing, CommitOverflows, CallFails, DatabaseError,
            Crash, Goto, TypeOK
      <4> QED BY <3>1, <3>4, <4>1 DEF RoomInv
    <3> QED BY <3>2, <3>3, <3>4
  <2> QED BY <1>3, <2>3, <2>4, <2>5, <2>6, <2>7
<1>4. CASE NextMonth
    BY <1>4 DEF NextMonth, RoomInv
<1>5. CASE UNCHANGED vars
    BY <1>5 DEF vars, RoomInv
<1> QED BY <1>3, <1>4, <1>5, StepCases

\* A row with room takes one more call, no more than MaxCost beyond the amount.
LEMMA OvershootStep ==
    /\ MaxCost > 0 /\ FALSE \notin Enforcement
    /\ IInv /\ CalendarInv /\ FreshInv /\ RoomInv /\ OvershootBounded /\ [Next]_vars
    => OvershootBounded'
<1> SUFFICES ASSUME MaxCost > 0, FALSE \notin Enforcement, IInv, CalendarInv, FreshInv, RoomInv,
                    OvershootBounded, [Next]_vars
             PROVE  OvershootBounded'
    OBVIOUS
<1> USE DEF OvershootBounded
<1>1. TypeOK
    BY DEF IInv
<1>2. ASSUME NEW r \in Requests, CreateUsage(r) PROVE OvershootBounded'
  <2>1. usages'[r].budget = team[r] /\ usages'[r].spent = 0
    BY <1>2 DEF CreateUsage, NewUsage
  <2>2. Amount[team[r]] \in Nat
    BY <1>2, BudgetAssumption DEF CreateUsage, IInv, StagesInv, Deciding
  <2>3. 0 < Amount[team[r]] + MaxCost
    BY <2>2, BoundAssumption
  <2>4. \A id \in DOMAIN usages' \ {r} : id \in DOMAIN usages /\ usages'[id] = usages[id]
    BY <1>2 DEF CreateUsage
  <2> QED BY <2>1, <2>3, <2>4
<1>3. ASSUME NEW r \in Requests, CommitSpend(r) PROVE OvershootBounded'
  <2>1. /\ row[r] \in DOMAIN usages /\ held[r] = usages[row[r]] /\ pc[r] = "committing"
        /\ usages[row[r]].budget = team[r] /\ usages[row[r]].period = period[r]
    BY <1>3 DEF CommitSpend, IInv, HeldInv, FreshInv
  <2>2. usages[row[r]].spent < Amount[team[r]]
    BY <2>1 DEF RoomInv, Recording
  <2>3. /\ usages'[row[r]].spent = usages[row[r]].spent + cost[r]
        /\ usages'[row[r]].budget = team[r]
    BY <1>1, <1>3, <2>1, ChargedType DEF CommitSpend, TypeOK
  <2>4. /\ usages[row[r]].spent \in Nat /\ cost[r] \in Nat /\ cost[r] <= MaxCost
        /\ Amount[team[r]] \in Nat
    BY <1>1, <2>1, BoundAssumption, BudgetAssumption DEF TypeOK, Usage, CalendarInv
  <2>5. usages'[row[r]].spent < Amount[team[r]] + MaxCost
    BY <2>2, <2>3, <2>4, BoundAssumption
  <2>6. \A id \in DOMAIN usages' \ {row[r]} : id \in DOMAIN usages /\ usages'[id] = usages[id]
    BY <1>1, <1>3 DEF CommitSpend, TypeOK
  <2> QED BY <2>3, <2>5, <2>6
<1>4. ASSUME NEW r \in Requests, Arrive(r) \/ Complete(r) \/ ReadingStep(r)
      PROVE  OvershootBounded'
    BY <1>4, ReadingFrame DEF Arrive, Complete
<1>5. ASSUME NextMonth \/ UNCHANGED vars PROVE OvershootBounded'
    BY <1>5 DEF NextMonth, vars
<1> QED BY <1>2, <1>3, <1>4, <1>5, StepCases

\* The invariant of one call after the other.
LEMMA SequentialHolds ==
    ASSUME MaxInFlight = 1
    PROVE  Spec => []SequentialInv
<1>1. Init => SequentialInv
  <2> SUFFICES ASSUME Init PROVE SequentialInv
    OBVIOUS
  <2>1. DOMAIN usages = {}
    BY DEF Init
  <2>2. \A r \in Requests : pc[r] = "idle" /\ period[r] = 1 /\ month = 1
    BY DEF Init
  <2> QED BY <2>1, <2>2, IInvInit DEF SequentialInv, AloneInv, CalendarInv, FreshInv, RoomInv,
        OneUsageRow, InFlight, Deciding, Calling, Recording
<1>2. SequentialInv /\ [Next]_vars => SequentialInv'
  <2>1. IInv => TypeOK
    BY DEF IInv
  <2> QED BY <2>1, IInvStep, AloneStep, CalendarStep, FreshStep, RoomStep, OneRowStep
        DEF SequentialInv
<1> QED BY <1>1, <1>2, PTL DEF Spec

\* If the clients make one call after the other, whatever fails, get_or_create_usage keeps
\* one row per budget and month (so the two scalar_one_or_none never raise).
THEOREM OneRowWhenSequential ==
    ASSUME MaxInFlight = 1
    PROVE  Spec => []OneUsageRow
<1>1. SequentialInv => OneUsageRow
    BY DEF SequentialInv
<1> QED BY <1>1, SequentialHolds, PTL

\* And what a row says was spent passes the amount by less than one call.
THEOREM OvershootWhenSequential ==
    ASSUME MaxInFlight = 1, MaxCost > 0, FALSE \notin Enforcement
    PROVE  Spec => []OvershootBounded
<1>1. Init => OvershootBounded
    BY DEF Init, OvershootBounded
<1>2. SequentialInv /\ OvershootBounded /\ [Next]_vars => OvershootBounded'
    BY OvershootStep DEF SequentialInv
<1> QED BY <1>1, <1>2, SequentialHolds, PTL DEF Spec

-----------------------------------------------------------------------------
(* Calls that do not overlap implement the ledger.                         *)

\* The balance of an account is what its row says; without a row it is nothing.
LEMMA RecordedIsRow ==
    ASSUME TypeOK, OneUsageRow, NEW t, NEW m
    PROVE  /\ \A id \in DOMAIN usages :
                usages[id].budget = t /\ usages[id].period = m => Recorded(t, m) = usages[id].spent
           /\ MatchingRows(t, m) = {} => Recorded(t, m) = 0
           /\ Recorded(t, m) \in 0..MaxSpent
<1>1. ASSUME NEW id \in DOMAIN usages, usages[id].budget = t, usages[id].period = m
      PROVE  Recorded(t, m) = usages[id].spent
  <2>1. MatchingRows(t, m) = {id}
    BY <1>1, TheRow
  <2> QED BY <2>1 DEF Recorded
<1>2. MatchingRows(t, m) = {} => Recorded(t, m) = 0
    BY DEF Recorded
<1>3. Recorded(t, m) \in 0..MaxSpent
  <2>1. CASE MatchingRows(t, m) = {}
    BY <1>2, <2>1, BoundAssumption
  <2>2. CASE MatchingRows(t, m) # {}
    BY <1>1, <2>2 DEF MatchingRows, TypeOK, Usage
  <2> QED BY <2>1, <2>2
<1> QED BY <1>1, <1>2, <1>3

\* How far a call is, for the ledger.
LEMMA StatusTable ==
    /\ StatusOf("idle") = "new"
    /\ \A l \in Deciding : StatusOf(l) = "open"
    /\ \A l \in Calling : StatusOf(l) = "granted"
    /\ \A l \in Recording : StatusOf(l) = "billed"
    /\ \A l \in Answered : StatusOf(l) = "closed"
BY DEF StatusOf, Deciding, Calling, Recording, Answered

\* Nothing is spent and nobody has called.
LEMMA LedgerInit == Init => Account!Init
<1> SUFFICES ASSUME Init PROVE Account!Init
    OBVIOUS
<1>1. \A t, m : MatchingRows(t, m) = {}
    BY DEF Init, MatchingRows
<1>2. [t \in Teams |-> [m \in Months |-> Recorded(t, m)]] = [t \in Teams |-> [m \in 1..MaxMonth |-> 0]]
    BY <1>1 DEF Recorded, Months
<1>3. [r \in Requests |-> StatusOf(pc[r])] = [r \in Requests |-> "new"]
    BY StatusTable DEF Init
<1> QED BY <1>2, <1>3 DEF Init, Account!Init

\* Where the calls are, and the balances, as the ledger sees them.
Standing == [r \in Requests |-> StatusOf(pc[r])]
Balances == [t \in Teams |-> [m \in Months |-> Recorded(t, m)]]

\* A handler that goes to l moves its call to what l stands for.
LEMMA StandingMoves ==
    ASSUME TypeOK, NEW r \in Requests, NEW l, Goto(r, l)
    PROVE  Standing' = [Standing EXCEPT ![r] = StatusOf(l)]
BY DEF Standing, Goto, TypeOK

\* Without a write the balances stay.
LEMMA BalancesStay ==
    ASSUME usages' = usages
    PROVE  Balances' = Balances
BY DEF Balances, Recorded, MatchingRows

\* A call is opened.
LEMMA ArriveOpens ==
    ASSUME FALSE \notin Enforcement, TypeOK, NEW r \in Requests, Arrive(r)
    PROVE  Account!Open(r)
<1> DEFINE l == IF team[r] \in Budgeted THEN "selecting" ELSE "admitted"
<1>1. pc[r] = "idle" /\ Goto(r, l) /\ period' = [period EXCEPT ![r] = month]
        /\ UNCHANGED <<month, usages, team, cost>>
  <2>1. PICK enforced \in Enforcement :
            Goto(r, IF enforced /\ team[r] \in Budgeted THEN "selecting" ELSE "admitted")
    BY DEF Arrive
  <2>2. enforced = TRUE
    BY <2>1, BudgetAssumption
  <2>3. Goto(r, l)
    BY <2>1, <2>2
  <2> QED BY <2>3 DEF Arrive
<1>2. Standing[r] = "new"
    BY <1>1, StatusTable DEF Standing
<1>3. StatusOf(l) = IF team[r] \in Budgeted THEN "open" ELSE "granted"
    BY StatusTable DEF Deciding, Calling
<1> HIDE DEF l
<1>4. Standing' = [Standing EXCEPT ![r] = IF team[r] \in Budgeted THEN "open" ELSE "granted"]
    BY <1>1, <1>3, StandingMoves
<1>5. Balances' = Balances
    BY <1>1, BalancesStay
<1> QED BY <1>1, <1>2, <1>4, <1>5 DEF Account!Open, Account!Move, Standing, Balances

\* The verdict on the row of a call is that on its account.
LEMMA VerdictMoves ==
    ASSUME SequentialInv, NEW r \in Requests, NEW id \in DOMAIN usages, pc[r] \in Deciding,
           usages[id].budget = team[r], usages[id].period = period[r],
           Goto(r, Verdict(usages[id])), UNCHANGED <<month, usages, team, period, cost>>
    PROVE  Account!Grant(r) \/ Account!Refuse(r)
<1>1. TypeOK /\ OneUsageRow
    BY DEF SequentialInv, IInv
<1>2. Standing[r] = "open"
    BY StatusTable DEF Standing
<1>3. Balances[team[r]][period[r]] = usages[id].spent
    BY <1>1, RecordedIsRow DEF Balances, TypeOK
<1>4. usages[id].spent \in Nat /\ Amount[team[r]] \in Nat
    BY <1>1, BudgetAssumption, BoundAssumption DEF TypeOK, Usage, SequentialInv, IInv, StagesInv
<1>5. Balances' = Balances
    BY BalancesStay
<1>6. Standing' = [Standing EXCEPT ![r] = StatusOf(Verdict(usages[id]))]
    BY <1>1, StandingMoves
<1>7. CASE usages[id].spent >= Amount[team[r]]
  <2>1. StatusOf(Verdict(usages[id])) = "closed"
    BY <1>7, StatusTable DEF Verdict, Answered
  <2> QED BY <1>2, <1>3, <1>5, <1>6, <1>7, <2>1
          DEF Account!Refuse, Account!Move, Account!Balance, Standing, Balances
<1>8. CASE usages[id].spent < Amount[team[r]]
  <2>1. Verdict(usages[id]) \in Calling
    BY <1>4, <1>8 DEF Verdict, Calling
  <2>2. StatusOf(Verdict(usages[id])) = "granted"
    BY <2>1, StatusTable
  <2> QED BY <1>2, <1>3, <1>5, <1>6, <1>8, <2>2
          DEF Account!Grant, Account!Move, Account!Balance, Standing, Balances
<1> QED BY <1>4, <1>7, <1>8

\* A completion is billed.
LEMMA CompleteBills ==
    ASSUME TypeOK, NEW r \in Requests, Complete(r)
    PROVE  Account!Bill(r)
<1>1. PICK c \in 0..MaxCost :
        /\ cost' = [cost EXCEPT ![r] = c]
        /\ Goto(r, IF c > 0 /\ team[r] \in Budgeted THEN "recording" ELSE "served")
    BY DEF Complete
<1>2. /\ pc[r] \in Calling /\ period' = [period EXCEPT ![r] = month]
      /\ UNCHANGED <<month, usages, team>>
    BY DEF Complete
<1>3. Standing[r] = "granted"
    BY <1>2, StatusTable DEF Standing
<1>4. StatusOf(IF c > 0 /\ team[r] \in Budgeted THEN "recording" ELSE "served")
        = IF c > 0 /\ team[r] \in Budgeted THEN "billed" ELSE "closed"
    BY StatusTable DEF Recording, Answered
<1>5. Standing' = [Standing EXCEPT ![r] = IF c > 0 /\ team[r] \in Budgeted THEN "billed" ELSE "closed"]
    BY <1>1, <1>4, StandingMoves
<1>6. Balances' = Balances
    BY <1>2, BalancesStay
<1> QED BY <1>1, <1>2, <1>3, <1>5, <1>6 DEF Account!Bill, Account!Move, Standing, Balances

\* The write of an object that is still what the row is posts the bill.
LEMMA CommitPosts ==
    ASSUME SequentialInv, NEW r \in Requests, CommitSpend(r)
    PROVE  Account!Post(r)
<1>1. TypeOK /\ OneUsageRow
    BY DEF SequentialInv, IInv
<1>2. /\ pc[r] = "committing" /\ Fits(held[r], r) /\ Goto(r, "served")
      /\ UNCHANGED <<month, team, period, cost>>
    BY DEF CommitSpend
<1>3. /\ row[r] \in DOMAIN usages /\ held[r] = usages[row[r]]
      /\ usages[row[r]].budget = team[r] /\ usages[row[r]].period = period[r]
    BY <1>2 DEF SequentialInv, IInv, HeldInv, FreshInv
<1>4. Standing[r] = "billed" /\ Standing' = [Standing EXCEPT ![r] = "closed"]
  <2>1. StatusOf("served") = "closed" /\ StatusOf("committing") = "billed"
    BY StatusTable DEF Answered, Recording
  <2> QED BY <1>1, <1>2, <2>1, StandingMoves DEF Standing
<1>5. Balances[team[r]][period[r]] = usages[row[r]].spent
    BY <1>1, <1>3, RecordedIsRow DEF Balances, TypeOK
<1>6. Balances[team[r]][period[r]] + cost[r] <= MaxSpent
    BY <1>2, <1>3, <1>5 DEF Fits
<1>7. /\ DOMAIN usages' = DOMAIN usages
      /\ usages'[row[r]].budget = team[r] /\ usages'[row[r]].period = period[r]
      /\ usages'[row[r]].spent = usages[row[r]].spent + cost[r]
      /\ \A id \in DOMAIN usages \ {row[r]} : usages'[id] = usages[id]
    BY <1>1, <1>2, <1>3, ChargedType DEF CommitSpend, TypeOK
<1>8. ASSUME NEW t \in Teams, NEW m \in Months
      PROVE  Recorded(t, m)' = IF t = team[r] /\ m = period[r] THEN Recorded(t, m) + cost[r]
                               ELSE Recorded(t, m)
  <2>1. MatchingRows(t, m)' = MatchingRows(t, m)
    BY <1>3, <1>7 DEF MatchingRows
  <2>2. CASE t = team[r] /\ m = period[r]
    <3>1. MatchingRows(t, m) = {row[r]}
        BY <1>1, <1>3, <2>2, TheRow
    <3> QED BY <1>7, <2>1, <2>2, <3>1 DEF Recorded
  <2>3. CASE ~(t = team[r] /\ m = period[r])
    <3>1. row[r] \notin MatchingRows(t, m) /\ MatchingRows(t, m) \subseteq DOMAIN usages
        BY <1>3, <2>3 DEF MatchingRows
    <3>2. CASE MatchingRows(t, m) = {}
        BY <2>1, <2>3, <3>2 DEF Recorded
    <3>3. CASE MatchingRows(t, m) # {}
        BY <1>7, <2>1, <2>3, <3>1, <3>3 DEF Recorded
    <3> QED BY <3>2, <3>3
  <2> QED BY <2>2, <2>3
<1>9. Balances' = [Balances EXCEPT ![team[r]][period[r]] = @ + cost[r]]
  <2>1. team[r] \in Teams /\ period[r] \in Months
    BY <1>1 DEF TypeOK
  <2>2. Balances' = [t \in Teams |-> [m \in Months |->
            IF t = team[r] /\ m = period[r] THEN Recorded(t, m) + cost[r] ELSE Recorded(t, m)]]
    BY <1>8 DEF Balances
  <2> QED BY <2>1, <2>2 DEF Balances
<1> QED BY <1>2, <1>4, <1>6, <1>9
        DEF Account!Post, Account!Move, Account!Balance, Standing, Balances

\* A bill is not posted if the month has no row, or the figure does not fit.
LEMMA LostIsWrittenOff ==
    ASSUME SequentialInv, NEW r \in Requests, LoadNothing(r) \/ CommitOverflows(r)
    PROVE  Account!WriteOff(r)
<1>1. TypeOK /\ OneUsageRow
    BY DEF SequentialInv, IInv
<1>2. /\ pc[r] \in Recording /\ Goto(r, "served")
      /\ UNCHANGED <<month, usages, team, period, cost>>
    BY DEF LoadNothing, CommitOverflows, Recording
<1>3. Standing[r] = "billed" /\ Standing' = [Standing EXCEPT ![r] = "closed"]
  <2>1. StatusOf("served") = "closed" /\ StatusOf(pc[r]) = "billed"
    BY <1>2, StatusTable DEF Answered
  <2> QED BY <1>1, <1>2, <2>1, StandingMoves DEF Standing
<1>4. Balances' = Balances
    BY <1>2, BalancesStay
<1>5. Balances[team[r]][period[r]] = Recorded(team[r], period[r])
    BY <1>1 DEF Balances, TypeOK
<1>6. CASE LoadNothing(r)
  <2>1. MatchingRows(team[r], period[r]) = {}
    <3> SUFFICES ASSUME NEW id \in MatchingRows(team[r], period[r]) PROVE FALSE
        OBVIOUS
    <3>1. id \in DOMAIN usages /\ usages[id].budget = team[r] /\ usages[id].period = period[r]
        BY DEF MatchingRows
    <3>2. MatchingRows(team[r], period[r]) = {id}
        BY <1>1, <3>1, TheRow
    <3> QED BY <1>6, <3>1, <3>2 DEF LoadNothing
  <2>2. Balances[team[r]][period[r]] = 0
    BY <1>1, <1>5, <2>1, RecordedIsRow
  <2> QED BY <1>2, <1>3, <1>4, <2>2
          DEF Account!WriteOff, Account!Move, Account!Balance, Standing, Balances
<1>7. CASE CommitOverflows(r)
  <2>1. /\ row[r] \in DOMAIN usages /\ held[r] = usages[row[r]]
        /\ usages[row[r]].budget = team[r] /\ usages[row[r]].period = period[r]
    BY <1>7 DEF CommitOverflows, SequentialInv, IInv, HeldInv, FreshInv
  <2>2. Balances[team[r]][period[r]] = usages[row[r]].spent
    BY <1>1, <1>5, <2>1, RecordedIsRow
  <2>3. usages[row[r]].spent \in Nat /\ cost[r] \in Nat
    BY <1>1, <2>1, BoundAssumption DEF TypeOK, Usage
  <2>4. Balances[team[r]][period[r]] + cost[r] > MaxSpent
    BY <1>7, <2>1, <2>2, <2>3, BoundAssumption DEF CommitOverflows, Fits
  <2> QED BY <1>2, <1>3, <1>4, <2>4
          DEF Account!WriteOff, Account!Move, Account!Balance, Standing, Balances
<1> QED BY <1>6, <1>7

\* A failed call costs nothing.
LEMMA FailureCloses ==
    ASSUME TypeOK, NEW r \in Requests, CallFails(r)
    PROVE  Account!Fail(r)
<1>1. pc[r] \in Calling /\ Goto(r, "failed") /\ UNCHANGED <<month, usages, team, period, cost>>
    BY DEF CallFails
<1>2. StatusOf("failed") = "closed" /\ StatusOf(pc[r]) = "granted"
    BY <1>1, StatusTable DEF Answered
<1>3. Standing[r] = "granted" /\ Standing' = [Standing EXCEPT ![r] = "closed"]
    BY <1>1, <1>2, StandingMoves DEF Standing
<1>4. Balances' = Balances
    BY <1>1, BalancesStay
<1> QED BY <1>1, <1>3, <1>4 DEF Account!Fail, Account!Move, Standing, Balances

\* An empty row is as good as none, and to wait for the database is nothing to the ledger.
LEMMA WaitingIsUnseen ==
    ASSUME SequentialInv, NEW r \in Requests, SelectNone(r) \/ CreateUsage(r) \/ LoadUsage(r)
    PROVE  UNCHANGED Account!vars
<1>1. TypeOK /\ OneUsageRow
    BY DEF SequentialInv, IInv
<1>2. UNCHANGED <<month, team, period, cost>>
    BY DEF SelectNone, CreateUsage, LoadUsage
<1>3. PICK l : Goto(r, l) /\ StatusOf(l) = StatusOf(pc[r])
  <2>1. CASE SelectNone(r)
    BY <2>1, StatusTable DEF SelectNone, InFlight, Deciding
  <2>2. CASE CreateUsage(r)
    BY <2>2, StatusTable DEF CreateUsage, InFlight, Deciding
  <2>3. CASE LoadUsage(r)
    BY <2>3, StatusTable DEF LoadUsage, InFlight, Recording
  <2> QED BY <2>1, <2>2, <2>3
<1>4. Standing' = Standing
    BY <1>1, <1>3, StandingMoves DEF Standing
<1>5. Balances' = Balances
  <2>1. CASE SelectNone(r) \/ LoadUsage(r)
    BY <2>1, BalancesStay DEF SelectNone, LoadUsage
  <2>2. CASE CreateUsage(r)
    <3>1. MatchingRows(team[r], period[r]) = {} /\ r \notin DOMAIN usages
        BY <2>2 DEF CreateUsage, SequentialInv, FreshInv, IInv, CreatedInv
    <3>2. /\ DOMAIN usages' = DOMAIN usages \cup {r}
          /\ usages'[r].budget = team[r] /\ usages'[r].period = period[r] /\ usages'[r].spent = 0
          /\ \A id \in DOMAIN usages : usages'[id] = usages[id]
        BY <2>2, <3>1 DEF CreateUsage, NewUsage
    <3>3. ASSUME NEW t \in Teams, NEW m \in Months PROVE Recorded(t, m)' = Recorded(t, m)
      <4>1. CASE t = team[r] /\ m = period[r]
        <5>1. MatchingRows(t, m)' = {r}
            BY <3>1, <3>2, <4>1 DEF MatchingRows
        <5> QED BY <3>1, <3>2, <4>1, <5>1 DEF Recorded
      <4>2. CASE ~(t = team[r] /\ m = period[r])
        <5>1. MatchingRows(t, m)' = MatchingRows(t, m) /\ MatchingRows(t, m) \subseteq DOMAIN usages
            BY <3>2, <4>2 DEF MatchingRows
        <5>2. CASE MatchingRows(t, m) = {}
            BY <5>1, <5>2 DEF Recorded
        <5>3. CASE MatchingRows(t, m) # {}
            BY <3>2, <5>1, <5>3 DEF Recorded
        <5> QED BY <5>2, <5>3
      <4> QED BY <4>1, <4>2
    <3> QED BY <3>3 DEF Balances
  <2> QED BY <2>1, <2>2
<1> QED BY <1>2, <1>4, <1>5 DEF Account!vars, Standing, Balances

\* Where there is one row at most, the query does not find two.
LEMMA NeverMany ==
    ASSUME SequentialInv, NEW r \in Requests
    PROVE  ~SelectMany(r)
<1> SUFFICES ASSUME SelectMany(r) PROVE FALSE
    OBVIOUS
<1>1. OneUsageRow /\ Cardinality(MatchingRows(team[r], period[r])) > 1
    BY DEF SequentialInv, SelectMany
<1>2. CASE MatchingRows(team[r], period[r]) = {}
    BY <1>1, <1>2, FS_EmptySet
<1>3. ASSUME NEW id \in MatchingRows(team[r], period[r]) PROVE FALSE
  <2>1. MatchingRows(team[r], period[r]) = {id}
    BY <1>1, <1>3, TheRow DEF MatchingRows
  <2> QED BY <1>1, <2>1, FS_Singleton
<1> QED BY <1>2, <1>3

\* Every step is one of the ledger's, or nothing to it.
LEMMA LedgerStep ==
    ASSUME ~Faults, FALSE \notin Enforcement
    PROVE  SequentialInv /\ [Next]_vars => [Account!Next]_(Account!vars)
<1> SUFFICES ASSUME SequentialInv, [Next]_vars PROVE [Account!Next]_(Account!vars)
    OBVIOUS
<1>1. TypeOK
    BY DEF SequentialInv, IInv
<1>2. ASSUME NEW r \in Requests, Arrive(r) \/ CallReturns(r) PROVE Account!Next
    BY <1>1, <1>2, ArriveOpens, CompleteBills, FailureCloses DEF Account!Next, CallReturns
<1>3. ASSUME NEW r \in Requests, SelectOne(r) PROVE Account!Next
  <2>1. PICK id \in DOMAIN usages :
            MatchingRows(team[r], period[r]) = {id} /\ Goto(r, Verdict(usages[id]))
    BY <1>3 DEF SelectOne
  <2>2. usages[id].budget = team[r] /\ usages[id].period = period[r]
    BY <2>1 DEF MatchingRows
  <2> QED BY <1>3, <2>1, <2>2, VerdictMoves DEF SelectOne, Deciding, Account!Next
<1>4. ASSUME NEW r \in Requests, RefreshUsage(r) PROVE Account!Next
  <2>1. r \in DOMAIN usages /\ usages[r].budget = team[r] /\ usages[r].period = period[r]
    BY <1>4 DEF RefreshUsage, SequentialInv, IInv, CreatedInv
  <2> QED BY <1>4, <2>1, VerdictMoves DEF RefreshUsage, Deciding, Account!Next
<1>5. ASSUME NEW r \in Requests, LoadNothing(r) \/ CommitSpend(r) \/ CommitOverflows(r)
      PROVE  Account!Next
    BY <1>5, CommitPosts, LostIsWrittenOff DEF Account!Next
<1>6. ASSUME NEW r \in Requests, SelectNone(r) \/ CreateUsage(r) \/ LoadUsage(r)
      PROVE  UNCHANGED Account!vars
    BY <1>6, WaitingIsUnseen
<1>7. CASE NextMonth
  <2>1. UNCHANGED <<Balances, team, period, Standing, cost>>
    BY <1>7, BalancesStay DEF NextMonth, Standing
  <2> QED BY <1>7, <2>1 DEF NextMonth, Account!Next, Account!NextMonth, Standing, Balances
<1>8. CASE UNCHANGED vars
  <2>1. UNCHANGED <<month, Balances, team, period, Standing, cost>>
    BY <1>8, BalancesStay DEF vars, Standing
  <2> QED BY <2>1 DEF Account!vars, Standing, Balances
<1> QED BY <1>2, <1>3, <1>4, <1>5, <1>6, <1>7, <1>8, NeverMany
        DEF Next, HandlerStep, DatabaseError, Crash, Quiescent

\* As long as calls do not overlap and nothing breaks down, budget_manager.py and its table
\* are an account per team and month: a call is let through exactly while there is room,
\* and its bill posted once and as a whole, or written off for one of the two known reasons.
THEOREM LedgerImplemented ==
    ASSUME MaxInFlight = 1, ~Faults, FALSE \notin Enforcement
    PROVE  Spec => ImplementsLedger
BY LedgerInit, LedgerStep, SequentialHolds, PTL DEF Spec, ImplementsLedger, Account!Spec
=============================================================================
