---------------------------- MODULE ReportsProofs ----------------------------
(***************************************************************************)
(* Proofs about Reports for all usage: of the job that suggests savings,   *)
(* for any number of runs of it, in whatever order their awaits return and *)
(* the rows are dismissed; of the alarm and the forecast, for any window   *)
(* and any day of five slots or more.                                      *)
(***************************************************************************)
EXTENDS Reports, FiniteSums, TLAPS

-----------------------------------------------------------------------------
(* The inductive invariant.                                                *)

\* Who is over stays over.  A run that is not has no rows, and who was over when another
\* one began still is.
OverInv ==
    /\ \A r \in rows : Over(r.by)
    /\ \A j \in Jobs : \A k \in before[j] : Over(k)
    /\ \A j \in Jobs : pc[j] = "idle" => pending[j] = {}

\* What a run has added to its session was not listed by one that was over when it began,
\* and has not been since.
SessionInv ==
    \A j \in Jobs : \A r \in rows : r.title \in pending[j] => r.by \notin before[j]

IInv == TypeOK /\ OverInv /\ SessionInv /\ CopiesOverlap

-----------------------------------------------------------------------------
(* Types.                                                                  *)

LEMMA UsageIsList ==
    ASSUME scenario \in Scenarios
    PROVE  Usage[scenario] \in Seq(Slot) /\ Len(Usage[scenario]) \in Nat
BY ReportsAssumption

\* At most one suggestion of each kind is found.
LEMMA AtMostOne ==
    ASSUME NEW b, NEW t \in Titles
    PROVE  ListedIf(b, t) \in Seq(Titles) /\ Len(ListedIf(b, t)) <= 1
BY DEF ListedIf

LEMMA AtMostThree ==
    ASSUME NEW titles
    PROVE  WithFailover(titles) \in Seq(Titles) /\ Len(WithFailover(titles)) <= 3
<1> DEFINE first == ListedIf(Caching \in ToSet(titles), Caching)
           last == ListedIf(Trimming \in ToSet(titles), Trimming)
<1>1. first \in Seq(Titles) /\ Len(first) <= 1 /\ last \in Seq(Titles) /\ Len(last) <= 1
    BY AtMostOne DEF Titles
<1>2. <<Failover>> \in Seq(Titles) /\ Len(<<Failover>>) = 1
    BY DEF Titles
<1> HIDE DEF first, last
<1>3. first \o <<Failover>> \in Seq(Titles) /\ Len(first \o <<Failover>>) <= 2
    BY <1>1, <1>2
<1>4. WithFailover(titles) = (first \o <<Failover>>) \o last
    BY DEF WithFailover, first, last
<1> QED BY <1>1, <1>3, <1>4

LEMMA TypeInit == Init => TypeOK
BY UsageIsList DEF Init, TypeOK

LEMMA TypeStep == TypeOK /\ [Next]_vars => TypeOK'
<1> SUFFICES ASSUME TypeOK, [Next]_vars PROVE TypeOK'
    OBVIOUS
<1>1. Usage[scenario] \in Seq(Slot) /\ Len(Usage[scenario]) \in Nat
    BY UsageIsList DEF TypeOK
<1> USE DEF Move
<1>2. ASSUME NEW j \in Jobs, Begin(j) PROVE TypeOK'
    <2>1. start' \in [Jobs -> Int]
        BY <1>1, <1>2, ReportsAssumption DEF Begin, TypeOK
    <2>2. before' \in [Jobs -> SUBSET Jobs]
        BY <1>2 DEF Begin, TypeOK
    <2> QED BY <1>2, <2>1, <2>2 DEF Begin, TypeOK
<1>3. ASSUME NEW j \in Jobs, ReadStats(j) PROVE TypeOK'
    <2> DEFINE cache == ListedIf(CacheIsMissed(Recent(j)), Caching)
               prompts == ListedIf(PromptsAreLong(Recent(j)), Trimming)
    <2>1. cache \in Seq(Titles) /\ Len(cache) <= 1 /\ prompts \in Seq(Titles) /\ Len(prompts) <= 1
        BY AtMostOne DEF Titles
    <2>2. \/ UNCHANGED found
          \/ found' = [found EXCEPT ![j] = cache \o prompts]
        BY <1>3 DEF ReadStats
    <2> HIDE DEF cache, prompts
    <2>3. cache \o prompts \in Seq(Titles) /\ Len(cache \o prompts) <= 3
        BY <2>1
    <2>4. found' \in [Jobs -> Seq(Titles)] /\ \A k \in Jobs : Len((found[k])') <= 3
        BY <2>2, <2>3 DEF TypeOK
    <2>5. pc' \in [Jobs -> {"idle", "stats", "flows", "checking", "over"}]
        BY <1>3 DEF ReadStats, TypeOK
    <2> QED BY <1>3, <2>4, <2>5 DEF ReadStats, TypeOK
<1>4. ASSUME NEW j \in Jobs, ReadFlows(j) PROVE TypeOK'
    <2>1. found' \in [Jobs -> Seq(Titles)] /\ \A k \in Jobs : Len((found[k])') <= 3
        BY <1>4, AtMostThree DEF ReadFlows, TypeOK
    <2> QED BY <1>4, <2>1 DEF ReadFlows, TypeOK
<1>5. ASSUME NEW j \in Jobs, Check(j) PROVE TypeOK'
    <2>1. Head(found[j]) \in Titles /\ Tail(found[j]) \in Seq(Titles) /\ Len(Tail(found[j])) <= 3
        BY <1>5 DEF Check, TypeOK
    <2>2. found' \in [Jobs -> Seq(Titles)] /\ \A k \in Jobs : Len((found[k])') <= 3
        BY <1>5, <2>1 DEF Check, TypeOK
    <2>3. pending' \in [Jobs -> SUBSET Titles]
        BY <1>5, <2>1 DEF Check, TypeOK
    <2> QED BY <1>5, <2>2, <2>3 DEF Check, TypeOK
<1>6. ASSUME NEW j \in Jobs, Commit(j) PROVE TypeOK'
    BY <1>6 DEF Commit, TypeOK
<1>7. ASSUME NEW j \in Jobs, Fail(j) PROVE TypeOK'
    <2>1. found' \in [Jobs -> Seq(Titles)] /\ \A k \in Jobs : Len((found[k])') <= 3
        BY <1>7 DEF Fail, TypeOK
    <2> QED BY <1>7, <2>1 DEF Fail, TypeOK
<1>8. CASE Dismiss
    BY <1>8 DEF Dismiss, TypeOK
<1>9. CASE Tick
    BY <1>1, <1>9 DEF Tick, TypeOK
<1>10. CASE Finished \/ UNCHANGED vars
    BY <1>10 DEF Finished, vars, TypeOK
<1> QED BY <1>2, <1>3, <1>4, <1>5, <1>6, <1>7, <1>8, <1>9, <1>10 DEF Next

-----------------------------------------------------------------------------
(* The invariant is inductive.                                             *)

LEMMA InvInit == Init => IInv
<1> SUFFICES ASSUME Init PROVE IInv
    OBVIOUS
<1>1. OverInv /\ SessionInv /\ CopiesOverlap
    BY DEF Init, OverInv, SessionInv, CopiesOverlap
<1> QED BY <1>1, TypeInit DEF IInv

\* A step that adds no row, makes no run look at the rows, and starts or ends at most one.
LEMMA QuietStep ==
    ASSUME TypeOK, OverInv, SessionInv, CopiesOverlap,
           rows' \subseteq rows, UNCHANGED before,
           \A j \in Jobs : (Over(j) => Over(j)') /\ pending'[j] \subseteq pending[j]
                            /\ ((pc[j])' = "idle" => pc[j] = "idle")
    PROVE  OverInv' /\ SessionInv' /\ CopiesOverlap'
<1>1. OverInv'
    BY DEF OverInv, TypeOK
<1>2. SessionInv'
    BY DEF SessionInv
<1>3. CopiesOverlap'
    BY DEF CopiesOverlap
<1> QED BY <1>1, <1>2, <1>3

LEMMA InvStep == IInv /\ [Next]_vars => IInv'
<1> SUFFICES ASSUME IInv, [Next]_vars PROVE IInv'
    OBVIOUS
<1>1. TypeOK /\ OverInv /\ SessionInv /\ CopiesOverlap
    BY DEF IInv
<1>2. TypeOK'
    BY <1>1, TypeStep
<1>3. SUFFICES OverInv' /\ SessionInv' /\ CopiesOverlap'
    BY <1>2 DEF IInv
<1> USE DEF Move, Over
<1>4. ASSUME NEW j \in Jobs, Begin(j) PROVE OverInv' /\ SessionInv' /\ CopiesOverlap'
    <2>1. pc[j] = "idle" /\ pending[j] = {} /\ \A r \in rows : r.by # j
        BY <1>1, <1>4 DEF Begin, OverInv
    <2>2. \A k \in Jobs : (before[k])' = IF k = j THEN {i \in Jobs : Over(i)} ELSE before[k]
        BY <1>1, <1>4 DEF Begin, TypeOK
    <2>3. UNCHANGED <<rows, pending>>
            /\ \A k \in Jobs : (pc[k])' = IF k = j THEN "stats" ELSE pc[k]
        BY <1>1, <1>4 DEF Begin, TypeOK
    <2>4. OverInv'
        <3>1. \A k \in Jobs : Over(k) => Over(k)'
            BY <2>1, <2>3
        <3>2. \A r \in rows' : Over(r.by)'
            BY <1>1, <2>3, <3>1 DEF OverInv, TypeOK
        <3>3. \A k \in Jobs : \A i \in (before[k])' : Over(i)'
            <4> SUFFICES ASSUME NEW k \in Jobs, NEW i \in (before[k])' PROVE Over(i)'
                OBVIOUS
            <4>1. before[k] \subseteq Jobs
                BY <1>1 DEF TypeOK
            <4>2. CASE k = j
                <5>1. i \in {x \in Jobs : Over(x)}
                    BY <2>2, <4>2
                <5> QED BY <3>1, <5>1
            <4>3. CASE k # j
                <5>1. i \in before[k]
                    BY <2>2, <4>3
                <5> QED BY <1>1, <3>1, <4>1, <5>1 DEF OverInv
            <4> QED BY <4>2, <4>3
        <3>4. \A k \in Jobs : (pc[k])' = "idle" => (pending[k])' = {}
            BY <1>1, <2>3 DEF OverInv
        <3> QED BY <3>2, <3>3, <3>4 DEF OverInv
    <2>5. SessionInv'
        BY <1>1, <2>1, <2>2, <2>3 DEF SessionInv
    <2>6. CopiesOverlap'
        BY <1>1, <2>1, <2>2, <2>3 DEF CopiesOverlap, TypeOK
    <2> QED BY <2>4, <2>5, <2>6
<1>5. ASSUME NEW j \in Jobs, Check(j) PROVE OverInv' /\ SessionInv' /\ CopiesOverlap'
    <2>1. UNCHANGED <<rows, pc, before>>
        BY <1>5 DEF Check
    <2>2. \A k \in Jobs : \A t \in (pending[k])' :
            t \in pending[k] \/ (k = j /\ Missing(t))
        BY <1>1, <1>5 DEF Check, TypeOK
    <2>3. \A k \in Jobs : k # j => (pending[k])' = pending[k]
        BY <1>1, <1>5 DEF Check, TypeOK
    <2>4. OverInv'
        BY <1>1, <1>5, <2>1, <2>3 DEF OverInv, Check
    <2>5. SessionInv'
        BY <1>1, <2>1, <2>2 DEF SessionInv, Missing
    <2>6. CopiesOverlap'
        BY <1>1, <2>1 DEF CopiesOverlap
    <2> QED BY <2>4, <2>5, <2>6
<1>6. ASSUME NEW j \in Jobs, Commit(j) PROVE OverInv' /\ SessionInv' /\ CopiesOverlap'
    <2> DEFINE new == {[title |-> t, by |-> j] : t \in pending[j]}
    <2>1. rows' = rows \cup new /\ UNCHANGED before /\ pc[j] = "checking"
        BY <1>6 DEF Commit
    <2>2. \A k \in Jobs : /\ (pc[k])' = IF k = j THEN "over" ELSE pc[k]
                          /\ (pending[k])' = IF k = j THEN {} ELSE pending[k]
        BY <1>1, <1>6 DEF Commit, TypeOK
    <2>3. \A r \in new : r.by = j /\ r.title \in pending[j]
        OBVIOUS
    <2>4. \A k \in Jobs : j \notin before[k]
        BY <1>1, <2>1 DEF OverInv
    <2>5. \A r \in rows : r.by \in Jobs
        BY <1>1 DEF TypeOK
    <2> HIDE DEF new
    <2>6. OverInv'
        BY <1>1, <2>1, <2>2, <2>3, <2>5 DEF OverInv, TypeOK
    <2>7. SessionInv'
        BY <1>1, <2>1, <2>2, <2>3, <2>4 DEF SessionInv
    <2>8. CopiesOverlap'
        <3> SUFFICES ASSUME NEW r \in rows', NEW q \in rows', r.title = q.title, r # q
                     PROVE  r.by \notin before[q.by] /\ q.by \notin before[r.by]
            BY <2>1 DEF CopiesOverlap
        <3>1. CASE r \in rows /\ q \in rows
            BY <1>1, <3>1 DEF CopiesOverlap
        <3>2. CASE r \in rows /\ q \in new
            BY <1>1, <2>3, <2>4, <2>5, <3>2 DEF SessionInv
        <3>3. CASE r \in new /\ q \in rows
            BY <1>1, <2>3, <2>4, <2>5, <3>3 DEF SessionInv
        <3>4. CASE r \in new /\ q \in new
            BY <3>4 DEF new
        <3> QED BY <2>1, <3>1, <3>2, <3>3, <3>4
    <2> QED BY <2>6, <2>7, <2>8
<1>7. CASE \E j \in Jobs : ReadStats(j) \/ ReadFlows(j) \/ Fail(j)
    <2>1. PICK j \in Jobs : ReadStats(j) \/ ReadFlows(j) \/ Fail(j)
        BY <1>7
    <2>2. rows' \subseteq rows /\ UNCHANGED before
        BY <2>1 DEF ReadStats, ReadFlows, Fail
    <2>3. \A k \in Jobs : (Over(k) => Over(k)') /\ pending'[k] \subseteq pending[k]
                            /\ ((pc[k])' = "idle" => pc[k] = "idle")
        BY <1>1, <2>1 DEF ReadStats, ReadFlows, Fail, TypeOK
    <2> QED BY <1>1, <2>2, <2>3, QuietStep
<1>8. CASE Dismiss \/ Tick \/ Finished \/ UNCHANGED vars
    <2>1. rows' \subseteq rows /\ UNCHANGED <<pc, pending, before>>
        BY <1>8 DEF Dismiss, Tick, Finished, vars
    <2> QED BY <1>1, <2>1, QuietStep
<1> QED BY <1>4, <1>5, <1>6, <1>7, <1>8 DEF Next

LEMMA Invariant == Spec => []IInv
BY InvInit, InvStep, PTL DEF Spec

-----------------------------------------------------------------------------
(* Means and deviations.                                                   *)

\* A list of costs, what one of them is above or below a number, and how much they differ:
\* the variance is the same wherever it is measured from.
Squares(f, K) == [k \in K |-> f[k] * f[k]]
Below(X, f, K) == [k \in K |-> X - f[k]]
Variance(f, K) ==
    Cardinality(K) * SumFunctionOnSet(Squares(f, K), K)
        - SumFunctionOnSet(f, K) * SumFunctionOnSet(f, K)

LEMMA Deviations ==
    ASSUME NEW K, IsFiniteSet(K), NEW f, NEW X \in Int, \A k \in K : f[k] \in Int
    PROVE  /\ SumFunctionOnSet(Below(X, f, K), K) = Cardinality(K) * X - SumFunctionOnSet(f, K)
           /\ Variance(Below(X, f, K), K) = Variance(f, K)
<1> DEFINE q == Squares(f, K)
           e == Below(X, f, K)
           r == Squares(e, K)
           n == Cardinality(K)
           S == SumFunctionOnSet(f, K)
           Q == SumFunctionOnSet(q, K)
           E == SumFunctionOnSet(e, K)
           R == SumFunctionOnSet(r, K)
           all == [k \in K |-> X]
           square == [k \in K |-> X * X]
           minus == [k \in K |-> (-1) * f[k]]
           cross == [k \in K |-> (2 * X) * f[k]]
           both == [k \in K |-> r[k] + cross[k]]
<1>0. \A k \in K : q[k] = f[k] * f[k] /\ e[k] = X - f[k] /\ r[k] = e[k] * e[k]
    BY DEF Squares, Below
<1> HIDE DEF q, e, r
<1>1. \A k \in K : f[k] \in Int /\ q[k] \in Int /\ e[k] \in Int /\ r[k] \in Nat /\ r[k] \in Int
    BY <1>0
<1>2. n \in Nat /\ S \in Int /\ Q \in Int /\ E \in Int /\ R \in Nat
    BY <1>1, SumIsInt, SumType, FS_CardinalityType
<1>3. E = n * X - S
    <2>1. SumFunctionOnSet(all, K) = X * n
        BY SumOfConstant
    <2>2. SumFunctionOnSet(minus, K) = (-1) * S
        BY <1>1, SumTimes
    <2>3. \A k \in K : all[k] \in Int /\ minus[k] \in Int /\ e[k] = all[k] + minus[k]
        BY <1>0, <1>1
    <2> HIDE DEF all, minus
    <2>4. E = SumFunctionOnSet(all, K) + SumFunctionOnSet(minus, K)
        BY <2>3, SumOfSum
    <2> QED BY <1>2, <2>1, <2>2, <2>4
<1>4. R + (2 * X) * S = Q + (X * X) * n
    <2>1. SumFunctionOnSet(cross, K) = (2 * X) * S
        BY <1>1, SumTimes
    <2>2. SumFunctionOnSet(square, K) = (X * X) * n
        BY SumOfConstant
    <2>3. \A k \in K : both[k] = r[k] + cross[k] /\ r[k] \in Int /\ cross[k] \in Int
        BY <1>1
    <2>4. \A k \in K : both[k] = q[k] + square[k] /\ q[k] \in Int /\ square[k] \in Int
        <3> SUFFICES ASSUME NEW k \in K PROVE both[k] = q[k] + square[k]
            BY <1>1
        <3>1. (X - f[k]) * (X - f[k]) + (2 * X) * f[k] = f[k] * f[k] + X * X
            BY <1>1
        <3> QED BY <1>0, <3>1
    <2> HIDE DEF cross, square, both
    <2>5. SumFunctionOnSet(both, K) = R + SumFunctionOnSet(cross, K)
        BY <2>3, SumOfSum
    <2>6. SumFunctionOnSet(both, K) = Q + SumFunctionOnSet(square, K)
        BY <2>4, SumOfSum
    <2> QED BY <2>1, <2>2, <2>5, <2>6
<1> HIDE DEF n, S, Q, E, R
<1>5. n * Q - S * S = n * R - E * E
    <2>1. R = Q + (X * X) * n - (2 * X) * S
        BY <1>2, <1>4
    <2> QED BY <1>2, <1>3, <2>1
<1> QED BY <1>3, <1>5 DEF n, S, Q, E, R, q, e, r, Variance

\* No sum is more than that of what is positive.
LEMMA SumOfPositive ==
    ASSUME NEW K, IsFiniteSet(K), NEW e, \A k \in K : e[k] \in Int,
           NEW P, P = {k \in K : e[k] > 0}
    PROVE  SumFunctionOnSet(e, K) <= SumFunctionOnSet(e, P)
<1> DEFINE above == [k \in K |-> IF k \in P THEN e[k] ELSE 0]
<1>1. /\ \A k \in K : above[k] \in Int /\ e[k] <= above[k]
      /\ \A k \in P : above[k] = e[k]
      /\ \A k \in K \ P : above[k] = 0
      /\ P \in SUBSET K /\ K \in SUBSET K
    OBVIOUS
<1> HIDE DEF above
<1>2. SumFunctionOnSet(above, K) = SumFunctionOnSet(e, P)
    BY <1>1, SumOfSame
<1>3. SumFunctionOnSet(e, K) <= SumFunctionOnSet(above, K)
    BY <1>1, SumMonotone
<1> QED BY <1>2, <1>3

\* When X is above the mean of n numbers by more than three times their deviation, more
\* than nine in ten of them are below it.
LEMMA Spread ==
    ASSUME NEW K, IsFiniteSet(K), NEW f, NEW X \in Int, \A k \in K : f[k] \in Int,
           NEW E, E = Cardinality(K) * X - SumFunctionOnSet(f, K), E > 0,
           E * E > 9 * Variance(f, K),
           NEW P, P = {k \in K : f[k] < X}
    PROVE  9 * Cardinality(K) < 10 * Cardinality(P)
<1> DEFINE e == Below(X, f, K)
           r == Squares(e, K)
           n == Cardinality(K)
           p == Cardinality(P)
           R == SumFunctionOnSet(r, K)
           EP == SumFunctionOnSet(e, P)
           RP == SumFunctionOnSet(r, P)
<1>1. \A k \in K : e[k] \in Int /\ r[k] \in Nat
    BY DEF Below, Squares
<1>2. \A k \in K : e[k] = X - f[k] /\ r[k] = e[k] * e[k]
    BY DEF Below, Squares
<1>3. P = {k \in K : e[k] > 0} /\ P \in SUBSET K
    BY <1>2
<1> HIDE DEF e, r
<1>4. n \in Nat /\ p \in Nat /\ R \in Nat /\ EP \in Int /\ RP \in Nat
            /\ SumFunctionOnSet(e, K) \in Int
    BY <1>1, <1>3, FS_Subset, FS_CardinalityType, SumIsInt, SumType
<1>5. E = SumFunctionOnSet(e, K) /\ Variance(f, K) = n * R - E * E
    <2>1. SumFunctionOnSet(e, K) = E /\ Variance(e, K) = Variance(f, K)
        BY Deviations DEF e
    <2> QED BY <2>1 DEF Variance, r
<1>6. E <= EP
    BY <1>1, <1>3, <1>5, SumOfPositive
<1>7. EP * EP <= p * RP
    <2>1. IsFiniteSet(P) /\ \A k \in P : e[k] \in Int /\ r[k] = e[k] * e[k]
        BY <1>1, <1>2, <1>3, FS_Subset
    <2> QED BY <2>1, CauchyOfSums
<1>8. RP <= R
    <2>1. /\ \A k \in K : r[k] \in Int /\ (k \notin P => r[k] >= 0)
          /\ \A k \in P : r[k] \in Int /\ r[k] <= r[k]
        BY <1>1, <1>3
    <2> QED BY <1>3, <2>1, SumMonotone
<1>9. E * E > 9 * (n * R - E * E) /\ E > 0 /\ E \in Int
    BY <1>4, <1>5
<1> HIDE DEF n, p, R, EP, RP
<1>10. E * E <= EP * EP
    BY <1>4, <1>5, <1>6, <1>9
<1>11. p * RP <= p * R
    BY <1>4, <1>8
<1>12. 9 * (n * R) < 10 * (p * R)
    <2> DEFINE nR == n * R
               pR == p * R
               EE == E * E
               Em == EP * EP
               pRP == p * RP
    <2>1. nR \in Int /\ pR \in Int /\ EE \in Int /\ Em \in Int /\ pRP \in Int
        BY <1>4, <1>9
    <2>2. EE > 9 * (nR - EE) /\ EE <= Em /\ Em <= pRP /\ pRP <= pR
        BY <1>7, <1>9, <1>10, <1>11
    <2> HIDE DEF nR, pR, EE, Em, pRP
    <2>3. 9 * nR < 10 * pR
        BY <2>1, <2>2
    <2> QED BY <2>3 DEF nR, pR
<1>13. 9 * n < 10 * p
    <2>1. SUFFICES ASSUME 9 * n >= 10 * p PROVE FALSE
        BY <1>4 DEF n, p
    <2>2. (9 * n) * R >= (10 * p) * R
        BY <1>4, <2>1
    <2> QED BY <1>4, <1>12, <2>2
<1> QED BY <1>13 DEF n, p

-----------------------------------------------------------------------------
(* The days of the baseline.                                               *)

\* The slots that have passed, and what they cost.
LEMMA SlotsSpent ==
    ASSUME TypeOK, NEW slots \in SUBSET (DOMAIN Usage[scenario])
    PROVE  /\ DOMAIN Usage[scenario] = 1..Len(Usage[scenario]) /\ Len(Usage[scenario]) \in Nat
           /\ IsFiniteSet(slots) /\ slots \subseteq Int
           /\ \A t \in slots : Usage[scenario][t] \in Slot
           /\ Spent(slots) \in Nat
<1>1. Usage[scenario] \in Seq(Slot) /\ Len(Usage[scenario]) \in Nat
    BY UsageIsList DEF TypeOK
<1>2. DOMAIN Usage[scenario] = 1..Len(Usage[scenario])
    BY <1>1
<1>3. IsFiniteSet(slots)
    <2>1. IsFiniteSet(1..Len(Usage[scenario])) /\ slots \in SUBSET (1..Len(Usage[scenario]))
        BY <1>1, <1>2, FS_Interval
    <2> QED BY <2>1, FS_Subset
<1>4. \A t \in slots : Usage[scenario][t] \in Slot
    BY <1>1, <1>2
<1>5. Spent(slots) \in Nat
    <2> DEFINE f == [t \in slots |-> Usage[scenario][t].cost]
    <2>1. \A t \in slots : f[t] \in Nat
        BY <1>4 DEF Slot
    <2> HIDE DEF f
    <2>2. SumFunctionOnSet(f, slots) \in Nat
        BY <1>3, <2>1, SumType
    <2> QED BY <2>2 DEF f, Spent
<1> QED BY <1>1, <1>2, <1>3, <1>4, <1>5

\* Slots in a row that cost the same.
LEMMA SpentInARow ==
    ASSUME TypeOK, NEW a \in Int, NEW b \in Int, a <= b, NEW c \in Nat,
           a..b \subseteq DOMAIN Usage[scenario],
           \A t \in a..b : Usage[scenario][t].cost = c
    PROVE  Spent(a..b) = c * (b - a + 1)
<1> DEFINE f == [t \in a..b |-> Usage[scenario][t].cost]
<1>1. \A t \in a..b : f[t] = c
    OBVIOUS
<1>2. IsFiniteSet(a..b) /\ Cardinality(a..b) = b - a + 1
    BY FS_Interval
<1> HIDE DEF f
<1>3. SumFunctionOnSet(f, a..b) = c * Cardinality(a..b)
    BY <1>1, <1>2, SumOfConstant
<1> QED BY <1>2, <1>3 DEF Spent, f

\* The slots of a day.
LEMMA SlotsOfDay ==
    ASSUME NEW t \in Int, NEW d \in Int
    PROVE  /\ DayOf(t) \in Int
           /\ DayOf(t) = d <=> d * SlotsPerDay <= t /\ t < d * SlotsPerDay + SlotsPerDay
<1> DEFINE D == SlotsPerDay
           q == t \div D
<1>1. D \in Nat \ {0}
    BY ReportsAssumption
<1>2. q \in Int /\ q * D <= t /\ t < q * D + D
    BY <1>1
<1> HIDE DEF q
<1>3. ASSUME d * D <= t, t < d * D + D PROVE q = d
    <2>1. CASE q < d
        <3>1. (q + 1) * D <= d * D
            BY <1>1, <1>2, <2>1
        <3> QED BY <1>1, <1>2, <1>3, <3>1
    <2>2. CASE q > d
        <3>1. (d + 1) * D <= q * D
            BY <1>1, <1>2, <2>2
        <3> QED BY <1>1, <1>2, <1>3, <3>1
    <2> QED BY <1>2, <2>1, <2>2
<1> QED BY <1>2, <1>3 DEF DayOf, q

\* There are fourteen days before today, and today.
LEMMA DaysOfBaseline ==
    ASSUME TypeOK, NEW w \in Nat \ {0}
    PROVE  /\ Baseline(w) \subseteq DOMAIN Usage[scenario] /\ Baseline(w) \subseteq Int
           /\ BaselineDays(w) \subseteq (DayOf(clock) - 14)..DayOf(clock)
           /\ w >= SlotsPerDay => BaselineDays(w) \subseteq (DayOf(clock) - 14)..(DayOf(clock) - 1)
           /\ DayOf(clock) \in Int /\ clock \in Int
           /\ IsFiniteSet(BaselineDays(w)) /\ Cardinality(BaselineDays(w)) \in Nat
           /\ w >= SlotsPerDay => Cardinality(BaselineDays(w)) <= 14
           /\ \A d \in BaselineDays(w) : DailySpend(w)[d] \in Nat
<1> DEFINE D == SlotsPerDay
           today == DayOf(clock)
<1>1. D \in Nat \ {0} /\ clock \in Int
    BY ReportsAssumption, UsageIsList DEF TypeOK
<1>2. Baseline(w) \subseteq DOMAIN Usage[scenario] /\ Baseline(w) \subseteq Int
    <2>1. Baseline(w) \subseteq DOMAIN Usage[scenario]
        BY DEF Baseline, Between
    <2> QED BY <2>1, SlotsSpent
<1>3. today \in Int /\ today * D <= clock /\ clock < today * D + D
    BY <1>1, SlotsOfDay
<1>4. ASSUME NEW t \in Baseline(w)
      PROVE  /\ DayOf(t) \in (today - 14)..today
             /\ w >= D => DayOf(t) \in (today - 14)..(today - 1)
    <2> DEFINE d == DayOf(t)
    <2>1. t \in Int /\ clock - 14 * D <= t /\ t < clock - w
        BY <1>2 DEF Baseline, Between
    <2>2. d \in Int /\ d * D <= t /\ t < d * D + D
        BY <2>1, SlotsOfDay
    <2> HIDE DEF d, today, D
    <2>3. d >= today - 14
        <3>1. SUFFICES ASSUME d + 1 <= today - 14 PROVE FALSE
            BY <1>3, <2>2
        <3>2. (d + 1) * D <= (today - 14) * D
            BY <1>1, <1>3, <2>2, <3>1
        <3> QED BY <1>1, <1>3, <2>1, <2>2, <3>2
    <2>4. d <= today
        <3>1. SUFFICES ASSUME d >= today + 1 PROVE FALSE
            BY <1>3, <2>2
        <3>2. d * D >= (today + 1) * D
            BY <1>1, <1>3, <2>2, <3>1
        <3> QED BY <1>1, <1>3, <2>1, <2>2, <3>2
    <2>5. w >= D => d <= today - 1
        <3>1. SUFFICES ASSUME w >= D, d >= today PROVE FALSE
            BY <1>3, <2>2
        <3>2. d * D >= today * D
            BY <1>1, <1>3, <2>2, <3>1
        <3> QED BY <1>1, <1>3, <2>1, <2>2, <3>1, <3>2
    <2> QED BY <1>3, <2>2, <2>3, <2>4, <2>5 DEF d, today, D
<1>5. /\ BaselineDays(w) \subseteq (today - 14)..today
      /\ w >= D => BaselineDays(w) \subseteq (today - 14)..(today - 1)
    BY <1>4 DEF BaselineDays
<1> HIDE DEF today
<1>6. IsFiniteSet(BaselineDays(w)) /\ Cardinality(BaselineDays(w)) \in Nat
    <2>1. IsFiniteSet((today - 14)..today) /\ BaselineDays(w) \in SUBSET ((today - 14)..today)
        BY <1>3, <1>5, FS_Interval
    <2> QED BY <2>1, FS_Subset, FS_CardinalityType
<1>7. w >= D => Cardinality(BaselineDays(w)) <= 14
    <2>1. IsFiniteSet((today - 14)..(today - 1)) /\ Cardinality((today - 14)..(today - 1)) = 14
        BY <1>3, FS_Interval
    <2>2. w >= D => BaselineDays(w) \in SUBSET ((today - 14)..(today - 1))
        BY <1>5
    <2>3. w >= D => Cardinality(BaselineDays(w)) <= Cardinality((today - 14)..(today - 1))
        BY <2>1, <2>2, FS_Subset
    <2> QED BY <1>6, <2>1, <2>3
<1>8. \A d \in BaselineDays(w) : DailySpend(w)[d] \in Nat
    <2> SUFFICES ASSUME NEW d \in BaselineDays(w) PROVE DailySpend(w)[d] \in Nat
        OBVIOUS
    <2>1. {t \in Baseline(w) : DayOf(t) = d} \in SUBSET (DOMAIN Usage[scenario])
        BY <1>2
    <2>2. Spent({t \in Baseline(w) : DayOf(t) = d}) \in Nat
        BY <2>1, SlotsSpent
    <2> QED BY <2>2 DEF DailySpend
<1> QED BY <1>1, <1>2, <1>3, <1>5, <1>6, <1>7, <1>8 DEF today, D

-----------------------------------------------------------------------------
(* The alarm.                                                              *)

\* More than nine in ten of the days of the baseline were not as dear as the window, for
\* its length.
LEMMA AlarmIsAbove ==
    ASSUME TypeOK, NEW w \in Nat \ {0}, detect_cost_anomaly(w),
           NEW P, P = {d \in BaselineDays(w) :
                    w * DailySpend(w)[d] < SlotsPerDay * Spent(Between(clock - w, clock))}
    PROVE  /\ Cardinality(BaselineDays(w)) >= 3
           /\ 9 * Cardinality(BaselineDays(w)) < 10 * Cardinality(P)
<1> DEFINE K == BaselineDays(w)
           n == Cardinality(K)
           daily == DailySpend(w)
           f == [d \in K |-> w * daily[d]]
           Y == Spent(Between(clock - w, clock))
           X == SlotsPerDay * Y
           S == SumFunctionOnSet(daily, K)
           Q == SumFunctionOnSet(Squares(daily, K), K)
           E == n * X - w * S
<1>1. SlotsPerDay \in Nat \ {0} /\ Dollar \in Nat \ {0}
    BY ReportsAssumption
<1>2. Y \in Nat
    <2>1. Between(clock - w, clock) \in SUBSET (DOMAIN Usage[scenario])
        BY DEF Between
    <2> QED BY <2>1, SlotsSpent
<1>3. IsFiniteSet(K) /\ n \in Nat /\ \A d \in K : daily[d] \in Int
    BY DaysOfBaseline
<1>4. \A d \in K : Squares(daily, K)[d] \in Int
    BY <1>3 DEF Squares
<1>5. S \in Int /\ Q \in Int
    BY <1>3, <1>4, SumIsInt
<1>6. DOMAIN daily = K /\ SumFunction(daily) = S
      /\ SumFunction([d \in K |-> daily[d] * daily[d]]) = Q
    <2>1. DOMAIN daily = K /\ DOMAIN Squares(daily, K) = K
        BY DEF DailySpend, Squares
    <2>2. Squares(daily, K) = [d \in K |-> daily[d] * daily[d]]
        BY DEF Squares
    <2> HIDE DEF daily
    <2> QED BY <2>1, <2>2 DEF SumFunction
<1>7. /\ HasBaseline(K)
      /\ n * SlotsPerDay * Y - w * S > n * SlotsPerDay * Dollar
      /\ (n * SlotsPerDay * Y - w * S) * (n * SlotsPerDay * Y - w * S)
            > 9 * w * w * (n * Q - S * S)
    <2> HIDE DEF Q
    <2>1. detect_cost_anomaly(w)
        OBVIOUS
    <2> QED BY <1>6, <2>1, Zenon DEF detect_cost_anomaly
<1> HIDE DEF daily, Y, S, Q, K, n
<1>8. n * SlotsPerDay * Y - w * S = E /\ E \in Int /\ X \in Int
    BY <1>1, <1>2, <1>3, <1>5
<1>9. E > 0
    <2>1. n * SlotsPerDay * Dollar >= 0
        BY <1>1, <1>3
    <2> QED BY <1>1, <1>3, <1>7, <1>8, <2>1
<1>10. \A d \in K : f[d] \in Int
    BY <1>3
<1>11. SumFunctionOnSet(f, K) = w * S
    <2>1. w \in Int /\ \A d \in K : daily[d] \in Int /\ f[d] = w * daily[d]
        BY <1>3
    <2> HIDE DEF f
    <2>2. SumFunctionOnSet(f, K) = w * SumFunctionOnSet(daily, K)
        BY <1>3, <2>1, SumTimes
    <2> QED BY <2>2 DEF S
<1>12. SumFunctionOnSet(Squares(f, K), K) = (w * w) * Q
    <2>1. \A d \in K : Squares(f, K)[d] = (w * w) * Squares(daily, K)[d]
        BY <1>3 DEF Squares
    <2>2. w * w \in Int
        OBVIOUS
    <2> HIDE DEF f
    <2>3. SumFunctionOnSet(Squares(f, K), K) = (w * w) * SumFunctionOnSet(Squares(daily, K), K)
        BY <1>3, <1>4, <2>1, <2>2, SumTimes
    <2> QED BY <2>3 DEF Q
<1>13. Variance(f, K) = w * w * (n * Q - S * S)
    <2>1. Variance(f, K) = n * ((w * w) * Q) - (w * S) * (w * S)
        BY <1>11, <1>12 DEF Variance, n
    <2> QED BY <1>3, <1>5, <2>1
<1>14. E = n * X - SumFunctionOnSet(f, K)
    BY <1>11
<1>15. E * E > 9 * Variance(f, K)
    <2>1. 9 * w * w * (n * Q - S * S) = 9 * (w * w * (n * Q - S * S))
        BY <1>3, <1>5
    <2> QED BY <1>7, <1>8, <1>13, <2>1
<1>16. P = {d \in K : f[d] < X}
    BY DEF K, daily, Y
<1> HIDE DEF f, X, E
<1>17. 9 * n < 10 * Cardinality(P)
    BY <1>3, <1>8, <1>9, <1>10, <1>14, <1>15, <1>16, Spread DEF n
<1>18. n >= 3
    BY <1>7 DEF HasBaseline, n
<1> QED BY <1>17, <1>18 DEF n, K

\* One day of the baseline at most was as dear.
LEMMA AlarmsAreRare == TypeOK => AlarmIsRare
<1> SUFFICES ASSUME TypeOK, detect_cost_anomaly(SlotsPerDay) PROVE
        Cardinality({d \in BaselineDays(SlotsPerDay) :
            DailySpend(SlotsPerDay)[d] >= Spent(Between(clock - SlotsPerDay, clock))}) <= 1
    BY DEF AlarmIsRare
<1> DEFINE D == SlotsPerDay
           K == BaselineDays(D)
           f == DailySpend(D)
           Y == Spent(Between(clock - D, clock))
           H == {d \in K : f[d] >= Y}
           P == {d \in K : D * f[d] < D * Y}
<1>1. D \in Nat \ {0}
    BY ReportsAssumption
<1>2. Y \in Nat
    <2>1. Between(clock - D, clock) \in SUBSET (DOMAIN Usage[scenario])
        BY DEF Between
    <2> QED BY <2>1, SlotsSpent
<1>3. /\ IsFiniteSet(K) /\ Cardinality(K) \in Nat /\ Cardinality(K) <= 14
      /\ \A d \in K : f[d] \in Nat
    <2>1. D >= SlotsPerDay
        BY <1>1
    <2> QED BY <1>1, <2>1, DaysOfBaseline
<1>4. 9 * Cardinality(K) < 10 * Cardinality(P)
    BY <1>1, AlarmIsAbove
<1> HIDE DEF f, K, Y
<1>5. H = K \ P /\ K \cap P = P
    BY <1>1, <1>2, <1>3
<1> HIDE DEF P, H
<1>6. IsFiniteSet(H) /\ Cardinality(H) = Cardinality(K) - Cardinality(P)
    <2>1. IsFiniteSet(K \ P) /\ Cardinality(K \ P) = Cardinality(K) - Cardinality(K \cap P)
        BY <1>3, FS_Difference
    <2> QED BY <1>5, <2>1
<1>7. Cardinality(P) \in Nat
    <2>1. P \in SUBSET K
        BY <1>5
    <2> QED BY <1>3, <2>1, FS_Subset, FS_CardinalityType
<1>8. Cardinality(H) <= 1
    BY <1>3, <1>4, <1>6, <1>7
<1> QED BY <1>8 DEF H, K, f, Y, D

-----------------------------------------------------------------------------
(* Clients that make the same calls all the time.                          *)

\* From the first call on the slots are alike.
LEMMA AllAlike ==
    ASSUME TypeOK, Steady, NEW t \in DOMAIN Usage[scenario], Usage[scenario][t].calls > 0
    PROVE  /\ SteadyCost \in Nat
           /\ \A u \in DOMAIN Usage[scenario] : t <= u =>
                /\ u \in Int
                /\ Usage[scenario][u].calls > 0
                /\ Usage[scenario][u].cost = SteadyCost
<1> DEFINE L == Len(Usage[scenario])
<1>1. DOMAIN Usage[scenario] = 1..L /\ L \in Nat
    BY UsageIsList DEF TypeOK
<1>2. Usage[scenario][t] \in Slot
    BY UsageIsList DEF TypeOK
<1>3. \A u \in DOMAIN Usage[scenario] : t <= u => Usage[scenario][u] = Usage[scenario][t]
    BY DEF Steady
<1>4. L \in DOMAIN Usage[scenario] /\ t <= L
    BY <1>1
<1>5. SteadyCost = Usage[scenario][t].cost
    BY <1>3, <1>4 DEF SteadyCost
<1> HIDE DEF L
<1> QED BY <1>1, <1>2, <1>3, <1>5 DEF Slot

\* They spend the same in every window.
LEMMA SteadyWindow ==
    ASSUME TypeOK, Steady, NEW from \in Int, NEW to \in Int, to <= clock,
           NEW t \in DOMAIN Usage[scenario], Usage[scenario][t].calls > 0, t <= from, from < to
    PROVE  Between(from, to) = from..(to - 1)
            /\ Spent(Between(from, to)) = SteadyCost * (to - from)
<1>1. DOMAIN Usage[scenario] = 1..Len(Usage[scenario]) /\ Len(Usage[scenario]) \in Nat
      /\ clock \in 1..(Len(Usage[scenario]) + 1)
    BY UsageIsList DEF TypeOK
<1>2. from..(to - 1) \subseteq DOMAIN Usage[scenario]
    BY <1>1
<1>3. SteadyCost \in Nat /\ \A u \in from..(to - 1) :
        Usage[scenario][u].calls > 0 /\ Usage[scenario][u].cost = SteadyCost
    <2>1. \A u \in from..(to - 1) : u \in DOMAIN Usage[scenario] /\ t <= u
        BY <1>1, <1>2
    <2> QED BY <2>1, AllAlike
<1>4. Between(from, to) = from..(to - 1)
    BY <1>1, <1>2, <1>3 DEF Between
<1>5. Spent(from..(to - 1)) = SteadyCost * (to - from)
    <2>1. to - 1 \in Int /\ from <= to - 1 /\ (to - 1) - from + 1 = to - from
        OBVIOUS
    <2>2. Spent(from..(to - 1)) = SteadyCost * ((to - 1) - from + 1)
        BY <1>2, <1>3, <2>1, SpentInARow
    <2> QED BY <2>1, <2>2
<1> QED BY <1>4, <1>5

\* A day between two others of the baseline is there from its first slot to its last.
LEMMA WholeDay ==
    ASSUME TypeOK, Steady, NEW w \in Nat \ {0}, NEW d \in BaselineDays(w),
           NEW a \in BaselineDays(w), NEW b \in BaselineDays(w), a < d, d < b
    PROVE  SteadyCost \in Nat /\ DailySpend(w)[d] = SteadyCost * SlotsPerDay
<1> DEFINE D == SlotsPerDay
           first == d * D
           past == d * D + D
           slots == {t \in Baseline(w) : DayOf(t) = d}
<1>1. /\ D \in Nat \ {0} /\ clock \in Int
      /\ d \in Int /\ a \in Int /\ b \in Int
      /\ Baseline(w) \subseteq DOMAIN Usage[scenario] /\ Baseline(w) \subseteq Int
    BY DaysOfBaseline, ReportsAssumption
<1>2. PICK u \in Baseline(w) : DayOf(u) = a
    BY DEF BaselineDays
<1>3. PICK v \in Baseline(w) : DayOf(v) = b
    BY DEF BaselineDays
<1>4. u \in Int /\ v \in Int /\ u < a * D + D /\ b * D <= v
    BY <1>1, <1>2, <1>3, SlotsOfDay
<1>5. /\ u \in DOMAIN Usage[scenario] /\ clock - 14 * D <= u /\ Usage[scenario][u].calls > 0
      /\ v < clock - w /\ v \in DOMAIN Usage[scenario]
    BY <1>2, <1>3 DEF Baseline, Between
<1>6. a * D + D <= first /\ past <= b * D /\ first \in Int /\ past \in Int
    <2>1. (a + 1) * D <= d * D /\ (d + 1) * D <= b * D
        BY <1>1
    <2> QED BY <1>1, <2>1
<1> HIDE DEF first, past
<1>7. u <= first /\ first < past /\ past <= clock /\ past <= v
    BY <1>1, <1>4, <1>5, <1>6 DEF first, past
<1>8. Between(first, past) = first..(past - 1)
        /\ Spent(Between(first, past)) = SteadyCost * (past - first)
    BY <1>5, <1>6, <1>7, SteadyWindow
<1>9. slots = first..(past - 1)
    <2>1. \A t \in Int : DayOf(t) = d <=> t \in first..(past - 1)
        <3> SUFFICES ASSUME NEW t \in Int PROVE DayOf(t) = d <=> t \in first..(past - 1)
            OBVIOUS
        <3>1. DayOf(t) = d <=> first <= t /\ t < past
            BY <1>1, SlotsOfDay DEF first, past
        <3> QED BY <1>6, <3>1
    <2>2. \A t \in first..(past - 1) : t \in Baseline(w)
        <3> SUFFICES ASSUME NEW t \in first..(past - 1) PROVE t \in Baseline(w)
            OBVIOUS
        <3>1. t \in DOMAIN Usage[scenario] /\ Usage[scenario][t].calls > 0
            BY <1>8 DEF Between
        <3>2. clock - 14 * D <= t /\ t < clock - w
            BY <1>1, <1>4, <1>5, <1>6, <1>7
        <3> QED BY <3>1, <3>2 DEF Baseline, Between
    <2> QED BY <1>1, <2>1, <2>2
<1>10. past - first = D
    BY <1>1 DEF first, past
<1>11. SteadyCost \in Nat
    BY <1>5, AllAlike
<1>12. DailySpend(w)[d] = Spent(slots)
    BY DEF DailySpend
<1> HIDE DEF slots
<1>13. Spent(slots) = SteadyCost * D
    BY <1>8, <1>9, <1>10
<1> QED BY <1>11, <1>12, <1>13

\* Three whole numbers have one between the others.
LEMMA OneBetween ==
    ASSUME NEW P, IsFiniteSet(P), P \subseteq Int, Cardinality(P) >= 3
    PROVE  \E a, d, b \in P : a < d /\ d < b
<1>1. Cardinality(P) \in Nat /\ P # {}
    BY FS_CardinalityType, FS_EmptySet
<1>2. PICK x \in P : TRUE
    BY <1>1
<1>3. IsFiniteSet(P \ {x}) /\ Cardinality(P \ {x}) = Cardinality(P) - 1
    BY RestIsSmaller
<1>4. PICK y \in P \ {x} : TRUE
    <2>1. Cardinality(P \ {x}) # 0
        BY <1>1, <1>3
    <2> QED BY <2>1, FS_EmptySet
<1>5. IsFiniteSet((P \ {x}) \ {y}) /\ Cardinality((P \ {x}) \ {y}) = Cardinality(P \ {x}) - 1
    BY <1>3, RestIsSmaller
<1>6. PICK z \in (P \ {x}) \ {y} : TRUE
    <2>1. Cardinality((P \ {x}) \ {y}) # 0
        BY <1>1, <1>3, <1>5
    <2> QED BY <2>1, FS_EmptySet
<1>7. x \in Int /\ y \in Int /\ z \in Int /\ x # y /\ y # z /\ x # z
    BY <1>4, <1>6
<1>8. \/ (x < y /\ y < z) \/ (x < z /\ z < y) \/ (y < x /\ x < z)
      \/ (y < z /\ z < x) \/ (z < x /\ x < y) \/ (z < y /\ y < x)
    BY <1>7
<1>9. x \in P /\ y \in P /\ z \in P
    BY <1>4, <1>6
<1> QED BY <1>8, <1>9

\* Only the first and the last day of the baseline are cheaper than the window: these are
\* not nine in ten of three days or more.
LEMMA SteadySetOffNone ==
    ASSUME TypeOK, Steady, NEW w \in Nat \ {0}
    PROVE  ~detect_cost_anomaly(w)
<1> SUFFICES ASSUME detect_cost_anomaly(w) PROVE FALSE
    OBVIOUS
<1> DEFINE D == SlotsPerDay
           K == BaselineDays(w)
           f == DailySpend(w)
           Y == Spent(Between(clock - w, clock))
           P == {d \in K : w * f[d] < D * Y}
           c == SteadyCost
<1>1. /\ D \in Nat \ {0} /\ clock \in Int /\ DayOf(clock) \in Int
      /\ IsFiniteSet(K) /\ Cardinality(K) \in Nat /\ K \subseteq Int
      /\ Baseline(w) \subseteq Int
    <2>1. K \subseteq (DayOf(clock) - 14)..DayOf(clock) /\ DayOf(clock) \in Int
        BY DaysOfBaseline
    <2> QED BY <2>1, DaysOfBaseline, ReportsAssumption
<1>2. Cardinality(K) >= 3 /\ 9 * Cardinality(K) < 10 * Cardinality(P)
    BY AlarmIsAbove
<1>3. P \in SUBSET K /\ IsFiniteSet(P) /\ Cardinality(P) \in Nat
    <2>1. P \in SUBSET K
        OBVIOUS
    <2> QED BY <1>1, <2>1, FS_Subset, FS_CardinalityType
<1>4. Cardinality(P) >= 3
    BY <1>1, <1>2, <1>3
<1>5. PICK a \in P, d \in P, b \in P : a < d /\ d < b
    <2>1. P \subseteq Int
        BY <1>1, <1>3
    <2> HIDE DEF P
    <2> QED BY <1>3, <1>4, <2>1, OneBetween
<1>6. c \in Nat /\ f[d] = c * D
    BY <1>3, <1>5, WholeDay
<1>7. Y = c * w
    <2>1. PICK t \in Baseline(w) : DayOf(t) = a
        BY <1>3, <1>5 DEF BaselineDays
    <2>2. t \in DOMAIN Usage[scenario] /\ Usage[scenario][t].calls > 0 /\ t < clock - w
        BY <2>1 DEF Baseline, Between
    <2>3. t <= clock - w /\ clock - w < clock /\ clock <= clock /\ clock - w \in Int
            /\ clock - (clock - w) = w
        BY <1>1, <2>1, <2>2
    <2>4. Y = c * (clock - (clock - w))
        BY <1>1, <2>2, <2>3, SteadyWindow
    <2> QED BY <2>3, <2>4
<1>8. w * f[d] < D * Y
    BY <1>5
<1>9. w * (c * D) = D * (c * w) /\ w * (c * D) \in Int
    BY <1>1, <1>6
<1> HIDE DEF f, Y, c, D
<1> QED BY <1>6, <1>7, <1>8, <1>9

\* The forecast is what was spent since the first call, for as much longer as a month is
\* than the time from the middle of its slot.
LEMMA SteadyForecast ==
    ASSUME TypeOK, Steady, Month # {}, 10 * TwiceActive >= 2 * SlotsPerDay
    PROVE  LET f == forecast_monthly_spend
               month == 30 * SlotsPerDay * SteadyCost
           IN  f[1] >= month * f[2] /\ f[1] <= 2 * month * f[2]
<1> DEFINE D == SlotsPerDay
           c == SteadyCost
           m == clock - Earliest
<1>1. D \in Nat \ {0} /\ clock \in Int
    BY ReportsAssumption, UsageIsList DEF TypeOK
<1>2. Month \in SUBSET Nat
    <2>1. Month \in SUBSET (DOMAIN Usage[scenario])
        BY DEF Month, Between
    <2>2. DOMAIN Usage[scenario] = 1..Len(Usage[scenario]) /\ Len(Usage[scenario]) \in Nat
        BY UsageIsList DEF TypeOK
    <2> QED BY <2>1, <2>2
<1>3. Earliest \in Month /\ \A u \in Month : Earliest <= u
    <2>1. \E t \in Month : \A u \in Month : t <= u
        BY <1>2, LeastNumber
    <2> QED BY <2>1 DEF Earliest
<1>4. /\ Earliest \in Int /\ Earliest \in DOMAIN Usage[scenario]
      /\ Usage[scenario][Earliest].calls > 0
      /\ clock - 30 * D <= Earliest /\ Earliest < clock
    BY <1>2, <1>3 DEF Month, Between
<1>5. /\ Between(Earliest, clock) = Earliest..(clock - 1)
      /\ Spent(Between(Earliest, clock)) = c * (clock - Earliest)
    BY <1>1, <1>4, SteadyWindow
<1>6. Month = Between(Earliest, clock)
    <2>1. \A t \in DOMAIN Usage[scenario] : t \in Int
        BY SlotsSpent
    <2>2. Month \subseteq Between(Earliest, clock)
        BY <1>3 DEF Month, Between
    <2>3. Between(Earliest, clock) \subseteq Month
        BY <1>1, <1>4, <2>1 DEF Month, Between
    <2> QED BY <2>2, <2>3
<1>7. Spent(Month) = c * m /\ c \in Nat /\ m \in Nat /\ m >= 1
    BY <1>1, <1>4, <1>5, <1>6, AllAlike
<1>8. TwiceActive = 2 * m - 1
    BY DEF TwiceActive
<1> HIDE DEF m
<1>9. 10 * TwiceActive \in Int /\ ~(10 * TwiceActive < 2 * SlotsPerDay)
    BY <1>1, <1>7, <1>8
<1>10. forecast_monthly_spend = <<Spent(Month) * 30 * 2 * D, TwiceActive>>
    BY <1>9 DEF forecast_monthly_spend
<1> HIDE DEF c, D
<1>11. forecast_monthly_spend[1] = (c * m) * 30 * 2 * D
        /\ forecast_monthly_spend[2] = 2 * m - 1
    BY <1>7, <1>8, <1>10
<1>12. /\ (c * m) * 30 * 2 * D >= 30 * D * c * (2 * m - 1)
       /\ (c * m) * 30 * 2 * D <= 2 * (30 * D * c) * (2 * m - 1)
    <2> DEFINE cD == c * D
               cDm == (c * D) * m
    <2>1. /\ (c * m) * 30 * 2 * D = 60 * cDm
          /\ 30 * D * c * (2 * m - 1) = 60 * cDm - 30 * cD
          /\ 2 * (30 * D * c) * (2 * m - 1) = 120 * cDm - 60 * cD
        BY <1>1, <1>7
    <2>2. cD \in Nat /\ cDm \in Nat /\ cD <= cDm
        <3>1. (c * D) * 1 <= (c * D) * m
            BY <1>1, <1>7
        <3> QED BY <1>1, <1>7, <3>1
    <2> HIDE DEF cD, cDm
    <2> QED BY <2>1, <2>2
<1> QED BY <1>11, <1>12 DEF c, D

LEMMA SteadyIsAllRight == TypeOK => SteadyIsNormal
<1> SUFFICES ASSUME TypeOK, Steady
             PROVE  /\ \A w \in Windows : ~detect_cost_anomaly(w)
                    /\ LET f == forecast_monthly_spend
                           month == 30 * SlotsPerDay * SteadyCost
                       IN  Month # {} /\ 10 * TwiceActive >= 2 * SlotsPerDay =>
                                f[1] >= month * f[2] /\ f[1] <= 2 * month * f[2]
    BY DEF SteadyIsNormal
<1>1. \A w \in Windows : ~detect_cost_anomaly(w)
    <2>1. Windows \subseteq Nat \ {0}
        BY ReportsAssumption
    <2> QED BY <2>1, SteadySetOffNone
<1> QED BY <1>1, SteadyForecast

-----------------------------------------------------------------------------
(* What it shows.                                                          *)

\* Every variable has its type; a run never goes through more than three suggestions.
THEOREM Typed == Spec => []TypeOK
<1>1. IInv => TypeOK
    BY DEF IInv
<1> QED BY <1>1, Invariant, PTL

\* A suggestion is listed twice only by runs of the job that overlapped: a run that began
\* after another was over sees its rows, and adds none of them again.
THEOREM CopiesNeedOverlap == Spec => []CopiesOverlap
<1>1. IInv => CopiesOverlap
    BY DEF IInv
<1> QED BY <1>1, Invariant, PTL

\* An alarm means something: clients that make the same calls all the time set off none,
\* whatever the window, and the forecast for them is what they spend in a month or up to
\* twice that; where one goes off for a day, one day of the baseline at most was as dear.
THEOREM AlarmsMeanSomething == Spec => []AlarmsAreSpikes
<1>1. TypeOK => AlarmsAreSpikes
    BY SteadyIsAllRight, AlarmsAreRare DEF AlarmsAreSpikes
<1> QED BY Typed, <1>1, PTL

=============================================================================
