-------------------------- MODULE ComponentProofs --------------------------
(***************************************************************************)
(* Proofs about three components that share nothing, and whose names are   *)
(* kept apart for it: RateLimiter, SmartRetry and Startup.                 *)
(***************************************************************************)
EXTENDS RateLimiter, SmartRetry, Startup, FiniteSetTheorems, TLAPS

-----------------------------------------------------------------------------
(* RateLimiter, for every finite set of replicas, every limit and window,  *)
(* and every delay up to the window.                                       *)

(* Sets of times.                                                          *)

\* A set of times that have passed is finite, and its subsets are no larger.
LEMMA TimesAreFinite ==
    ASSUME NEW n \in Nat, NEW T \in SUBSET (0..(n - 1))
    PROVE  /\ IsFiniteSet(T) /\ Cardinality(T) \in Nat
           /\ \A S \in SUBSET T : IsFiniteSet(S) /\ Cardinality(S) \in Nat
                                    /\ Cardinality(S) <= Cardinality(T)
<1>1. IsFiniteSet(0..(n - 1))
    BY FS_Interval
<1>2. IsFiniteSet(T)
    BY <1>1, FS_Subset
<1>3. \A S \in SUBSET T : IsFiniteSet(S) /\ Cardinality(S) <= Cardinality(T)
    BY <1>2, FS_Subset
<1> QED BY <1>2, <1>3, FS_CardinalityType

\* Among fewer than k elements there is room for one more.
LEMMA RoomForOne ==
    ASSUME NEW n \in Nat, NEW S \in SUBSET (0..(n - 1)), NEW t, NEW k \in Nat,
           Cardinality(S) < k
    PROVE  \A T \in SUBSET (S \cup {t}) : Cardinality(T) <= k
<1>1. IsFiniteSet(S) /\ Cardinality(S) \in Nat
    BY TimesAreFinite
<1>2. IsFiniteSet(S \cup {t}) /\ Cardinality(S \cup {t}) <= Cardinality(S) + 1
    BY <1>1, FS_AddElement
<1>3. Cardinality(S \cup {t}) \in Nat
    BY <1>2, FS_CardinalityType
<1> SUFFICES ASSUME NEW T \in SUBSET (S \cup {t}) PROVE Cardinality(T) <= k
    OBVIOUS
<1>4. IsFiniteSet(T) /\ Cardinality(T) <= Cardinality(S \cup {t})
    BY <1>2, FS_Subset
<1>5. Cardinality(T) \in Nat
    BY <1>4, FS_CardinalityType
<1> QED BY <1>1, <1>2, <1>3, <1>4, <1>5

\* One replica is one replica.
LEMMA TheOnlyOne ==
    ASSUME TypeOK, OneReplica, NEW p \in serving, NEW q \in serving
    PROVE  p = q
<1>1. IsFiniteSet(serving)
    BY ReplicasAssumption, FS_Subset DEF TypeOK
<1>2. \E x : serving = {x}
    BY <1>1, FS_Singleton DEF OneReplica
<1> QED BY <1>2

-----------------------------------------------------------------------------
(* What is counted for a call.                                             *)

LEMMA InitIInv == Init => IInv
<1> SUFFICES ASSUME Init PROVE IInv
    OBVIOUS
<1>1. {a \in admitted : clock - Window <= a} = {}
    BY DEF Init
<1>2. Cardinality({}) = 0
    BY FS_EmptySet
<1>3. TypeOK
    BY LimitAssumption DEF Init, TypeOK
<1>4. StampInv /\ KeptInv /\ EntriesInv /\ WindowBounded /\ RefusedWhenBusy /\ RefusedWhenUsedUp
    BY DEF Init, StampInv, KeptInv, EntriesInv, WindowBounded, RefusedWhenBusy, RefusedWhenUsedUp
<1>5. ExpiryInv /\ OrderInv
    BY LimitAssumption DEF Init, ExpiryInv, OrderInv, TypeOK
<1>6. RecentBounded
    BY <1>1, <1>2, LimitAssumption DEF RecentBounded
<1> QED BY <1>3, <1>4, <1>5, <1>6 DEF IInv

\* Whatever the limiter let through lately is counted for a stamped call, and
\* nothing but earlier calls is.
LEMMA LiveCounts ==
    ASSUME IInv, NEW p \in serving, pc[p] = "stamped"
    PROVE  /\ now[p] \in 0..(clock - 1) /\ now[p] \notin counted
           /\ Live(now[p]) \subseteq entries /\ Live(now[p]) \subseteq counted
           /\ Live(now[p]) \in SUBSET (0..(clock - 1)) /\ Cardinality(Live(now[p])) \in Nat
           /\ \A e \in Live(now[p]) : now[p] - Window < e
           /\ \A a \in admitted : clock - Window <= a => a \in Live(now[p])
           /\ OneReplica => \A a \in admitted : now[p] - Window < a => a \in Live(now[p])
<1> DEFINE t == now[p]
<1>1. p \in Replicas /\ t \in 0..MaxTime /\ t < clock /\ t \notin counted
    BY DEF IInv, TypeOK, StampInv
<1>2. clock \in Nat /\ expires \in Nat /\ Window \in Nat /\ Window > 0
    BY LimitAssumption DEF IInv, TypeOK
<1>3. Live(t) \subseteq entries /\ entries \subseteq counted
        /\ (\A e \in Live(t) : t - Window < e)
    BY DEF IInv, TypeOK, Live, Recent
<1>4. \A a \in admitted : a \in Nat /\ a + 2 * Window < expires
    <2>1. \A a \in admitted : a \in counted /\ a \in 0..(clock - 1)
        BY DEF IInv, TypeOK
    <2> QED BY <1>2, <2>1 DEF IInv, ExpiryInv
<1>5. ASSUME NEW a \in admitted, clock - Window <= a
      PROVE  a \in Live(t)
    <2>1. a \in entries
        BY <1>5 DEF IInv, KeptInv
    <2>2. a > t - Window /\ clock < expires
        BY <1>1, <1>2, <1>4, <1>5
    <2> QED BY <2>1, <2>2, <1>2 DEF Live, Recent
<1>6. ASSUME OneReplica, NEW a \in admitted, t - Window < a
      PROVE  a \in Live(t)
    <2>1. a \in entries /\ clock - t <= Window
        BY <1>6 DEF IInv, OrderInv
    <2>2. clock < expires
        BY <1>1, <1>2, <1>4, <1>6, <2>1
    <2> QED BY <1>1, <1>2, <1>4, <1>6, <2>1, <2>2 DEF Live, Recent
<1>7. Live(t) \in SUBSET (0..(clock - 1))
    <2>1. counted \subseteq 0..(clock - 1)
        BY DEF IInv, TypeOK
    <2> QED BY <1>3, <2>1
<1>8. Cardinality(Live(t)) \in Nat
    BY <1>2, <1>7, TimesAreFinite
<1> QED BY <1>1, <1>2, <1>3, <1>5, <1>6, <1>7, <1>8

-----------------------------------------------------------------------------
(* What holds of the histories goes on to hold.                            *)

\* Time only takes calls out of a window.
LEMMA AdmittedStay ==
    ASSUME IInv, TypeOK', clock' >= clock, UNCHANGED <<serving, admitted>>
    PROVE  RecentBounded' /\ WindowBounded'
<1>1. clock \in Nat /\ clock' \in Nat /\ Window \in Nat /\ Limit \in Nat
    BY LimitAssumption DEF IInv, TypeOK
<1>2. admitted \in SUBSET (0..(clock - 1))
    BY DEF IInv, TypeOK
<1> DEFINE A == {a \in admitted : clock - Window <= a}
           B == {a \in admitted : clock' - Window <= a}
<1>3. A \in SUBSET (0..(clock - 1)) /\ B \in SUBSET A
    <2>1. \A a \in admitted : a \in Int
        BY <1>2
    <2>2. \A a \in admitted : clock' - Window <= a => clock - Window <= a
        BY <1>1, <2>1
    <2> QED BY <1>2, <2>2
<1>4. Cardinality(B) <= Cardinality(A) /\ Cardinality(B) \in Nat /\ Cardinality(A) \in Nat
    BY <1>1, <1>3, TimesAreFinite
<1>5. Cardinality(A) <= Limit
    BY DEF IInv, RecentBounded
<1>6. Cardinality(B) <= Limit
    BY <1>1, <1>4, <1>5
<1>7. RecentBounded'
    BY <1>6 DEF RecentBounded
<1>8. WindowBounded'
    BY DEF IInv, WindowBounded, OneReplica
<1> QED BY <1>7, <1>8

\* The reasons for a refusal do not go away.
LEMMA RefusedStay ==
    ASSUME IInv, TypeOK', UNCHANGED <<serving, faults>>,
           counted \subseteq counted', admitted \cup passed \subseteq (admitted \cup passed)'
    PROVE  \A t \in refused :
            /\ Cardinality({c \in counted' \ {t} : t - Window < c}) >= Limit
            /\ OneReplica /\ "crash" \notin faults =>
                Cardinality({a \in (admitted \cup passed)' : t - Window < a /\ a < t}) >= Limit
<1>1. clock' \in Nat /\ Limit \in Nat
    BY LimitAssumption DEF TypeOK
<1>2. counted' \in SUBSET (0..(clock' - 1)) /\ (admitted \cup passed)' \in SUBSET (0..(clock' - 1))
    BY DEF TypeOK
<1> SUFFICES ASSUME NEW t \in refused
             PROVE  /\ Cardinality({c \in counted' \ {t} : t - Window < c}) >= Limit
                    /\ OneReplica /\ "crash" \notin faults =>
                        Cardinality({a \in (admitted \cup passed)' : t - Window < a /\ a < t}) >= Limit
    OBVIOUS
<1> DEFINE C == {c \in counted \ {t} : t - Window < c}
           D == {c \in counted' \ {t} : t - Window < c}
           E == {a \in admitted \cup passed : t - Window < a /\ a < t}
           F == {a \in (admitted \cup passed)' : t - Window < a /\ a < t}
<1>3. D \in SUBSET (0..(clock' - 1)) /\ C \in SUBSET D
    BY <1>2
<1>4. F \in SUBSET (0..(clock' - 1)) /\ E \in SUBSET F
    BY <1>2
<1>5. Cardinality(C) <= Cardinality(D) /\ Cardinality(C) \in Nat /\ Cardinality(D) \in Nat
    BY <1>1, <1>3, TimesAreFinite
<1>6. Cardinality(E) <= Cardinality(F) /\ Cardinality(E) \in Nat /\ Cardinality(F) \in Nat
    BY <1>1, <1>4, TimesAreFinite
<1>7. Cardinality(C) >= Limit
    BY DEF IInv, RefusedWhenBusy
<1>8. OneReplica /\ "crash" \notin faults => Cardinality(E) >= Limit
    BY DEF IInv, RefusedWhenUsedUp
<1> QED BY <1>1, <1>5, <1>6, <1>7, <1>8

\* Nobody is admitted or refused.
LEMMA NobodyDecided ==
    ASSUME IInv, TypeOK', clock' >= clock, UNCHANGED <<serving, faults, admitted, refused>>,
           counted \subseteq counted', passed \subseteq passed'
    PROVE  RecentBounded' /\ WindowBounded' /\ RefusedWhenBusy' /\ RefusedWhenUsedUp'
<1>1. RecentBounded' /\ WindowBounded'
    BY AdmittedStay
<1>2. admitted \cup passed \subseteq (admitted \cup passed)'
    OBVIOUS
<1>3. RefusedWhenBusy' /\ RefusedWhenUsedUp'
    BY <1>2, RefusedStay DEF RefusedWhenBusy, RefusedWhenUsedUp, OneReplica
<1> QED BY <1>1, <1>3

-----------------------------------------------------------------------------
(* The steps.                                                              *)

\* A call comes in.
LEMMA StampStep == ASSUME IInv, NEW p \in serving, Stamp(p) PROVE IInv'
<1>1. /\ p \in Replicas /\ pc[p] = "idle" /\ clock \in Nat /\ clock < MaxTime
      /\ clock' = clock + 1 /\ MaxTime \in Nat /\ Window \in Nat /\ Window > 0
    BY LimitAssumption DEF IInv, TypeOK, Stamp
<1>2. /\ now' = [now EXCEPT ![p] = clock] /\ pc' = [pc EXCEPT ![p] = "stamped"]
      /\ UNCHANGED <<serving, faults, entries, expires, counted, admitted, passed, refused>>
    BY DEF Stamp, Goto, histories
<1>3. TypeOK'
    BY <1>1, <1>2 DEF IInv, TypeOK
<1>4. StampInv'
    BY <1>1, <1>2 DEF IInv, TypeOK, StampInv
<1>5. ExpiryInv' /\ KeptInv'
    BY <1>1, <1>2, LimitAssumption DEF IInv, TypeOK, ExpiryInv, KeptInv
<1>6. OrderInv'
    <2> SUFFICES ASSUME OneReplica, NEW q \in serving
                 PROVE  /\ now'[q] <= clock'
                        /\ \A c \in counted : c <= now'[q]
                        /\ pc'[q] = "stamped" =>
                            /\ clock' - now'[q] <= Window
                            /\ \A a \in admitted : now'[q] - Window < a => a \in entries
        BY <1>2 DEF OrderInv, OneReplica
    <2>1. q = p
        BY TheOnlyOne DEF IInv
    <2>2. now'[q] = clock
        BY <1>1, <1>2, <2>1 DEF IInv, TypeOK
    <2> QED BY <1>1, <2>2 DEF IInv, TypeOK, KeptInv
<1>7. EntriesInv'
    <2>1. ASSUME OneReplica, NEW q \in serving PROVE pc[q] # "over"
        BY <1>1, <2>1, TheOnlyOne DEF IInv
    <2> QED BY <1>2, <2>1 DEF IInv, EntriesInv, OneReplica
<1>8. RecentBounded' /\ WindowBounded' /\ RefusedWhenBusy' /\ RefusedWhenUsedUp'
    BY <1>1, <1>2, <1>3, NobodyDecided
<1> QED BY <1>3, <1>4, <1>5, <1>6, <1>7, <1>8 DEF IInv

\* What a transaction does to the sorted set, whatever becomes of the call.
LEMMA TransactionStep ==
    ASSUME IInv, NEW p \in serving, pc[p] = "stamped", Transaction(p),
           UNCHANGED <<serving, faults, clock, now>>,
           NEW l \in {"idle", "over"}, Goto(p, l),
           admitted' = admitted \/ (l = "idle" /\ admitted' = admitted \cup {now[p]}),
           passed' \in {passed, passed \cup {now[p]}},
           refused' \in {refused, refused \cup {now[p]}}
    PROVE  TypeOK' /\ StampInv' /\ ExpiryInv' /\ KeptInv' /\ OrderInv'
<1> DEFINE t == now[p]
<1>1. /\ p \in Replicas /\ t \in 0..(clock - 1) /\ t \notin counted /\ t \notin admitted
      /\ clock \in Nat /\ clock <= MaxTime /\ Window \in Nat /\ Window > 0 /\ MaxTime \in Nat
    BY LimitAssumption, LiveCounts DEF IInv, TypeOK, StampInv
<1>2. /\ entries' = Live(t) \cup {t} /\ expires' = clock + 2 * Window
      /\ counted' = counted \cup {t} /\ pc' = [pc EXCEPT ![p] = l]
    BY DEF Transaction, TimeToLive, Goto
<1>3. /\ Live(t) \subseteq counted
      /\ \A a \in admitted : clock - Window <= a => a \in Live(t)
      /\ OneReplica => \A a \in admitted : t - Window < a => a \in Live(t)
    BY LiveCounts
<1>4. TypeOK'
    <2>1. entries' \subseteq counted' /\ admitted' \subseteq counted' /\ refused' \subseteq counted'
        BY <1>2, <1>3 DEF IInv, TypeOK
    <2>2. counted' \subseteq 0..(clock' - 1) /\ passed' \subseteq 0..(clock' - 1)
        BY <1>1, <1>2 DEF IInv, TypeOK
    <2>3. expires' \in 0..(MaxTime + 2 * Window) /\ pc' \in [Replicas -> {"idle", "stamped", "over"}]
        BY <1>1, <1>2 DEF IInv, TypeOK
    <2> QED BY <2>1, <2>2, <2>3 DEF IInv, TypeOK
<1>5. StampInv'
    <2> SUFFICES ASSUME NEW q \in Replicas, pc'[q] # "idle"
                 PROVE  /\ q \in serving /\ now[q] < clock /\ now[q] \notin admitted'
                        /\ pc'[q] = "stamped" => now[q] \notin counted'
                        /\ \A o \in Replicas \ {q} : pc'[o] # "idle" => now[q] # now[o]
        BY <1>2 DEF StampInv
    <2>1. pc[q] # "idle" /\ \A o \in Replicas : pc'[o] # "idle" => pc[o] # "idle"
        BY <1>1, <1>2 DEF IInv, TypeOK
    <2>2. q = p => admitted' = admitted /\ pc'[q] # "stamped"
        BY <1>1, <1>2 DEF IInv, TypeOK
    <2>3. q # p => now[q] # t /\ pc'[q] = pc[q]
        BY <1>1, <1>2, <2>1 DEF IInv, TypeOK, StampInv
    <2> QED BY <1>1, <1>2, <2>1, <2>2, <2>3 DEF IInv, StampInv
<1>6. ExpiryInv'
    BY <1>1, <1>2 DEF IInv, TypeOK, ExpiryInv
<1>7. KeptInv'
    BY <1>2, <1>3 DEF KeptInv
<1>8. OrderInv'
    <2> SUFFICES ASSUME OneReplica, NEW q \in serving
                 PROVE  /\ now[q] <= clock
                        /\ \A c \in counted' : c <= now[q]
                        /\ pc'[q] # "stamped"
        BY DEF OrderInv, OneReplica
    <2>1. q = p
        BY TheOnlyOne DEF IInv
    <2> QED BY <1>1, <1>2, <2>1 DEF IInv, TypeOK, OrderInv
<1> QED BY <1>4, <1>5, <1>6, <1>7, <1>8

\* A call is let through.
LEMMA AdmitStep == ASSUME IInv, NEW p \in serving, Admit(p) PROVE IInv'
<1> DEFINE t == now[p]
<1>1. /\ pc[p] = "stamped" /\ Cardinality(Live(t)) < Limit /\ Transaction(p) /\ Goto(p, "idle")
      /\ admitted' = admitted \cup {t}
      /\ UNCHANGED <<serving, faults, clock, now, passed, refused>>
    <2>1. pc[p] = "stamped"
        BY DEF Admit
    <2>2. Cardinality(Live(t)) \in Nat /\ Limit \in Nat
        BY <2>1, LimitAssumption, LiveCounts
    <2> QED BY <2>2 DEF Admit, Reached
<1>2. TypeOK' /\ StampInv' /\ ExpiryInv' /\ KeptInv' /\ OrderInv'
    BY <1>1, TransactionStep
<1>3. /\ Live(t) \in SUBSET (0..(clock - 1)) /\ t \in 0..(clock - 1) /\ clock \in Nat
      /\ t \notin counted /\ Limit \in Nat /\ Window \in Nat
    <2>1. clock \in Nat
        BY LimitAssumption DEF IInv, TypeOK
    <2> QED BY <1>1, <2>1, LiveCounts, LimitAssumption
<1>4. \A T \in SUBSET (Live(t) \cup {t}) : Cardinality(T) <= Limit
    BY <1>1, <1>3, RoomForOne
<1>5. RecentBounded'
    <2>1. {a \in admitted' : clock - Window <= a} \in SUBSET (Live(t) \cup {t})
        BY <1>1, LiveCounts
    <2> QED BY <1>1, <1>4, <2>1 DEF RecentBounded
<1>6. WindowBounded'
    <2> SUFFICES ASSUME OneReplica, NEW u \in admitted'
                 PROVE  Cardinality({a \in admitted' : u - Window < a /\ a <= u}) <= Limit
        BY <1>1 DEF WindowBounded, OneReplica
    <2>1. CASE u = t
        <3>1. {a \in admitted' : u - Window < a /\ a <= u} \in SUBSET (Live(t) \cup {t})
            BY <1>1, <2>1, LiveCounts
        <3> QED BY <1>4, <3>1
    <2>2. CASE u # t
        <3>1. u \in admitted /\ u \in counted /\ u \in Nat /\ u <= t
            BY <1>1, <2>2 DEF IInv, TypeOK, OrderInv
        <3>2. ~(t <= u)
            BY <1>3, <2>2, <3>1
        <3>3. {a \in admitted' : u - Window < a /\ a <= u}
                = {a \in admitted : u - Window < a /\ a <= u}
            BY <1>1, <3>2
        <3> QED BY <3>1, <3>3 DEF IInv, WindowBounded
    <2> QED BY <2>1, <2>2
<1>7. EntriesInv'
    <2> SUFFICES ASSUME OneReplica, "crash" \notin faults, NEW e \in entries'
                 PROVE  e \in admitted' \cup passed'
        BY <1>1 DEF EntriesInv, OneReplica
    <2>1. e = t \/ e \in entries
        BY <1>1, LiveCounts DEF Transaction
    <2>2. \A q \in serving : pc[q] # "over"
        BY <1>1, TheOnlyOne DEF IInv
    <2> QED BY <1>1, <2>1, <2>2 DEF IInv, EntriesInv
<1>8. RefusedWhenBusy' /\ RefusedWhenUsedUp'
    <2>1. counted \subseteq counted' /\ admitted \cup passed \subseteq (admitted \cup passed)'
        BY <1>1 DEF Transaction
    <2> QED BY <1>1, <1>2, <2>1, RefusedStay DEF RefusedWhenBusy, RefusedWhenUsedUp, OneReplica
<1> QED BY <1>2, <1>5, <1>6, <1>7, <1>8 DEF IInv

\* A call finds the limit reached.
LEMMA RefuseStep == ASSUME IInv, NEW p \in serving, Refuse(p) PROVE IInv'
<1> DEFINE t == now[p]
<1>1. /\ pc[p] = "stamped" /\ Cardinality(Live(t)) >= Limit /\ Transaction(p) /\ Goto(p, "over")
      /\ refused' = refused \cup {t}
      /\ UNCHANGED <<serving, faults, clock, now, admitted, passed>>
    BY DEF Refuse, Reached
<1>2. TypeOK' /\ StampInv' /\ ExpiryInv' /\ KeptInv' /\ OrderInv'
    BY <1>1, TransactionStep
<1>3. /\ clock \in Nat /\ Limit \in Nat /\ Cardinality(Live(t)) \in Nat
      /\ Live(t) \subseteq counted /\ Live(t) \subseteq entries
      /\ t \in 0..(clock - 1) /\ t \notin counted
      /\ \A e \in Live(t) : t - Window < e /\ e # t
    <2>1. clock \in Nat
        BY LimitAssumption DEF IInv, TypeOK
    <2> QED BY <1>1, <2>1, LiveCounts, LimitAssumption
<1>4. counted' = counted \cup {t}
    BY <1>1 DEF Transaction
<1>5. RecentBounded' /\ WindowBounded'
    BY <1>1, <1>2, <1>3, AdmittedStay
<1>6. EntriesInv'
    <2> SUFFICES ASSUME OneReplica, "crash" \notin faults, NEW e \in entries'
                 PROVE  e \in admitted \cup passed \/ (pc'[p] = "over" /\ t = e)
        BY <1>1 DEF EntriesInv, OneReplica
    <2>1. e = t \/ e \in entries
        BY <1>1, <1>3 DEF Transaction
    <2>2. \A q \in serving : pc[q] # "over"
        BY <1>1, TheOnlyOne DEF IInv
    <2>3. pc'[p] = "over"
        BY <1>1 DEF IInv, TypeOK, Goto
    <2> QED BY <2>1, <2>2, <2>3 DEF IInv, EntriesInv
<1>7. counted' \in SUBSET (0..(clock - 1)) /\ (admitted \cup passed)' \in SUBSET (0..(clock - 1))
    BY <1>1, <1>2 DEF TypeOK
<1>8. Cardinality({c \in counted' \ {t} : t - Window < c}) >= Limit
    <2> DEFINE C == {c \in counted' \ {t} : t - Window < c}
    <2>1. C \in SUBSET (0..(clock - 1)) /\ Live(t) \in SUBSET C
        BY <1>3, <1>4, <1>7
    <2>2. Cardinality(C) >= Cardinality(Live(t)) /\ Cardinality(C) \in Nat
        BY <1>3, <2>1, TimesAreFinite
    <2> HIDE DEF C
    <2>3. Cardinality(C) >= Limit
        BY <1>1, <1>3, <2>2
    <2> QED BY <2>3 DEF C
<1>9. OneReplica /\ "crash" \notin faults =>
        Cardinality({a \in (admitted \cup passed)' : t - Window < a /\ a < t}) >= Limit
    <2> SUFFICES ASSUME OneReplica, "crash" \notin faults
                 PROVE  Cardinality({a \in (admitted \cup passed)' : t - Window < a /\ a < t}) >= Limit
        OBVIOUS
    <2> DEFINE A == {a \in (admitted \cup passed)' : t - Window < a /\ a < t}
    <2>1. \A q \in serving : pc[q] # "over"
        BY <1>1, TheOnlyOne DEF IInv
    <2>2. entries \subseteq admitted \cup passed
        BY <2>1 DEF IInv, EntriesInv
    <2>3. \A e \in Live(t) : e \in Int /\ e <= t /\ e # t
        <3>1. \A e \in Live(t) : e <= t
            BY <1>3 DEF IInv, OrderInv
        <3>2. \A e \in Live(t) : e \in Int
            BY <1>3, <1>4, <1>7
        <3> QED BY <1>3, <3>1, <3>2
    <2>4. \A e \in Live(t) : e < t
        BY <1>3, <2>3
    <2>5. A \in SUBSET (0..(clock - 1)) /\ Live(t) \in SUBSET A
        BY <1>1, <1>3, <1>7, <2>2, <2>4
    <2>6. Cardinality(A) >= Cardinality(Live(t)) /\ Cardinality(A) \in Nat
        BY <1>3, <2>5, TimesAreFinite
    <2> HIDE DEF A
    <2>7. Cardinality(A) >= Limit
        BY <1>1, <1>3, <2>6
    <2> QED BY <2>7 DEF A
<1>10. RefusedWhenBusy' /\ RefusedWhenUsedUp'
    <2>1. counted \subseteq counted' /\ admitted \cup passed \subseteq (admitted \cup passed)'
        BY <1>1, <1>4
    <2> QED BY <1>1, <1>2, <1>8, <1>9, <2>1, RefusedStay
            DEF RefusedWhenBusy, RefusedWhenUsedUp, OneReplica
<1> QED BY <1>2, <1>5, <1>6, <1>10 DEF IInv

\* Redis fails before or after it ran the transaction.
LEMMA TransactionFailsStep == ASSUME IInv, NEW p \in serving, TransactionFails(p) PROVE IInv'
<1> DEFINE t == now[p]
<1>1. /\ pc[p] = "stamped" /\ Goto(p, "idle") /\ passed' = passed \cup {t}
      /\ UNCHANGED <<serving, faults, clock, now, admitted, refused>>
    BY DEF TransactionFails
<1>2. t \in 0..(clock - 1) /\ clock \in Nat
    BY <1>1, LiveCounts, LimitAssumption DEF IInv, TypeOK
<1>3. pc' = [pc EXCEPT ![p] = "idle"] /\ p \in Replicas
    BY <1>1 DEF Goto, IInv, TypeOK
<1>4. CASE Transaction(p)
    <2>1. TypeOK' /\ StampInv' /\ ExpiryInv' /\ KeptInv' /\ OrderInv'
        BY <1>1, <1>4, TransactionStep
    <2>2. EntriesInv'
        <3> SUFFICES ASSUME OneReplica, "crash" \notin faults, NEW e \in entries'
                     PROVE  e \in admitted \cup passed'
            BY <1>1 DEF EntriesInv, OneReplica
        <3>1. e = t \/ e \in entries
            BY <1>1, <1>4, LiveCounts DEF Transaction
        <3>2. \A q \in serving : pc[q] # "over"
            BY <1>1, TheOnlyOne DEF IInv
        <3> QED BY <1>1, <3>1, <3>2 DEF IInv, EntriesInv
    <2>3. counted \subseteq counted'
        BY <1>4 DEF Transaction
    <2>4. RecentBounded' /\ WindowBounded' /\ RefusedWhenBusy' /\ RefusedWhenUsedUp'
        BY <1>1, <1>2, <2>1, <2>3, NobodyDecided
    <2> QED BY <2>1, <2>2, <2>4 DEF IInv
<1>5. CASE UNCHANGED <<entries, expires, counted>>
    <2>1. TypeOK'
        BY <1>1, <1>2, <1>3, <1>5 DEF IInv, TypeOK
    <2>2. StampInv' /\ ExpiryInv' /\ KeptInv'
        BY <1>1, <1>3, <1>5 DEF IInv, TypeOK, StampInv, ExpiryInv, KeptInv
    <2>3. OrderInv'
        BY <1>1, <1>3, <1>5 DEF IInv, TypeOK, OrderInv, OneReplica
    <2>4. EntriesInv'
        <3>1. OneReplica => \A q \in serving : pc[q] # "over"
            BY <1>1, TheOnlyOne DEF IInv
        <3> QED BY <1>1, <1>5, <3>1 DEF IInv, EntriesInv, OneReplica
    <2>5. RecentBounded' /\ WindowBounded' /\ RefusedWhenBusy' /\ RefusedWhenUsedUp'
        BY <1>1, <1>2, <1>5, <2>1, NobodyDecided
    <2> QED BY <2>1, <2>2, <2>3, <2>4, <2>5 DEF IInv
<1> QED BY <1>4, <1>5 DEF TransactionFails

\* A replica that was removing its entry goes on, with or without having removed it.
LEMMA RemovalStep ==
    ASSUME IInv, NEW p \in serving, pc[p] = "over", Goto(p, "idle"),
           UNCHANGED <<serving, faults, clock, expires, now, counted, admitted, refused>>,
           entries' \in {entries, Without(p)},
           passed' = passed \/ passed' = passed \cup {now[p]},
           entries' = Without(p) \/ passed' = passed \cup {now[p]} \/ "crash" \in faults
    PROVE  IInv'
<1> DEFINE t == now[p]
<1>1. /\ p \in Replicas /\ t \in 0..(clock - 1) /\ t \notin admitted
      /\ clock \in Nat /\ Window \in Nat
    BY LimitAssumption DEF IInv, TypeOK, StampInv
<1>2. pc' = [pc EXCEPT ![p] = "idle"]
    BY DEF Goto
<1>3. entries' \subseteq entries
    BY DEF Without
<1>4. TypeOK'
    BY <1>1, <1>2, <1>3 DEF IInv, TypeOK
<1>5. StampInv' /\ ExpiryInv'
    BY <1>2 DEF IInv, TypeOK, StampInv, ExpiryInv
<1>6. KeptInv'
    <2> SUFFICES ASSUME NEW a \in admitted, clock - Window <= a PROVE a \in entries'
        BY DEF KeptInv
    <2>1. a \in entries /\ a # t
        BY <1>1 DEF IInv, KeptInv
    <2>2. a \in Int /\ a + 2 * Window < expires /\ expires \in Nat
        BY LimitAssumption DEF IInv, TypeOK, ExpiryInv
    <2>3. clock < expires
        BY <1>1, <2>2
    <2> QED BY <1>1, <2>1, <2>2, <2>3 DEF Without
<1>7. OrderInv'
    <2> SUFFICES ASSUME OneReplica, NEW q \in serving
                 PROVE  now[q] <= clock /\ (\A c \in counted : c <= now[q]) /\ pc'[q] # "stamped"
        BY DEF OrderInv, OneReplica
    <2>1. q = p
        BY TheOnlyOne DEF IInv
    <2> QED BY <1>1, <1>2, <2>1 DEF IInv, TypeOK, OrderInv
<1>8. EntriesInv'
    <2> SUFFICES ASSUME OneReplica, "crash" \notin faults, NEW e \in entries'
                 PROVE  e \in admitted \cup passed'
        BY DEF EntriesInv, OneReplica
    <2>1. e \in entries /\ (e = t => e \in passed')
        BY <1>3 DEF Without
    <2>2. \A q \in serving : q = p
        BY TheOnlyOne DEF IInv
    <2> QED BY <2>1, <2>2 DEF IInv, EntriesInv
<1>9. RecentBounded' /\ WindowBounded' /\ RefusedWhenBusy' /\ RefusedWhenUsedUp'
    BY <1>1, <1>4, NobodyDecided
<1> QED BY <1>4, <1>5, <1>6, <1>7, <1>8, <1>9 DEF IInv

\* A replica dies, in or out of the limiter.
LEMMA CrashStep == ASSUME IInv, NEW p \in serving, Crash(p) PROVE IInv'
<1>1. /\ "crash" \in faults /\ p \in Replicas /\ pc' = [pc EXCEPT ![p] = "idle"]
      /\ UNCHANGED <<serving, faults, clock, entries, expires, now,
                     counted, admitted, passed, refused>>
    BY DEF Crash, Goto, histories, IInv, TypeOK
<1>2. TypeOK'
    BY <1>1 DEF IInv, TypeOK
<1>3. StampInv' /\ ExpiryInv' /\ KeptInv'
    BY <1>1 DEF IInv, TypeOK, StampInv, ExpiryInv, KeptInv
<1>4. OrderInv' /\ EntriesInv'
    BY <1>1 DEF IInv, TypeOK, OrderInv, EntriesInv, OneReplica
<1>5. clock' >= clock
    BY <1>1, LimitAssumption DEF IInv, TypeOK
<1>6. RecentBounded' /\ WindowBounded' /\ RefusedWhenBusy' /\ RefusedWhenUsedUp'
    BY <1>1, <1>2, <1>5, NobodyDecided
<1> QED BY <1>2, <1>3, <1>4, <1>6 DEF IInv

\* Time passes.
LEMMA TickStep == ASSUME IInv, Tick PROVE IInv'
<1>1. /\ clock' = clock + 1 /\ clock \in Nat /\ clock < MaxTime /\ InTime
      /\ MaxTime \in Nat /\ Window \in Nat /\ MaxDelay \in 0..Window
      /\ UNCHANGED <<serving, faults, entries, expires, pc, now,
                     counted, admitted, passed, refused>>
    BY LimitAssumption DEF IInv, TypeOK, Tick, histories
<1>2. TypeOK'
    BY <1>1 DEF IInv, TypeOK
<1>3. StampInv'
    BY <1>1 DEF IInv, TypeOK, StampInv
<1>4. ExpiryInv' /\ KeptInv'
    <2>1. \A a \in admitted : a \in Int
        BY DEF IInv, TypeOK
    <2>2. expires \in Nat
        BY LimitAssumption DEF IInv, TypeOK
    <2> QED BY <1>1, <2>1, <2>2 DEF IInv, ExpiryInv, KeptInv
<1>5. OrderInv'
    <2> SUFFICES ASSUME OneReplica, NEW p \in serving
                 PROVE  /\ now[p] <= clock'
                        /\ \A c \in counted : c <= now[p]
                        /\ pc[p] = "stamped" =>
                            /\ clock' - now[p] <= Window
                            /\ \A a \in admitted : now[p] - Window < a => a \in entries
        BY <1>1 DEF OrderInv, OneReplica
    <2>1. now[p] \in Nat
        BY DEF IInv, TypeOK
    <2>2. now[p] <= clock /\ (pc[p] = "stamped" => clock - now[p] < MaxDelay)
        BY <1>1 DEF IInv, OrderInv, InTime
    <2> QED BY <1>1, <2>1, <2>2 DEF IInv, OrderInv
<1>6. EntriesInv'
    BY <1>1 DEF IInv, EntriesInv, OneReplica
<1>7. RecentBounded' /\ WindowBounded' /\ RefusedWhenBusy' /\ RefusedWhenUsedUp'
    BY <1>1, <1>2, NobodyDecided
<1> QED BY <1>2, <1>3, <1>4, <1>5, <1>6, <1>7 DEF IInv

\* Nothing happens.
LEMMA IdleStep == ASSUME IInv, UNCHANGED vars PROVE IInv'
<1>1. UNCHANGED <<serving, faults, clock, entries, expires, pc, now,
                  counted, admitted, passed, refused>>
    BY DEF vars
<1>2. TypeOK' /\ StampInv' /\ ExpiryInv' /\ KeptInv' /\ OrderInv' /\ EntriesInv'
    BY <1>1 DEF IInv, TypeOK, StampInv, ExpiryInv, KeptInv, OrderInv, EntriesInv, OneReplica
<1>3. clock' >= clock
    BY <1>1, LimitAssumption DEF IInv, TypeOK
<1>4. RecentBounded' /\ WindowBounded' /\ RefusedWhenBusy' /\ RefusedWhenUsedUp'
    BY <1>1, <1>2, <1>3, NobodyDecided
<1> QED BY <1>2, <1>4 DEF IInv

LEMMA IInvStep == IInv /\ [Next]_vars => IInv'
<1> SUFFICES ASSUME IInv, [Next]_vars PROVE IInv'
    OBVIOUS
<1>1. ASSUME NEW p \in serving, Stamp(p) PROVE IInv'
    BY <1>1, StampStep
<1>2. ASSUME NEW p \in serving, Admit(p) PROVE IInv'
    BY <1>2, AdmitStep
<1>3. ASSUME NEW p \in serving, Refuse(p) PROVE IInv'
    BY <1>3, RefuseStep
<1>4. ASSUME NEW p \in serving, RemoveEntry(p) PROVE IInv'
    BY <1>4, RemovalStep DEF RemoveEntry, histories
<1>5. ASSUME NEW p \in serving, TransactionFails(p) PROVE IInv'
    BY <1>5, TransactionFailsStep
<1>6. ASSUME NEW p \in serving, RemoveFails(p) PROVE IInv'
    BY <1>6, RemovalStep DEF RemoveFails
<1>7. ASSUME NEW p \in serving, Crash(p) PROVE IInv'
    BY <1>7, CrashStep
<1>8. CASE Tick
    BY <1>8, TickStep
<1>9. CASE UNCHANGED vars
    BY <1>9, IdleStep
<1> QED BY <1>1, <1>2, <1>3, <1>4, <1>5, <1>6, <1>7, <1>8, <1>9 DEF Next, Quiescent

LEMMA IInvHolds == Spec => []IInv
BY InitIInv, IInvStep, PTL DEF Spec

-----------------------------------------------------------------------------
(* What the limiter guarantees.                                            *)

\* Every variable keeps its type.
THEOREM Typed == Spec => []TypeOK
<1>1. IInv => TypeOK
    BY DEF IInv
<1> QED BY <1>1, IInvHolds, PTL

\* At no moment has the limiter admitted, by its count, more than the limit of the
\* calls that came in during the last window, on however many replicas.
THEOREM RecentlyBounded == Spec => []RecentBounded
<1>1. IInv => RecentBounded
    BY DEF IInv
<1> QED BY <1>1, IInvHolds, PTL

\* One replica admits no more than the limit in any window.
THEOREM WindowsBounded == Spec => []WindowBounded
<1>1. IInv => WindowBounded
    BY DEF IInv
<1> QED BY <1>1, IInvHolds, PTL

\* A refused client has been busy: as many of its calls as the limit were counted.
THEOREM RefusedAreBusy == Spec => []RefusedWhenBusy
<1>1. IInv => RefusedWhenBusy
    BY DEF IInv
<1> QED BY <1>1, IInvHolds, PTL

\* One replica that does not die refuses only clients that have had their limit.
THEOREM RefusedHaveHadTheirs == Spec => []RefusedWhenUsedUp
<1>1. IInv => RefusedWhenUsedUp
    BY DEF IInv
<1> QED BY <1>1, IInvHolds, PTL

-----------------------------------------------------------------------------
(* SmartRetry, for every catalog, every set of providers and every number  *)
(* of retries.                                                             *)

\* The two ways of saying that a model may stand in agree.
LEMMA ServesIsSuitable ==
    ASSUME NEW m \in Models
    PROVE  CanServe(m) <=> Suitable(m)
BY DEF CanServe, Suitable

\* Positions of the catalog are numbers, and hold models.
LEMMA PositionType ==
    /\ Position \subseteq Int
    /\ \A i \in Position : Catalog[i] \in Models /\ 1..i \subseteq Position
BY CatalogAssumption DEF Position

\* The provider that a failover goes to is the successor of the one it leaves.
LEMMA FirstIsAfter ==
    ASSUME NEW p, NEW i \in Position, IsFirst(i, Fallbacks(p))
    PROVE  ProviderOf[Catalog[i]] \in After(p) /\ CanServe(Catalog[i])
<1>1. Catalog[i] \in Models /\ CanServe(Catalog[i]) /\ ProviderOf[Catalog[i]] # p
    BY PositionType, ServesIsSuitable DEF IsFirst, Fallbacks
<1>2. ProviderOf[Catalog[i]] \in Providers
    BY <1>1, CatalogAssumption
<1>3. ASSUME NEW j \in 1..(i - 1), CanServe(Catalog[j]) PROVE ProviderOf[Catalog[j]] = p
  <2>1. j \in Position /\ j < i /\ j \in Int /\ i \in Int
    BY PositionType
  <2>2. Suitable(Catalog[j])
    BY <1>3, <2>1, PositionType, ServesIsSuitable
  <2>3. j \notin Fallbacks(p)
    BY <2>1 DEF IsFirst
  <2> QED BY <2>1, <2>2, <2>3 DEF Fallbacks
<1> QED BY <1>1, <1>2, <1>3 DEF After

\* A provider has at most one successor.
LEMMA AfterUnique ==
    ASSUME NEW p, NEW a \in After(p), NEW b \in After(p)
    PROVE  a = b
<1>1. PICK i \in Position :
        /\ CanServe(Catalog[i]) /\ ProviderOf[Catalog[i]] = a
        /\ \A j \in 1..(i - 1) : CanServe(Catalog[j]) => ProviderOf[Catalog[j]] = p
    BY DEF After
<1>2. PICK k \in Position :
        /\ CanServe(Catalog[k]) /\ ProviderOf[Catalog[k]] = b
        /\ \A j \in 1..(k - 1) : CanServe(Catalog[j]) => ProviderOf[Catalog[j]] = p
    BY DEF After
<1>3. a # p /\ b # p
    BY DEF After
<1>4. i \in Int /\ k \in Int /\ i >= 1 /\ k >= 1
    BY PositionType DEF Position
<1>5. i = k
  <2>1. ~(i < k)
    BY <1>1, <1>2, <1>3, <1>4
  <2>2. ~(k < i)
    BY <1>1, <1>2, <1>3, <1>4
  <2> QED BY <1>4, <2>1, <2>2
<1> QED BY <1>1, <1>2, <1>5

\* The successor of the successor's successor is one of the two before it: either
\* every stand-in listed before the second one belongs to the first, or the
\* second one is the provider first left.
LEMMA AfterThree ==
    ASSUME NEW p, NEW a \in After(p), NEW b \in After(a), NEW c \in After(b)
    PROVE  c = a
<1>1. PICK i \in Position :
        /\ CanServe(Catalog[i]) /\ ProviderOf[Catalog[i]] = a
        /\ \A j \in 1..(i - 1) : CanServe(Catalog[j]) => ProviderOf[Catalog[j]] = p
    BY DEF After
<1>2. PICK k \in Position :
        /\ CanServe(Catalog[k]) /\ ProviderOf[Catalog[k]] = b
        /\ \A j \in 1..(k - 1) : CanServe(Catalog[j]) => ProviderOf[Catalog[j]] = a
    BY DEF After
<1>3. a \in Providers /\ a # p /\ b # a
    BY DEF After
<1>4. i \in Int /\ k \in Int /\ i >= 1 /\ k >= 1
    BY PositionType DEF Position
<1>5. a \in After(b)
  <2>1. CASE i < k
    \* Before i every stand-in belongs to p and to a: there is none.
    <3>1. \A j \in 1..(i - 1) : ~CanServe(Catalog[j])
        BY <1>1, <1>2, <1>3, <1>4, <2>1
    <3> QED BY <1>1, <1>3, <3>1 DEF After
  <2>2. CASE k < i
    \* b stands before a, so it is the provider left first.
    <3>1. b = p
        BY <1>1, <1>2, <1>4, <2>2
    <3> QED BY <3>1
  <2>3. i # k
    BY <1>1, <1>2, <1>3
  <2> QED BY <1>4, <2>1, <2>2, <2>3
<1> QED BY <1>5, AfterUnique

\* The primary and its first two successors are closed under failover.
LEMMA ReachClosed ==
    ASSUME NEW p \in Reach, NEW q \in After(p)
    PROVE  q \in Reach
<1>1. CASE p = primary
    BY <1>1 DEF Reach
<1>2. CASE p \in After(primary)
    BY <1>2 DEF Reach
<1>3. ASSUME NEW a \in After(primary), p \in After(a) PROVE q \in Reach
  <2>1. q = a
    BY <1>3, AfterThree
  <2> QED BY <2>1 DEF Reach
<1> QED BY <1>1, <1>2, <1>3 DEF Reach

-----------------------------------------------------------------------------
(* The inductive invariant: what is called is within reach and recorded in *)
(* tried, and after a failover it fits the request.                        *)

RetryInv ==
    /\ RetryTypeOK
    /\ provider \in tried
    /\ OnlyTwoFallbacks
    /\ FailoverSuits
    /\ tried = {primary} => provider = primary

\* A failover goes to a provider within reach that fits the request.
LEMMA FailoverStep ==
    ASSUME RetryInv, Failover
    PROVE  RetryInv'
<1>1. PICK i \in Position :
        /\ IsFirst(i, Fallbacks(provider))
        /\ model' = Catalog[i]
        /\ provider' = ProviderOf[Catalog[i]]
        /\ tried' = tried \cup {provider'}
    BY DEF Failover
<1>2. provider' \in After(provider) /\ CanServe(Catalog[i])
    BY <1>1, FirstIsAfter
<1>3. provider \in Reach
    BY DEF RetryInv, OnlyTwoFallbacks
<1>4. provider' \in Reach
    BY <1>2, <1>3, ReachClosed
<1>5. UNCHANGED config /\ attempt' = 0 /\ UNCHANGED status /\ CallRaises
    BY DEF Failover
<1>6. Reach' = Reach /\ target_capabilities' = target_capabilities
    BY <1>5 DEF config, Reach, After, CanServe, target_capabilities
<1>7. provider' \in Providers /\ Catalog[i] \in Models
    BY <1>1, PositionType, CatalogAssumption
<1>8. RetryTypeOK'
    BY <1>1, <1>5, <1>7, RetryAssumption DEF RetryInv, RetryTypeOK, CallRaises, config
<1>9. provider' # provider
    BY <1>2 DEF After
<1>10. tried' # {primary}
    BY <1>1, <1>9 DEF RetryInv
<1>11. FailoverSuits'
    BY <1>1, <1>2, <1>5, <1>6 DEF FailoverSuits, CanServe, CatalogModels, config
<1>12. OnlyTwoFallbacks'
    BY <1>1, <1>4, <1>6 DEF RetryInv, OnlyTwoFallbacks
<1>13. provider' \in tried'
    BY <1>1
<1>14. (tried = {primary} => provider = primary)'
    BY <1>5, <1>10 DEF config
<1> QED BY <1>8, <1>11, <1>12, <1>13, <1>14 DEF RetryInv

\* The other steps stay on the provider they are on.
LEMMA StayStep ==
    ASSUME RetryInv, Succeed \/ Retry \/ Wake \/ GiveUp \/ UNCHANGED retryVars
    PROVE  RetryInv'
<1>1. UNCHANGED <<config, provider, model, tried>>
    BY DEF Succeed, Retry, Wake, GiveUp, retryVars
<1>2. Reach' = Reach /\ target_capabilities' = target_capabilities
    BY <1>1 DEF config, Reach, After, CanServe, target_capabilities
<1>3. RetryTypeOK'
  <2>1. attempt' \in 0..MaxRetries
    BY RetryAssumption DEF Succeed, Retry, Wake, GiveUp, MayRetry, retryVars, RetryInv, RetryTypeOK
  <2>2. glitches' \in 0..MaxGlitches
    BY RetryAssumption DEF Succeed, Retry, Wake, GiveUp, CallRaises, retryVars, RetryInv, RetryTypeOK
  <2>3. status' \in {"calling", "sleeping", "done", "raised"}
    BY DEF Succeed, Retry, Wake, GiveUp, retryVars, RetryInv, RetryTypeOK
  <2> QED BY <1>1, <2>1, <2>2, <2>3 DEF RetryInv, RetryTypeOK, config
<1>4. FailoverSuits'
    BY <1>1, <1>2 DEF RetryInv, FailoverSuits, CanServe, config
<1> QED BY <1>1, <1>2, <1>3, <1>4 DEF RetryInv, OnlyTwoFallbacks, config

\* The invariant holds when execute starts.
LEMMA RetryInvInit == RetryInit => RetryInv
BY RetryAssumption DEF RetryInit, RetryInv, RetryTypeOK, OnlyTwoFallbacks, FailoverSuits, Reach

\* Every step keeps the invariant.
LEMMA RetryInvStep == RetryInv /\ [RetryNext]_retryVars => RetryInv'
BY FailoverStep, StayStep DEF RetryNext, Finished

\* Giving up means that no provider but the current one has a stand-in.
LEMMA RaisesStep == RetryInv /\ RaisesOnlyAfterAll /\ [RetryNext]_retryVars => RaisesOnlyAfterAll'
<1> SUFFICES ASSUME RetryInv, RaisesOnlyAfterAll, [RetryNext]_retryVars, status' = "raised",
                    NEW m \in CatalogModels, CanServe(m)'
             PROVE  ProviderOf[m] \in tried'
    BY DEF RaisesOnlyAfterAll
<1>1. UNCHANGED config
    BY DEF RetryNext, Succeed, Retry, Wake, Failover, GiveUp, Finished, retryVars
<1>2. CanServe(m)
    BY <1>1 DEF CanServe, target_capabilities, config
<1>3. CASE GiveUp
  <2>1. PICK i \in Position : m = Catalog[i]
    BY DEF CatalogModels
  <2>2. Suitable(Catalog[i])
    BY <1>2, <2>1, PositionType, ServesIsSuitable
  <2>3. ProviderOf[m] = provider
    BY <1>3, <2>1, <2>2 DEF GiveUp, Fallbacks
  <2> QED BY <1>3, <2>3 DEF GiveUp, RetryInv
<1>4. CASE UNCHANGED retryVars
    BY <1>2, <1>4 DEF RaisesOnlyAfterAll, retryVars
<1>5. ~(Succeed \/ Retry \/ Wake \/ Failover)
    BY DEF Succeed, Retry, Wake, Failover, CallRaises
<1> QED BY <1>3, <1>4, <1>5 DEF RetryNext, Finished

-----------------------------------------------------------------------------
(* The theorems.                                                           *)

\* Every variable keeps its type: attempts and glitches stay within their bounds, the
\* engine never goes on with what is no provider or no model.
THEOREM EngineTyped == RetrySpec => []RetryTypeOK
<1>1. RetryInv => RetryTypeOK
    BY DEF RetryInv
<1> QED BY <1>1, RetryInvInit, RetryInvStep, PTL DEF RetrySpec

\* Whatever the catalog, beside the primary at most two providers are ever called.
THEOREM FailoverPingPong == RetrySpec => []OnlyTwoFallbacks
<1>1. RetryInv => OnlyTwoFallbacks
    BY DEF RetryInv
<1> QED BY <1>1, RetryInvInit, RetryInvStep, PTL DEF RetrySpec

\* Whatever the catalog, a stand-in is enabled, configured, capable, and called on
\* its own provider.
THEOREM FailoverFits == RetrySpec => []FailoverSuits
<1>1. RetryInv => FailoverSuits
    BY DEF RetryInv
<1> QED BY <1>1, RetryInvInit, RetryInvStep, PTL DEF RetrySpec

\* An error is raised only after all configured providers that could have served
\* the request were called.
THEOREM RaisesLast == RetrySpec => []RaisesOnlyAfterAll
<1>1. RetryInit => RaisesOnlyAfterAll
    BY DEF RetryInit, RaisesOnlyAfterAll
<1> QED BY <1>1, RetryInvInit, RetryInvStep, RaisesStep, PTL DEF RetrySpec

-----------------------------------------------------------------------------
(* Startup, for every list of providers, whatever the wizard is told and   *)
(* however often, whatever files and environments there are, and wherever  *)
(* it or a process stops.                                                  *)

-----------------------------------------------------------------------------
(* The inductive invariant.                                                *)

WizardInv ==
    /\ wizard \in [pc : {"idle", "answered", "writing", "copying"},
                   told : Answers \cup {None}, failed : BOOLEAN]
    /\ wizard.pc # "idle" => wizard.told \in Answers

\* While a run of the wizard counts as complete .env holds what it was told: from the
\* opening of the file to the end of the next run there is none that counts.
SetupInv ==
    /\ setup # None => env_file = env_variables(setup)
    /\ wizard.pc \in {"writing", "copying"} => setup = None
    /\ wizard.pc = "copying" /\ ~wizard.failed => env_file = env_variables(wizard.told)

StartInv == StartTypeOK /\ WizardInv /\ SetupInv /\ SetupIsHonoured /\ SetupServes

-----------------------------------------------------------------------------
(* What is written and what is read.                                       *)

\* The variables that are set, each with its value.
LEMMA WrittenVariables ==
    ASSUME NEW a \in Answers
    PROVE  /\ DOMAIN env_variables(a) =
                a.providers \cup {"ollama", "EMBEDDING_PROVIDER"}
                    \cup (IF a.embedding = "cohere" /\ a.cohere_key
                          THEN {"COHERE_API_KEY"} ELSE {})
           /\ env_variables(a)["EMBEDDING_PROVIDER"] = a.embedding
           /\ \A v \in DOMAIN env_variables(a) :
                v # "EMBEDDING_PROVIDER" => env_variables(a)[v] = "given"
BY DEF env_variables, VariablesOf

\* It is a file.
LEMMA WrittenIsFile ==
    ASSUME NEW a \in Answers
    PROVE  IsFile(env_variables(a))
<1>1. a.providers \subseteq Asked /\ a.embedding \in ToSet(EmbeddingProviders)
    BY StartupAssumption
<1>2. a.providers \cup {"ollama"} \subseteq CoreNames
    BY <1>1, StartupAssumption DEF Asked
<1>3. DOMAIN env_variables(a) \subseteq Variables
    BY <1>2, WrittenVariables DEF Variables
<1> QED BY <1>1, <1>3, WrittenVariables DEF IsFile

\* A provider of embeddings is one of the classes, or none.
LEMMA ActiveIsKnown ==
    ASSUME NEW env
    PROVE  active_provider(env) \in ToSet(EmbeddingProviders) \cup {NoProvider}
<1> DEFINE configured ==
                {i \in HaveInstance(env) : EmbeddingProviders[i] = env.EMBEDDING_PROVIDER}
<1>1. HaveInstance(env) \subseteq configured
    BY DEF HaveInstance, from_env
<1>2. \A i \in configured : env.EMBEDDING_PROVIDER \in ToSet(EmbeddingProviders)
    BY DEF HaveInstance, ToSet
<1> QED BY <1>1, <1>2 DEF active_provider

\* The configured one if it can be used.
LEMMA ConfiguredIsActive ==
    ASSUME NEW env, env.EMBEDDING_PROVIDER \in ToSet(EmbeddingProviders),
           env.EMBEDDING_PROVIDER \in env.usable
    PROVE  active_provider(env) = env.EMBEDDING_PROVIDER
<1> DEFINE configured ==
                {i \in HaveInstance(env) : EmbeddingProviders[i] = env.EMBEDDING_PROVIDER}
<1>1. PICK i \in DOMAIN EmbeddingProviders : EmbeddingProviders[i] = env.EMBEDDING_PROVIDER
    BY DEF ToSet
<1>2. i \in configured
    BY <1>1 DEF HaveInstance, from_env
<1> QED BY <1>2 DEF active_provider

\* Over a complete setup, and in an environment that adds nothing, the settings are those
\* of the setup.
LEMMA SettingsOfSetup ==
    ASSUME SetupInv, setup \in Answers, setup # None,
           NEW exported \in {Empty, env_variables(setup)}
    PROVE  /\ DOMAIN Settings(exported) = DOMAIN env_variables(setup)
           /\ EmbeddingSetting(exported) = setup.embedding
<1>1. FileVars = env_variables(setup)
    BY NoneAssumption DEF SetupInv, FileVars
<1>2. DOMAIN Empty = {}
    BY DEF Empty
<1>3. DOMAIN Settings(exported) = DOMAIN env_variables(setup)
    BY <1>1, <1>2 DEF Settings
<1>4. "EMBEDDING_PROVIDER" \in DOMAIN env_variables(setup)
        /\ env_variables(setup)["EMBEDDING_PROVIDER"] = setup.embedding
    BY WrittenVariables
<1>5. Settings(exported)["EMBEDDING_PROVIDER"] = setup.embedding
    BY <1>1, <1>2, <1>4 DEF Settings
<1> QED BY <1>3, <1>4, <1>5 DEF EmbeddingSetting

\* Of the providers just those that were named are registered, and Ollama.
LEMMA NamedAreRegistered ==
    ASSUME SetupInv, setup \in Answers, setup # None, NEW broken,
           NEW exported \in {Empty, env_variables(setup)}
    PROVE  Registered(broken, exported) = setup.providers \cup {"ollama"}
<1>1. setup.providers \subseteq Asked
    BY StartupAssumption
<1>2. DOMAIN Settings(exported) \cap (CoreNames \cup Contributed) = setup.providers \cup {"ollama"}
    <2>1. DOMAIN Settings(exported) = DOMAIN env_variables(setup)
        BY SettingsOfSetup
    <2>2. DOMAIN env_variables(setup) =
            setup.providers \cup {"ollama"} \cup ({"EMBEDDING_PROVIDER"}
                \cup (IF setup.embedding = "cohere" /\ setup.cohere_key
                      THEN {"COHERE_API_KEY"} ELSE {}))
        BY WrittenVariables
    <2>3. setup.providers \cup {"ollama"} \subseteq CoreNames
        BY <1>1, StartupAssumption DEF Asked
    <2>4. "EMBEDDING_PROVIDER" \notin CoreNames \cup Contributed
            /\ "COHERE_API_KEY" \notin CoreNames \cup Contributed
        BY StartupAssumption
    <2> HIDE DEF CoreNames
    <2> QED BY <2>1, <2>2, <2>3, <2>4
<1> QED BY <1>1, <1>2, StartupAssumption DEF Registered, ProviderFromEnv, Asked

\* What a process that starts has read.
LEMMA ImportKeeps ==
    ASSUME StartInv, NEW exported, IsFile(exported), Import(exported),
           UNCHANGED <<machine, files, wizard, setups, setup>>,
           container' = None \/ IsFile(container')
    PROVE  StartInv'
<1>1. PICK broken \in SUBSET Contributed :
        process' = [exported  |-> exported,
                    catalog   |-> load_yaml_config,
                    active    |-> Registered(broken, exported),
                    embedding |-> active_provider([EMBEDDING_PROVIDER |-> EmbeddingSetting(exported),
                                                   usable |-> Usable(exported)]),
                    yaml      |-> yaml,
                    setup     |-> setup]
    BY DEF Import
<1>2. StartTypeOK /\ WizardInv /\ SetupInv
    BY DEF StartInv
<1> DEFINE E == [EMBEDDING_PROVIDER |-> EmbeddingSetting(exported), usable |-> Usable(exported)]
<1>3. process'.exported = exported /\ process'.active = Registered(broken, exported)
        /\ process'.embedding = active_provider(E) /\ process'.catalog = load_yaml_config
        /\ process'.yaml = yaml /\ process'.setup = setup
    BY <1>1
<1>4. StartTypeOK'
    <2>1. process'.active \subseteq CoreNames \cup Contributed
        BY <1>3 DEF Registered
    <2>2. process'.embedding \in ToSet(EmbeddingProviders) \cup {NoProvider}
        BY <1>3, ActiveIsKnown
    <2> QED BY <1>2, <1>3, <2>1, <2>2 DEF StartTypeOK, machine, files
<1>5. WizardInv' /\ SetupInv'
    BY <1>2 DEF WizardInv, SetupInv, files
<1>6. SetupIsHonoured'
    <2> SUFFICES ASSUME setup # None, exported \in {Empty, env_variables(setup)}
                 PROVE  /\ process'.active = setup.providers \cup {"ollama"}
                        /\ \/ setup.embedding = "ollama"
                           \/ setup.embedding = "openai" /\ "openai" \in setup.providers
                           \/ setup.embedding = "sentence-transformers" /\ local
                           \/ setup.embedding = "cohere" /\ "COHERE_API_KEY" \in DOMAIN exported
                           => process'.embedding = setup.embedding
        BY <1>3 DEF SetupIsHonoured, machine
    <2>1. setup \in Answers /\ setup.embedding \in ToSet(EmbeddingProviders)
        BY <1>2, StartupAssumption DEF StartTypeOK
    <2>2. process'.active = setup.providers \cup {"ollama"}
        BY <1>2, <1>3, <2>1, NamedAreRegistered
    <2>3. E.EMBEDDING_PROVIDER = setup.embedding /\ E.usable = Usable(exported)
        BY <1>2, <2>1, SettingsOfSetup
    <2>4. DOMAIN Settings(exported) = DOMAIN env_variables(setup)
            /\ setup.providers \subseteq DOMAIN env_variables(setup)
        BY <1>2, <2>1, SettingsOfSetup, WrittenVariables
    <2>5. \/ setup.embedding = "ollama"
          \/ setup.embedding = "openai" /\ "openai" \in setup.providers
          \/ setup.embedding = "sentence-transformers" /\ local
          \/ setup.embedding = "cohere" /\ "COHERE_API_KEY" \in DOMAIN exported
          => setup.embedding \in Usable(exported)
        BY <2>4 DEF Usable
    <2> HIDE DEF E
    <2>6. setup.embedding \in Usable(exported) => active_provider(E) = setup.embedding
        BY <2>1, <2>3, ConfiguredIsActive
    <2> QED BY <1>3, <2>2, <2>5, <2>6
<1>7. SetupServes'
    <2>1. yaml \in {"none", "template"} => "ollama" \in load_yaml_config
        BY StartupAssumption DEF load_yaml_config, DefaultCatalog
    <2>2. "ollama" \in Registered(broken, exported)
        BY StartupAssumption DEF Registered, ProviderFromEnv
    <2> QED BY <1>2, <1>3, <2>1, <2>2 DEF SetupServes, StartTypeOK, Yamls
<1> QED BY <1>4, <1>5, <1>6, <1>7 DEF StartInv

-----------------------------------------------------------------------------
(* The invariant is inductive.                                             *)

LEMMA StartInvInit == StartInit => StartInv
<1> SUFFICES ASSUME StartInit PROVE StartInv
    OBVIOUS
<1>1. StartTypeOK
    BY StartupAssumption DEF StartInit, StartTypeOK, Running, Yamls, NoRun
<1>2. WizardInv /\ SetupInv
    BY DEF StartInit, WizardInv, SetupInv, NoRun
<1>3. SetupIsHonoured /\ SetupServes
    BY DEF StartInit, SetupIsHonoured, SetupServes, Running
<1> QED BY <1>1, <1>2, <1>3 DEF StartInv

\* A process keeps what it has read: what is promised of it says nothing of the files.
LEMMA ProcessKeeps ==
    ASSUME StartInv, UNCHANGED <<process, local>>
    PROVE  SetupIsHonoured' /\ SetupServes'
BY DEF StartInv, SetupIsHonoured, SetupServes, Running

\* Part of a file is a file.
LEMMA LinesAreFile ==
    ASSUME NEW f, NEW k \in 0..Len(CoreProviders), IsFile(f)
    PROVE  IsFile(LinesUpTo(f, k))
BY DEF IsFile, LinesUpTo, Restrict

LEMMA StartInvStep == StartInv /\ [StartNext]_startVars => StartInv'
<1> SUFFICES ASSUME StartInv, [StartNext]_startVars PROVE StartInv'
    OBVIOUS
<1> USE DEF machine, files
<1>1. StartTypeOK /\ WizardInv /\ SetupInv /\ SetupIsHonoured /\ SetupServes
    BY DEF StartInv
<1>2. IsFile(Empty)
    BY DEF IsFile, Empty
<1>3. CASE BeginSetup
    <2>1. PICK a \in Answers : wizard' = [pc |-> "answered", told |-> a, failed |-> FALSE]
        BY <1>3 DEF BeginSetup
    <2>2. StartTypeOK'
        BY <1>1, <1>3, <2>1, StartupAssumption DEF BeginSetup, StartTypeOK, Running
    <2>3. WizardInv' /\ SetupInv'
        BY <1>1, <1>3, <2>1 DEF BeginSetup, WizardInv, SetupInv
    <2> QED BY <1>1, <1>3, <2>2, <2>3, ProcessKeeps DEF BeginSetup, StartInv
<1>4. CASE OpenEnv
    <2>1. StartTypeOK'
        BY <1>1, <1>2, <1>4 DEF OpenEnv, StartTypeOK, WizardInv, Running
    <2>2. WizardInv' /\ SetupInv'
        BY <1>1, <1>4 DEF OpenEnv, WizardInv, SetupInv
    <2> QED BY <1>1, <1>4, <2>1, <2>2, ProcessKeeps DEF OpenEnv, StartInv
<1>5. CASE OpenEnvFails
    <2>1. StartTypeOK'
        BY <1>1, <1>5 DEF OpenEnvFails, StartTypeOK, WizardInv, Running
    <2>2. WizardInv' /\ SetupInv'
        BY <1>1, <1>5 DEF OpenEnvFails, WizardInv, SetupInv
    <2> QED BY <1>1, <1>5, <2>1, <2>2, ProcessKeeps DEF OpenEnvFails, StartInv
<1>6. CASE WriteEnv
    <2>1. IsFile(env_variables(wizard.told))
        BY <1>1, <1>6, WrittenIsFile DEF WriteEnv, WizardInv
    <2>2. StartTypeOK'
        BY <1>1, <1>6, <2>1 DEF WriteEnv, StartTypeOK, WizardInv, Running
    <2>3. WizardInv' /\ SetupInv'
        BY <1>1, <1>6 DEF WriteEnv, WizardInv, SetupInv
    <2> QED BY <1>1, <1>6, <2>2, <2>3, ProcessKeeps DEF WriteEnv, StartInv
<1>7. CASE WriteEnvFails
    <2>1. IsFile(env_file')
        BY <1>1, <1>7, WrittenIsFile, LinesAreFile DEF WriteEnvFails, WizardInv
    <2>2. StartTypeOK'
        BY <1>1, <1>7, <2>1 DEF WriteEnvFails, StartTypeOK, WizardInv, Running
    <2>3. WizardInv' /\ SetupInv'
        BY <1>1, <1>7 DEF WriteEnvFails, WizardInv, SetupInv
    <2> QED BY <1>1, <1>7, <2>2, <2>3, ProcessKeeps DEF WriteEnvFails, StartInv
<1>8. CASE CopyYaml \/ CopyYamlFails
    <2>1. /\ wizard.pc = "copying" /\ wizard' = NoRun
          /\ setup' = IF wizard.failed THEN None ELSE wizard.told
          /\ yaml' \in {"template", "none", "broken", yaml}
          /\ UNCHANGED <<machine, env_file, own, setups, container, process>>
        BY <1>8 DEF CopyYaml, CopyYamlFails
    <2>2. StartTypeOK'
        BY <1>1, <2>1 DEF StartTypeOK, WizardInv, Running, NoRun, Yamls
    <2>3. WizardInv' /\ SetupInv'
        BY <1>1, <2>1 DEF WizardInv, SetupInv, NoRun
    <2> QED BY <1>1, <2>1, <2>2, <2>3, ProcessKeeps DEF StartInv
<1>9. CASE Interrupt
    <2>1. StartTypeOK'
        BY <1>1, <1>9 DEF Interrupt, StartTypeOK, Running, NoRun
    <2>2. WizardInv' /\ SetupInv'
        BY <1>1, <1>9 DEF Interrupt, WizardInv, SetupInv, NoRun
    <2> QED BY <1>1, <1>9, <2>1, <2>2, ProcessKeeps DEF Interrupt, StartInv
<1>10. CASE EditYaml
    <2>1. StartTypeOK'
        BY <1>1, <1>10 DEF EditYaml, StartTypeOK, Running, Yamls
    <2>2. WizardInv' /\ SetupInv'
        BY <1>1, <1>10 DEF EditYaml, WizardInv, SetupInv
    <2> QED BY <1>1, <1>10, <2>1, <2>2, ProcessKeeps DEF EditYaml, StartInv
<1>11. CASE StartDev
    <2>1. IsFile(shell)
        BY <1>1, StartupAssumption DEF StartTypeOK
    <2> QED BY <1>1, <1>11, <2>1, ImportKeeps DEF StartDev, StartTypeOK
<1>12. CASE ComposeUp
    <2>1. IsFile(env_file) /\ container' = env_file /\ Import(env_file)
        BY <1>1, <1>12 DEF ComposeUp, StartTypeOK, Import
    <2> QED BY <1>12, <2>1, ImportKeeps DEF ComposeUp
<1>13. CASE ComposeRestart
    <2>1. IsFile(container)
        BY <1>1, <1>13 DEF ComposeRestart, StartTypeOK
    <2> QED BY <1>13, <2>1, ImportKeeps DEF ComposeRestart
<1>14. CASE Stop
    <2>1. StartTypeOK'
        BY <1>1, <1>14 DEF Stop, StartTypeOK, Running
    <2>2. WizardInv' /\ SetupInv'
        BY <1>1, <1>14 DEF Stop, WizardInv, SetupInv
    <2>3. SetupIsHonoured' /\ SetupServes'
        BY <1>14 DEF Stop, SetupIsHonoured, SetupServes, Running
    <2> QED BY <2>1, <2>2, <2>3 DEF StartInv
<1>15. CASE UNCHANGED startVars
    <2>1. StartTypeOK'
        BY <1>1, <1>15 DEF startVars, StartTypeOK, Running
    <2>2. WizardInv' /\ SetupInv'
        BY <1>1, <1>15 DEF startVars, WizardInv, SetupInv
    <2> QED BY <1>1, <1>15, <2>1, <2>2, ProcessKeeps DEF startVars, StartInv
<1> QED BY <1>3, <1>4, <1>5, <1>6, <1>7, <1>8, <1>9, <1>10, <1>11, <1>12, <1>13, <1>14, <1>15
        DEF StartNext

LEMMA StartInvHolds == StartSpec => []StartInv
BY StartInvInit, StartInvStep, PTL DEF StartSpec

-----------------------------------------------------------------------------
(* What it shows.                                                          *)

\* Every variable has its type: .env holds known variables only, whatever the step at
\* which writing it stopped, and a process has known providers.
THEOREM StartTyped == StartSpec => []StartTypeOK
<1>1. StartInv => StartTypeOK
    BY DEF StartInv
<1> QED BY <1>1, StartInvHolds, PTL

\* A process that starts on a complete setup has the providers that were named and the
\* embedding provider that was chosen: the wizard empties .env before it writes to it, so
\* that nothing from before is left over.
THEOREM SetupsAreHonoured == StartSpec => []SetupIsHonoured
<1>1. StartInv => SetupIsHonoured
    BY DEF StartInv
<1> QED BY <1>1, StartInvHolds, PTL

\* After a setup there is a model that can be called: that of Ollama, whose class has a
\* default address and which the example and the hard-coded catalog list.
THEOREM SetupsServe == StartSpec => []SetupServes
<1>1. StartInv => SetupServes
    BY DEF StartInv
<1> QED BY <1>1, StartInvHolds, PTL
=============================================================================
