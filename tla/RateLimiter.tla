---------------------------- MODULE RateLimiter ----------------------------
(***************************************************************************)
(* The sliding-window rate limiter, engine/rate_limiter.py: the calls of   *)
(* one client, served by one or more replicas on one Redis.                *)
(*                                                                         *)
(* A replica is blocked while it waits for Redis, so that each has one     *)
(* call in the limiter at most.  Between the reading of its clock, the     *)
(* transaction and the removal of a rejected entry, the other replicas may *)
(* do anything.  A call is named by the time it was stamped with.          *)
(*                                                                         *)
(* The replicas' clocks agree and no two calls read the same time.  The    *)
(* remaining count, which only goes into the metadata, is left out.        *)
(***************************************************************************)
EXTENDS Integers, FiniteSets

CONSTANTS
    Replicas,   \* the gateway processes that may be deployed
    Limit,      \* RATE_LIMIT_RPM
    Window,     \* window
    MaxDelay,   \* bound: how long a transaction takes to get to Redis
    MaxTime     \* bound: how long the clients keep calling

ASSUME ReplicasAssumption == IsFiniteSet(Replicas)
ASSUME LimitAssumption ==
    /\ Limit \in Nat
    /\ Window \in Nat \ {0}
    /\ MaxDelay \in 0..Window
    /\ MaxTime \in Nat

VARIABLES
    serving,    \* the replicas that are deployed
    faults,     \* what may go wrong in this behaviour: "redis", "crash"
    clock,      \* the time
    entries,    \* the sorted set of the client's key
    expires,    \* when the key expires
    pc,         \* pc[p]: where replica p is in is_rate_limited
    now,        \* now[p]: the time its call was stamped with
    counted,    \* history: the calls Redis has counted
    admitted,   \* history: the calls let through because the count allowed it
    passed,     \* history: the calls let through because Redis failed
    refused     \* history: the calls that reached the limit

vars == <<serving, faults, clock, entries, expires, pc, now,
          counted, admitted, passed, refused>>
histories == <<counted, admitted, passed, refused>>

-----------------------------------------------------------------------------
Init ==
    /\ serving \in SUBSET Replicas \ {{}}
    /\ faults \in SUBSET {"redis", "crash"}
    /\ clock = 0
    /\ entries = {}
    /\ expires = 0
    /\ pc = [p \in Replicas |-> "idle"]
    /\ now = [p \in Replicas |-> 0]
    /\ counted = {} /\ admitted = {} /\ passed = {} /\ refused = {}

Goto(p, l) == pc' = [pc EXCEPT ![p] = l]

\* No replica waits longer than MaxDelay for Redis.
InTime == \A p \in serving : pc[p] = "stamped" => clock - now[p] < MaxDelay

\* A call comes in and reads the clock.
Stamp(p) ==
    /\ pc[p] = "idle"
    /\ clock < MaxTime /\ InTime
    /\ now' = [now EXCEPT ![p] = clock]
    /\ clock' = clock + 1
    /\ Goto(p, "stamped")
    /\ UNCHANGED <<serving, faults, entries, expires, histories>>

\* Mutant: an entry is dropped before it is older than the window.
RecentShorter(S, t) == {e \in S : e > t - Window + 1}

\* What zremrangebyscore leaves of S at time t.
Recent(S, t) == {e \in S : e > t - Window}

\* The entries zcard counts for a call stamped t: none when the key has expired.
Live(t) == IF clock >= expires THEN {} ELSE Recent(entries, t)

\* Mutant: the time to live is given in milliseconds.
TimeToLiveInMs == 2000 * Window

TimeToLive == 2 * Window

\* The transaction, as Redis runs it: clean, count, add, set the time to live.
Transaction(p) ==
    /\ entries' = Live(now[p]) \cup {now[p]}
    /\ expires' = clock + TimeToLive
    /\ counted' = counted \cup {now[p]}

\* Mutant: one call too many.
ReachedLate(n) == n > Limit

Reached(n) == n >= Limit

\* The count is below the limit: the call goes on to the next stage.
Admit(p) ==
    /\ pc[p] = "stamped"
    /\ ~Reached(Cardinality(Live(now[p])))
    /\ Transaction(p)
    /\ Goto(p, "idle")
    /\ admitted' = admitted \cup {now[p]}
    /\ UNCHANGED <<serving, faults, clock, now, passed, refused>>

\* The limit is reached: the entry just added has to go.
Refuse(p) ==
    /\ pc[p] = "stamped"
    /\ Reached(Cardinality(Live(now[p])))
    /\ Transaction(p)
    /\ Goto(p, "over")
    /\ refused' = refused \cup {now[p]}
    /\ UNCHANGED <<serving, faults, clock, now, admitted, passed>>

\* Mutant: the rejected entry stays.
WithoutNothing(p) == entries

\* What zrem leaves.
Without(p) == (IF clock >= expires THEN {} ELSE entries) \ {now[p]}

\* The entry is removed and the client gets a 429.
RemoveEntry(p) ==
    /\ pc[p] = "over"
    /\ entries' = Without(p)
    /\ Goto(p, "idle")
    /\ UNCHANGED <<serving, faults, clock, expires, now, histories>>

\* Redis fails before or after it ran the transaction: the call goes on.
TransactionFails(p) ==
    /\ "redis" \in faults
    /\ pc[p] = "stamped"
    /\ Transaction(p) \/ UNCHANGED <<entries, expires, counted>>
    /\ Goto(p, "idle")
    /\ passed' = passed \cup {now[p]}
    /\ UNCHANGED <<serving, faults, clock, now, admitted, refused>>

\* Redis fails before or after it removed the entry: the call goes on, too.
RemoveFails(p) ==
    /\ "redis" \in faults
    /\ pc[p] = "over"
    /\ entries' \in {entries, Without(p)}
    /\ Goto(p, "idle")
    /\ passed' = passed \cup {now[p]}
    /\ UNCHANGED <<serving, faults, clock, expires, now, counted, admitted, refused>>

\* The replica dies and is started again.
Crash(p) ==
    /\ "crash" \in faults
    /\ pc[p] # "idle"
    /\ Goto(p, "idle")
    /\ UNCHANGED <<serving, faults, clock, entries, expires, now, histories>>

Tick ==
    /\ clock < MaxTime /\ InTime
    /\ clock' = clock + 1
    /\ UNCHANGED <<serving, faults, entries, expires, pc, now, histories>>

\* The last call is over.
Quiescent ==
    /\ clock = MaxTime
    /\ \A p \in serving : pc[p] = "idle"
    /\ UNCHANGED vars

Next ==
    \/ \E p \in serving :
        \/ Stamp(p) \/ Admit(p) \/ Refuse(p) \/ RemoveEntry(p)
        \/ TransactionFails(p) \/ RemoveFails(p) \/ Crash(p)
    \/ Tick
    \/ Quiescent

Spec == Init /\ [][Next]_vars

-----------------------------------------------------------------------------
(* Properties.                                                             *)

OneReplica == Cardinality(serving) = 1

\* Every variable has its type.
TypeOK ==
    /\ serving \subseteq Replicas
    /\ faults \subseteq {"redis", "crash"}
    /\ clock \in 0..MaxTime
    /\ expires \in 0..(MaxTime + 2 * Window)
    /\ pc \in [Replicas -> {"idle", "stamped", "over"}]
    /\ now \in [Replicas -> 0..MaxTime]
    /\ entries \subseteq counted
    /\ counted \subseteq 0..(clock - 1)
    /\ admitted \subseteq counted
    /\ passed \subseteq 0..(clock - 1)
    /\ refused \subseteq counted

\* Of the calls that came in during the last window, the limiter has counted in no
\* more than the limit, on any number of replicas, with late transactions, a Redis
\* that fails and replicas that die (the transaction counts before it adds).
RecentBounded == Cardinality({a \in admitted : clock - Window <= a}) <= Limit

\* With one replica this holds of every window that ends with an admitted call.
WindowBounded ==
    OneReplica =>
        \A t \in admitted : Cardinality({a \in admitted : t - Window < a /\ a <= t}) <= Limit

\* A client is refused only when, leaving the call itself aside, as many of its
\* calls as the limit were counted within the window, be they refused themselves.
RefusedWhenBusy ==
    \A t \in refused : Cardinality({c \in counted \ {t} : t - Window < c}) >= Limit

\* With one replica that does not die, a client is refused only when as many of its
\* calls as the limit were let through within the window: a rejected call does not
\* count against the next ones (the zrem of is_rate_limited).
RefusedWhenUsedUp ==
    OneReplica /\ "crash" \notin faults =>
        \A t \in refused :
            Cardinality({a \in admitted \cup passed : t - Window < a /\ a < t}) >= Limit

-----------------------------------------------------------------------------
(* The inductive invariant behind them.                                    *)

\* A call in the limiter has a time of its own, and is new to Redis until its
\* transaction has run.
StampInv ==
    \A p \in Replicas : pc[p] # "idle" =>
        /\ p \in serving
        /\ now[p] < clock
        /\ now[p] \notin admitted
        /\ pc[p] = "stamped" => now[p] \notin counted
        /\ \A q \in Replicas \ {p} : pc[q] # "idle" => now[p] # now[q]

\* The key outlives whatever it counted by more than a window.
ExpiryInv ==
    /\ expires <= clock + 2 * Window
    /\ \A c \in counted : c + 2 * Window < expires

\* A call that was let through lately is in the sorted set.
KeptInv == \A a \in admitted : clock - Window <= a => a \in entries

\* With one replica times pass through the limiter in order and in time, and what
\* is in the window of the call under way is in the sorted set.
OrderInv ==
    OneReplica => \A p \in serving :
        /\ now[p] <= clock
        /\ \A c \in counted : c <= now[p]
        /\ pc[p] = "stamped" =>
            /\ clock - now[p] <= Window
            /\ \A a \in admitted : now[p] - Window < a => a \in entries

\* With one replica that does not die an entry stands for a call that was let
\* through or is about to be removed.
EntriesInv ==
    OneReplica /\ "crash" \notin faults =>
        \A e \in entries :
            e \in admitted \cup passed \/ \E p \in serving : pc[p] = "over" /\ now[p] = e

IInv ==
    /\ TypeOK /\ StampInv /\ ExpiryInv /\ KeptInv /\ OrderInv /\ EntriesInv
    /\ RecentBounded /\ WindowBounded /\ RefusedWhenBusy /\ RefusedWhenUsedUp
=============================================================================
