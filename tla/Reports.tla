------------------------------- MODULE Reports -------------------------------
(***************************************************************************)
(* What intelligence/ makes of the usage records: the job that suggests    *)
(* savings (recommendation.py), cut at its awaits and run by any number of *)
(* workers, the alarm for a cost spike (anomaly_detector.py) and the       *)
(* forecast of the month (cost_forecaster.py) as functions of the records. *)
(*                                                                         *)
(* Time runs in slots, a few to a day; the records of slot t are written   *)
(* between t and t + 1, and what the clients do in a behaviour is fixed by *)
(* its scenario.  Costs are in fractions of a dollar, and quotients are    *)
(* compared by cross-multiplication.                                       *)
(***************************************************************************)
EXTENDS Integers, FiniteSets, FiniteSetsExt, SequencesExt

CONSTANTS
    Scenarios,    \* the behaviours of the clients
    Usage,        \* Usage[s][t]: the records of slot t: calls, hits, premium, tokens, cost
    Scheduled,    \* Scheduled[s]: the runs of generate_recommendations there are
    Jobs,         \* all runs there may be
    SlotsPerDay,  \* five or more: half a slot is a tenth of a day at most
    Windows,      \* the lengths in slots that detect_cost_anomaly is asked for
    Dollar        \* the units of cost in a dollar

Slot == [calls : Nat, hits : Nat, premium : Nat, tokens : Nat, cost : Nat]

ASSUME ReportsAssumption ==
    /\ SlotsPerDay \in Nat /\ SlotsPerDay >= 5 /\ Dollar \in Nat \ {0} /\ Windows \subseteq Nat \ {0}
    /\ Scheduled \in [Scenarios -> SUBSET Jobs]
    /\ \A s \in Scenarios : Usage[s] \in Seq(Slot)

VARIABLES
    scenario,  \* what the clients do
    clock,     \* the slot that comes next
    rows,      \* the active rows of recommendations: their title and the job they are from
    pc,        \* pc[j]: where job j is
    start,     \* start[j]: start_date of job j
    found,     \* found[j]: the titles it goes on to check, in their order
    pending,   \* pending[j]: the titles it has added to its session
    before     \* before[j]: the jobs that were over when it began

vars == <<scenario, clock, rows, pc, start, found, pending, before>>

Caching == "Optimize Semantic Cache Threshold"
Failover == "Enable Economy Model Failover"
Trimming == "Trim Verbose Prompt System Templates"
Titles == {Caching, Failover, Trimming}

Init ==
    /\ scenario \in Scenarios
    /\ clock = 1
    /\ rows = {}
    /\ pc = [j \in Jobs |-> "idle"]
    /\ start = [j \in Jobs |-> 0]
    /\ found = [j \in Jobs |-> <<>>]
    /\ pending = [j \in Jobs |-> {}]
    /\ before = [j \in Jobs |-> {}]

\* The clients go on.
Tick ==
    /\ clock <= Len(Usage[scenario])
    /\ clock' = clock + 1
    /\ UNCHANGED <<scenario, rows, pc, start, found, pending, before>>

\* The slots from `from` to the one before `to` that have records.
Between(from, to) ==
    {t \in DOMAIN Usage[scenario] : from <= t /\ t < to /\ Usage[scenario][t].calls > 0}

Spent(slots) == SumFunctionOnSet([t \in slots |-> Usage[scenario][t].cost], slots)
Calls(slots) == SumFunctionOnSet([t \in slots |-> Usage[scenario][t].calls], slots)
Hits(slots) == SumFunctionOnSet([t \in slots |-> Usage[scenario][t].hits], slots)
Premium(slots) == SumFunctionOnSet([t \in slots |-> Usage[scenario][t].premium], slots)
Tokens(slots) == SumFunctionOnSet([t \in slots |-> Usage[scenario][t].tokens], slots)

-----------------------------------------------------------------------------
(* The recommendations.                                                    *)

Move(j, l) == pc' = [pc EXCEPT ![j] = l]

\* The records of the last seven days, at the time they are read.
Recent(j) == Between(start[j], clock)

Over(j) == pc[j] = "over"

Begin(j) ==
    /\ pc[j] = "idle" /\ j \in Scheduled[scenario]
    /\ start' = [start EXCEPT ![j] = clock - 7 * SlotsPerDay]
    /\ before' = [before EXCEPT ![j] = {k \in Jobs : Over(k)}]
    /\ Move(j, "stats")
    /\ UNCHANGED <<scenario, clock, rows, found, pending>>

\* Few hits of many calls; long prompts.
CacheIsMissed(slots) == 5 * Hits(slots) < Calls(slots) /\ Calls(slots) > 50
PromptsAreLong(slots) == Tokens(slots) > 2500 * Calls(slots)

\* A finding is appended to the list.
ListedIf(applies, title) == IF applies THEN <<title>> ELSE <<>>

\* The first query.  What it says of the prompts is looked at after the second.
ReadStats(j) ==
    /\ pc[j] = "stats"
    /\ IF Calls(Recent(j)) = 0
       THEN Move(j, "over") /\ UNCHANGED found
       ELSE /\ found' = [found EXCEPT ![j] =
                            ListedIf(CacheIsMissed(Recent(j)), Caching)
                                \o ListedIf(PromptsAreLong(Recent(j)), Trimming)]
            /\ Move(j, "flows")
    /\ UNCHANGED <<scenario, clock, rows, start, pending, before>>

\* Mutant: what the first query found on the prompts is listed at once, and again.
WithFailoverTwice(titles) ==
    titles \o <<Failover>> \o ListedIf(Trimming \in ToSet(titles), Trimming)

\* The finding of the second query comes before that about the prompts.
WithFailover(titles) ==
    ListedIf(Caching \in ToSet(titles), Caching) \o <<Failover>>
        \o ListedIf(Trimming \in ToSet(titles), Trimming)

\* The second query: the models and providers of the records.
ReadFlows(j) ==
    /\ pc[j] = "flows"
    /\ found' = [found EXCEPT ![j] = IF Premium(Recent(j)) > 100 THEN WithFailover(@) ELSE @]
    /\ Move(j, "checking")
    /\ UNCHANGED <<scenario, clock, rows, start, pending, before>>

\* Mutant: dismissed rows are looked for, not active ones.
Unseen(t) == TRUE

\* There is no active row with title t.
Missing(t) == \A r \in rows : r.title # t

\* Does the next one exist already?  What other sessions have not committed is not seen,
\* nor is what this one has added.
Check(j) ==
    /\ pc[j] = "checking" /\ found[j] # <<>>
    /\ pending' = [pending EXCEPT ![j] =
                      IF Missing(Head(found[j])) THEN @ \cup {Head(found[j])} ELSE @]
    /\ found' = [found EXCEPT ![j] = Tail(@)]
    /\ UNCHANGED <<scenario, clock, rows, pc, start, before>>

Commit(j) ==
    /\ pc[j] = "checking" /\ found[j] = <<>>
    /\ rows' = rows \cup {[title |-> t, by |-> j] : t \in pending[j]}
    /\ pending' = [pending EXCEPT ![j] = {}]
    /\ Move(j, "over")
    /\ UNCHANGED <<scenario, clock, start, found, before>>

\* A query or the commit fails, or the worker dies: nothing is saved.
Fail(j) ==
    /\ pc[j] \notin {"idle", "over"}
    /\ found' = [found EXCEPT ![j] = <<>>]
    /\ pending' = [pending EXCEPT ![j] = {}]
    /\ Move(j, "over")
    /\ UNCHANGED <<scenario, clock, rows, start, before>>

\* A suggestion is dismissed or implemented.
Dismiss ==
    /\ \E r \in rows : rows' = rows \ {r}
    /\ UNCHANGED <<scenario, clock, pc, start, found, pending, before>>

\* The scenario ends.
Finished ==
    /\ clock > Len(Usage[scenario])
    /\ \A j \in Scheduled[scenario] : Over(j)
    /\ UNCHANGED vars

Next ==
    \/ \E j \in Jobs :
        Begin(j) \/ ReadStats(j) \/ ReadFlows(j) \/ Check(j) \/ Commit(j) \/ Fail(j)
    \/ Dismiss \/ Tick \/ Finished

Spec == Init /\ [][Next]_vars

-----------------------------------------------------------------------------
(* The alarm.                                                              *)

DayOf(t) == t \div SlotsPerDay

\* The records of the baseline: fourteen days back, up to the window.
Baseline(window) == Between(clock - 14 * SlotsPerDay, clock - window)

\* The days of the calendar that have some, the first and the last one in part only.
BaselineDays(window) == {DayOf(t) : t \in Baseline(window)}

\* What each of them cost.
DailySpend(window) ==
    [d \in BaselineDays(window) |-> Spent({t \in Baseline(window) : DayOf(t) = d})]

\* Mutant: two days are a baseline.
TwoDays(days) == Cardinality(days) >= 2

HasBaseline(days) == Cardinality(days) >= 3

\* detect_cost_anomaly: the spend of the window is over the mean of the days, scaled to
\* the window, by more than a dollar and more than three standard deviations.
detect_cost_anomaly(window) ==
    LET days == BaselineDays(window)
        n == Cardinality(days)
        daily == DailySpend(window)
        S == SumFunction(daily)
        Q == SumFunction([d \in days |-> daily[d] * daily[d]])
        excess == n * SlotsPerDay * Spent(Between(clock - window, clock)) - window * S
    IN  /\ HasBaseline(days)
        /\ excess > n * SlotsPerDay * Dollar
        /\ excess * excess > 9 * window * window * (n * Q - S * S)

-----------------------------------------------------------------------------
(* The forecast.                                                           *)

Month == Between(clock - 30 * SlotsPerDay, clock)
Earliest == CHOOSE t \in Month : \A u \in Month : t <= u

\* Twice the slots since the first record, which was written in the middle of its slot.
\* A forecast is made at the end of a slot, so that days_active is half a slot at least:
\* with five slots a day or more that is a tenth of a day at most, and from less than a
\* tenth the code does not extrapolate.
TwiceActive == 2 * (clock - Earliest) - 1

\* forecast_monthly_spend, as a numerator and a denominator: what was spent, or the
\* thirtyfold of what was spent in a day if that is known well enough.
forecast_monthly_spend ==
    CASE Month = {} -> <<0, 1>>
      [] Month # {} /\ 10 * TwiceActive < 2 * SlotsPerDay -> <<Spent(Month), 1>>
      [] OTHER -> <<Spent(Month) * 30 * 2 * SlotsPerDay, TwiceActive>>

-----------------------------------------------------------------------------
(* Properties.                                                             *)

\* Every variable has its type.
TypeOK ==
    /\ scenario \in Scenarios
    /\ clock \in 1..(Len(Usage[scenario]) + 1)
    /\ rows \subseteq [title : Titles, by : Jobs]
    /\ pc \in [Jobs -> {"idle", "stats", "flows", "checking", "over"}]
    /\ start \in [Jobs -> Int]
    /\ found \in [Jobs -> Seq(Titles)] /\ \A j \in Jobs : Len(found[j]) <= 3
    /\ pending \in [Jobs -> SUBSET Titles]
    /\ before \in [Jobs -> SUBSET Jobs]

\* One suggestion is listed twice only if it was made by runs that overlapped: "Check if
\* recommendation already exists to avoid duplicates" sees what earlier runs have saved
\* and nothing of those that go on beside it.
CopiesOverlap ==
    \A r, q \in rows :
        r.title = q.title /\ r # q => r.by \notin before[q.by] /\ q.by \notin before[r.by]

\* The clients have made the same calls in every slot since they started.
FirstCall == CHOOSE t \in DOMAIN Usage[scenario] : Usage[scenario][t].calls > 0
Steady ==
    /\ \E t \in DOMAIN Usage[scenario] : Usage[scenario][t].calls > 0
    /\ \A t, u \in DOMAIN Usage[scenario] :
        Usage[scenario][t].calls > 0 /\ t <= u => Usage[scenario][u] = Usage[scenario][t]

SteadyCost == Usage[scenario][Len(Usage[scenario])].cost

\* Clients that spend the same all the time set off no alarm, at no hour of the day,
\* no time after they started and for no length of the window: the days that the
\* baseline has in part only lower the mean, but spread it enough.  The forecast for
\* them is not below what a month costs, and twice that at most, a tenth of a day
\* after they started.
SteadyIsNormal ==
    Steady =>
        /\ \A w \in Windows : ~detect_cost_anomaly(w)
        /\ LET f == forecast_monthly_spend
               month == 30 * SlotsPerDay * SteadyCost
           IN  Month # {} /\ 10 * TwiceActive >= 2 * SlotsPerDay =>
                    f[1] >= month * f[2] /\ f[1] <= 2 * month * f[2]

\* When the alarm goes off for a day, one day of the baseline at most was as dear.
AlarmIsRare ==
    detect_cost_anomaly(SlotsPerDay) =>
        Cardinality({d \in BaselineDays(SlotsPerDay) :
            DailySpend(SlotsPerDay)[d] >= Spent(Between(clock - SlotsPerDay, clock))}) <= 1

\* An alarm means something.
AlarmsAreSpikes == SteadyIsNormal /\ AlarmIsRare
=============================================================================
