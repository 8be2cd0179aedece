---------------------------- MODULE BudgetManager ----------------------------
(***************************************************************************)
(* Budget enforcement of the gateway, engine/budget_manager.py, as it runs *)
(* for many concurrent requests on one database.                           *)
(*                                                                         *)
(* A request is a process.  Its handler is cut at every await: between two *)
(* awaits it reads and writes without interruption, at an await any other  *)
(* request (of the same replica or of another) may run.  The table         *)
(* budget_usages is the shared state; `held` is the ORM object a handler   *)
(* loaded and goes on using after the row has changed in the database.     *)
(*                                                                         *)
(* Money is counted in units.  Every row carries one ghost field, entries: *)
(* the requests whose cost its `spent` figure includes.  No guard reads it.*)
(***************************************************************************)
EXTENDS Integers, FiniteSets

CONSTANTS
    Requests,      \* the calls the clients make, one handler run each
    Teams,         \* values of budget_id
    Budgeted,      \* the teams that have a row in the table budgets
    Amount,        \* Amount[t]: budgets.amount of team t
    SoftLimit,     \* SoftLimit[t]: amount * soft_limit_pct / 100
    Downgrading,   \* the teams whose budget names a downgrade_model
    Enforcement,   \* what ENABLE_BUDGET_ENFORCEMENT may be, in one process or another
    MaxSpent,      \* the largest value the column spent can store
    MaxCost,       \* bound: the most one completion costs
    MaxMonth,      \* bound: the number of months that pass
    MaxInFlight,   \* how many handlers the clients keep running at once
    Faults         \* whether the database or the worker may fail

ASSUME RequestsAssumption == IsFiniteSet(Requests)
ASSUME BudgetAssumption ==
    /\ Teams # {}
    /\ Budgeted \subseteq Teams
    /\ Downgrading \subseteq Budgeted
    /\ Enforcement \subseteq BOOLEAN
    /\ Amount \in [Budgeted -> Nat]
    /\ SoftLimit \in [Budgeted -> Nat]
ASSUME BoundAssumption ==
    /\ MaxSpent \in Nat
    /\ MaxCost \in Nat
    /\ MaxMonth \in Nat \ {0}
    /\ MaxInFlight \in Nat
    /\ Faults \in BOOLEAN

VARIABLES
    month,    \* the current calendar month
    usages,   \* the table budget_usages; a row's id is the request that made it
    pc,       \* pc[r]: where the handler of r is
    team,     \* team[r]: request.budget_id
    period,   \* period[r]: start_time, computed from the clock of the handler
    row,      \* row[r]: the id of the usage row the handler works on
    held,     \* held[r]: the usage object loaded by record_actual_spend
    cost      \* cost[r]: actual_cost of the completion, 0 before it

vars == <<month, usages, pc, team, period, row, held, cost>>

Months == 1..MaxMonth

\* A row of budget_usages, with its ghost field.
Usage == [budget : Teams, period : Months, spent : 0..MaxSpent,
          request_count : Nat, entries : SUBSET Requests]

\* Points of a handler that wait on the database or on the provider.
Deciding  == {"selecting", "creating", "refreshing"}
Calling   == {"admitted", "downgraded"}
Recording == {"recording", "committing"}
InFlight  == Deciding \cup Calling \cup Recording
\* Points at which the client has its answer.
Answered  == {"served", "rejected", "failed"}

NoUsage == [budget |-> CHOOSE t \in Teams : TRUE, period |-> 1, spent |-> 0,
            request_count |-> 0, entries |-> {}]

-----------------------------------------------------------------------------
(* What the queries and the checks compute.                                *)

\* Mutant: the SELECT forgets the month.
MatchingRowsOfAnyMonth(t, m) == {id \in DOMAIN usages : usages[id].budget = t}

\* Mutant: a row without spend counts as absent.
MatchingRowsWithSpend(t, m) ==
    {id \in DOMAIN usages :
        usages[id].budget = t /\ usages[id].period = m /\ usages[id].spent > 0}

\* The rows the SELECT on (budget_id, period_start) returns.
MatchingRows(t, m) ==
    {id \in DOMAIN usages : usages[id].budget = t /\ usages[id].period = m}

\* The row a handler inserts when it found none.
NewUsage(t, m) ==
    [budget |-> t, period |-> m, spent |-> 0, request_count |-> 0, entries |-> {}]

\* Mutant: the cost replaces the figure instead of being added to it.
ChargedOver(u, r) ==
    [budget |-> u.budget, period |-> u.period, spent |-> cost[r],
     request_count |-> u.request_count + 1, entries |-> u.entries \cup {r}]

\* The row that record_actual_spend writes back, from the object it holds.
Charged(u, r) ==
    [budget |-> u.budget, period |-> u.period, spent |-> u.spent + cost[r],
     request_count |-> u.request_count + 1, entries |-> u.entries \cup {r}]

\* Mutant: the column has no limit.
FitsAlways(u, r) == TRUE

\* The UPDATE is refused when the figure does not fit the column.
Fits(u, r) == u.spent + cost[r] <= MaxSpent

\* Mutant: a call is rejected when it might take the team over the amount.
VerdictAhead(u) ==
    IF u.spent + MaxCost >= Amount[u.budget] THEN "rejected" ELSE "admitted"

\* Mutant: a team is rejected only above its amount.
VerdictAbove(u) == IF u.spent > Amount[u.budget] THEN "rejected" ELSE "admitted"

\* The verdict of the enforcement checks on a loaded usage row.
Verdict(u) ==
    IF u.spent >= Amount[u.budget] THEN "rejected"
    ELSE IF u.spent >= SoftLimit[u.budget] /\ u.budget \in Downgrading
         THEN "downgraded" ELSE "admitted"

-----------------------------------------------------------------------------
Init ==
    /\ month = 1
    /\ usages = [id \in {} |-> NoUsage]
    /\ pc = [r \in Requests |-> "idle"]
    /\ team \in [Requests -> Teams]
    /\ period = [r \in Requests |-> 1]
    /\ row = [r \in Requests |-> r]
    /\ held = [r \in Requests |-> NoUsage]
    /\ cost = [r \in Requests |-> 0]

Goto(r, l) == pc' = [pc EXCEPT ![r] = l]

\* process: with enforcement off nothing is looked up, though the cost will be recorded;
\* else fetch the budget; a team without one is let through.
Arrive(r) ==
    /\ pc[r] = "idle"
    /\ Cardinality({q \in Requests : pc[q] \in InFlight}) < MaxInFlight
    /\ \E enforced \in Enforcement :
        Goto(r, IF enforced /\ team[r] \in Budgeted THEN "selecting" ELSE "admitted")
    /\ period' = [period EXCEPT ![r] = month]
    /\ UNCHANGED <<month, usages, team, row, held, cost>>

\* get_or_create_usage: no row of this month yet, one will be inserted.
SelectNone(r) ==
    /\ pc[r] = "selecting"
    /\ MatchingRows(team[r], period[r]) = {}
    /\ Goto(r, "creating")
    /\ UNCHANGED <<month, usages, team, period, row, held, cost>>

\* get_or_create_usage finds the row, and process checks it without an await.
SelectOne(r) ==
    /\ pc[r] = "selecting"
    /\ \E id \in DOMAIN usages :
        /\ MatchingRows(team[r], period[r]) = {id}
        /\ Goto(r, Verdict(usages[id]))
    /\ UNCHANGED <<month, usages, team, period, row, held, cost>>

\* Mutant: the handler tries the query again as long as it finds two rows.
SelectManyAgain(r) == pc[r] = "selecting" /\ UNCHANGED vars

\* scalar_one_or_none raises on two rows: the pipeline answers 500.
SelectMany(r) ==
    /\ pc[r] = "selecting"
    /\ Cardinality(MatchingRows(team[r], period[r])) > 1
    /\ Goto(r, "failed")
    /\ UNCHANGED <<month, usages, team, period, row, held, cost>>

\* get_or_create_usage: INSERT and COMMIT.  No constraint forbids a second row.
CreateUsage(r) ==
    /\ pc[r] = "creating"
    /\ usages' = [id \in DOMAIN usages \cup {r} |->
                    IF id = r THEN NewUsage(team[r], period[r]) ELSE usages[id]]
    /\ Goto(r, "refreshing")
    /\ UNCHANGED <<month, team, period, row, held, cost>>

\* get_or_create_usage reloads its row, and process checks what it reads.
RefreshUsage(r) ==
    /\ pc[r] = "refreshing"
    /\ Goto(r, Verdict(usages[r]))
    /\ UNCHANGED <<month, usages, team, period, row, held, cost>>

\* The provider (or the cache, at no cost) answers.  record_actual_spend
\* returns at once for a free call or a team without a budget.
Complete(r) ==
    /\ pc[r] \in Calling
    /\ \E c \in 0..MaxCost :
        /\ cost' = [cost EXCEPT ![r] = c]
        /\ Goto(r, IF c > 0 /\ team[r] \in Budgeted THEN "recording" ELSE "served")
    /\ period' = [period EXCEPT ![r] = month]
    /\ UNCHANGED <<month, usages, team, row, held>>

\* Every attempt on a provider failed.
CallFails(r) ==
    /\ pc[r] \in Calling
    /\ Goto(r, "failed")
    /\ UNCHANGED <<month, usages, team, period, row, held, cost>>

\* record_actual_spend loads the usage row of the month it runs in.
LoadUsage(r) ==
    /\ pc[r] = "recording"
    /\ \E id \in DOMAIN usages :
        /\ MatchingRows(team[r], period[r]) = {id}
        /\ row' = [row EXCEPT ![r] = id]
        /\ held' = [held EXCEPT ![r] = usages[id]]
    /\ Goto(r, "committing")
    /\ UNCHANGED <<month, usages, team, period, cost>>

\* No row of this month, or more than one: the cost is not recorded.
LoadNothing(r) ==
    /\ pc[r] = "recording"
    /\ \A id \in DOMAIN usages : MatchingRows(team[r], period[r]) # {id}
    /\ Goto(r, "served")
    /\ UNCHANGED <<month, usages, team, period, row, held, cost>>

\* record_actual_spend writes the figures computed from the object it holds.
CommitSpend(r) ==
    /\ pc[r] = "committing"
    /\ Fits(held[r], r)
    /\ usages' = [usages EXCEPT ![row[r]] = Charged(held[r], r)]
    /\ Goto(r, "served")
    /\ UNCHANGED <<month, team, period, row, held, cost>>

\* The figure overflows the column: the error is logged and swallowed.
CommitOverflows(r) ==
    /\ pc[r] = "committing"
    /\ ~Fits(held[r], r)
    /\ Goto(r, "served")
    /\ UNCHANGED <<month, usages, team, period, row, held, cost>>

\* A database error aborts process with a 500; record_actual_spend swallows it.
DatabaseError(r) ==
    /\ Faults
    /\ pc[r] \in Deciding \cup Recording
    /\ Goto(r, IF pc[r] \in Recording THEN "served" ELSE "failed")
    /\ UNCHANGED <<month, usages, team, period, row, held, cost>>

\* The worker that runs the handler dies.
Crash(r) ==
    /\ Faults
    /\ pc[r] \in InFlight
    /\ Goto(r, "failed")
    /\ UNCHANGED <<month, usages, team, period, row, held, cost>>

NextMonth ==
    /\ month < MaxMonth
    /\ month' = month + 1
    /\ UNCHANGED <<usages, pc, team, period, row, held, cost>>

\* All calls were answered and the last month has come: nothing is left to do.
Quiescent ==
    /\ \A r \in Requests : pc[r] \in Answered
    /\ month = MaxMonth
    /\ UNCHANGED vars

\* The steps of the handler that only wait on the database.
HandlerStep(r) ==
    \/ SelectNone(r) \/ SelectOne(r) \/ SelectMany(r)
    \/ CreateUsage(r) \/ RefreshUsage(r)
    \/ LoadUsage(r) \/ LoadNothing(r)
    \/ CommitSpend(r) \/ CommitOverflows(r)

CallReturns(r) == Complete(r) \/ CallFails(r)

Next ==
    \/ \E r \in Requests :
        Arrive(r) \/ HandlerStep(r) \/ CallReturns(r) \/ DatabaseError(r) \/ Crash(r)
    \/ NextMonth
    \/ Quiescent

Spec == Init /\ [][Next]_vars

\* The database answers and the provider answers or times out; nothing makes
\* clients call, months pass, or components fail.
Fairness == \A r \in Requests : WF_vars(HandlerStep(r)) /\ WF_vars(CallReturns(r))

FairSpec == Spec /\ Fairness

-----------------------------------------------------------------------------
(* Properties.                                                             *)

\* What the requests in S cost together under the prices f, counted as the set
\* of the units paid.
Units(f, S) == {u \in S \X (1..MaxCost) : u[2] <= f[u[1]]}
CostUnder(f, S) == Cardinality(Units(f, S))
CostOf(S) == CostUnder(cost, S)

\* The paid completions of team t that reached record_actual_spend in month m.
PaidBy(t, m) == {q \in Requests : cost[q] > 0 /\ team[q] = t /\ period[q] = m}

\* Every variable has its type.
TypeOK ==
    /\ month \in Months
    /\ DOMAIN usages \subseteq Requests
    /\ \A id \in DOMAIN usages : usages[id] \in Usage
    /\ usages = [id \in DOMAIN usages |-> usages[id]]
    /\ pc \in [Requests -> {"idle"} \cup InFlight \cup Answered]
    /\ team \in [Requests -> Teams]
    /\ period \in [Requests -> Months]
    /\ row \in [Requests -> Requests]
    /\ held \in [Requests -> Usage]
    /\ cost \in [Requests -> 0..MaxCost]

\* Whatever the interleaving, the faults and the stale objects, the figures of
\* a usage row are the exact cost and number of some of the team's completions
\* of that month: nothing is charged twice, to another team or to another month
\* (record_actual_spend).  Lost charges are not excluded, see the runs.
NeverOvercharged ==
    /\ \A id \in DOMAIN usages :
        /\ usages[id].spent = CostOf(usages[id].entries)
        /\ usages[id].request_count = Cardinality(usages[id].entries)
        /\ usages[id].entries \subseteq PaidBy(usages[id].budget, usages[id].period)
    /\ \A i, j \in DOMAIN usages :
        i # j => usages[i].entries \cap usages[j].entries = {}

\* A 402 is never wrong: when process rejects a request, the completions of
\* its team and month have really cost the whole amount; and it downgrades a
\* request only when they have really cost the soft limit.
EnforcementJustified ==
    \A r \in Requests :
        /\ pc[r] = "rejected" => CostOf(PaidBy(team[r], period[r])) >= Amount[team[r]]
        /\ pc[r] = "downgraded" => CostOf(PaidBy(team[r], period[r])) >= SoftLimit[team[r]]

\* Every call that enters the gateway is answered, even when its team's month
\* has two usage rows or its cost cannot be recorded.
EveryCallAnswered ==
    \A r \in Requests : pc[r] \in InFlight ~> pc[r] \in Answered

\* get_or_create_usage keeps one row per budget and month, which is what the
\* two scalar_one_or_none of budget_manager.py take for granted.
OneUsageRow ==
    \A i, j \in DOMAIN usages :
        usages[i].budget = usages[j].budget /\ usages[i].period = usages[j].period
            => i = j

\* The hard cap: when no other call is running, and the month has its one usage
\* row, process does not let a call through once the team's completions of the
\* month cost the amount.
HardCap ==
    [][\A r \in Requests :
        /\ pc[r] \in Deciding /\ pc'[r] \in Calling
        /\ OneUsageRow
        /\ \A q \in Requests \ {r} : pc[q] \notin InFlight
        => CostOf(PaidBy(team[r], period[r])) < Amount[team[r]]]_vars

\* A team's recorded spend passes the amount by less than one call, which is all
\* a check before the call can promise.
OvershootBounded ==
    \A id \in DOMAIN usages :
        usages[id].spent < Amount[usages[id].budget] + MaxCost

-----------------------------------------------------------------------------
(* The inductive invariant behind NeverOvercharged and                     *)
(* EnforcementJustified.                                                   *)

\* A handler that may still pay has not been priced, one that records has been,
\* and only teams with a budget are checked and recorded.
StagesInv ==
    \A r \in Requests :
        /\ pc[r] \in {"idle"} \cup Deciding \cup Calling => cost[r] = 0
        /\ pc[r] \in Recording => cost[r] > 0
        /\ pc[r] \in Deciding \cup Recording \cup {"downgraded", "rejected"}
            => team[r] \in Budgeted

\* A handler has inserted a row only once it is past "creating", and the row is
\* the one of its team and period.
CreatedInv ==
    \A r \in Requests :
        /\ pc[r] \in {"idle", "selecting", "creating"} => r \notin DOMAIN usages
        /\ pc[r] = "refreshing" =>
            /\ r \in DOMAIN usages
            /\ usages[r].budget = team[r]
            /\ usages[r].period = period[r]

\* The figures of u, a current or an outdated version of row id, stand for
\* completions that were charged to that row and are over.
Sound(id, u) ==
    /\ u.spent = CostOf(u.entries)
    /\ u.request_count = Cardinality(u.entries)
    /\ \A q \in u.entries :
        /\ cost[q] > 0 /\ team[q] = u.budget /\ period[q] = u.period
        /\ row[q] = id /\ pc[q] = "served"

RowsInv == \A id \in DOMAIN usages : Sound(id, usages[id])

\* A loaded object may be outdated, but it is sound and of the right row.
HeldInv ==
    \A r \in Requests : pc[r] = "committing" =>
        /\ row[r] \in DOMAIN usages
        /\ usages[row[r]].budget = team[r] /\ usages[row[r]].period = period[r]
        /\ held[r].budget = team[r] /\ held[r].period = period[r]
        /\ Sound(row[r], held[r])

IInv ==
    TypeOK /\ StagesInv /\ CreatedInv /\ RowsInv /\ HeldInv /\ EnforcementJustified

-----------------------------------------------------------------------------
(* The inductive invariant, together with IInv, behind OneUsageRow and     *)
(* OvershootBounded when the clients make one call after the other.        *)

\* One handler runs at a time.
AloneInv ==
    \A q, r \in Requests : pc[q] \in InFlight /\ pc[r] \in InFlight => q = r

\* There are rows of budgets only, and of no month to come; nobody looks ahead.
CalendarInv ==
    /\ \A id \in DOMAIN usages : usages[id].budget \in Budgeted /\ usages[id].period <= month
    /\ \A r \in Requests : period[r] <= month

\* What a running handler read is still true: a row it is about to insert is missing, an
\* object it holds is the row.
FreshInv ==
    \A r \in Requests :
        /\ pc[r] = "creating" => MatchingRows(team[r], period[r]) = {}
        /\ pc[r] = "committing" => held[r] = usages[row[r]]

\* While a handler runs that was let through, nobody opens a later month than the one it
\* was let through in, and if budgets are enforced, its team has room in that month; the
\* row it will be billed to has room.
RoomInv ==
    \A r \in Requests : \A id \in DOMAIN usages :
        /\ pc[r] \in Deciding \cup Calling => usages[id].period <= period[r]
        /\ /\ FALSE \notin Enforcement
           /\ pc[r] \in Calling \cup Recording
           /\ usages[id].budget = team[r] /\ usages[id].period = period[r]
           => usages[id].spent < Amount[team[r]]

SequentialInv ==
    IInv /\ AloneInv /\ CalendarInv /\ FreshInv /\ RoomInv /\ OneUsageRow

-----------------------------------------------------------------------------
(* The ledger that a team sees.                                            *)

Recorded(t, m) ==
    IF MatchingRows(t, m) = {} THEN 0
    ELSE usages[CHOOSE id \in MatchingRows(t, m) : TRUE].spent

StatusOf(l) ==
    CASE l = "idle" -> "new"
      [] l \in Deciding -> "open"
      [] l \in Calling -> "granted"
      [] l \in Recording -> "billed"
      [] l \in Answered -> "closed"

Account == INSTANCE Ledger WITH
    balance <- [t \in Teams |-> [m \in Months |-> Recorded(t, m)]],
    account <- period,
    status <- [r \in Requests |-> StatusOf(pc[r])],
    bill <- cost

\* As long as calls do not overlap, the rows and the handlers of
\* budget_manager.py behave as an account per team and month that grants,
\* refuses and posts each call as a whole.
ImplementsLedger == Account!Spec
=============================================================================
