------------------------------ MODULE Gateway ------------------------------
(***************************************************************************)
(* A chat completion from end to end: the pipeline of gateway/router.py    *)
(* (rate limiter, optimizer, trimmer, router, predictor, budget, cache),   *)
(* the call through the retry engine, and what is booked after it, for     *)
(* many requests at a time.                                                *)
(*                                                                         *)
(* The stages are taken by what they promise, the modules of each show the *)
(* details: the rate limiter admits or refuses, the cache may forget at    *)
(* any time (SemanticCache), the engine answers with one of the models it  *)
(* can get to (SmartRetry).  A call costs the price of its model: token    *)
(* counts, estimates and savings are left out.                             *)
(*                                                                         *)
(* The budget is checked at once, but recorded as the code does it: the    *)
(* figure is read, and written back one await later, when another call may *)
(* have written its own.  One month is under way: with enforcement on,     *)
(* every budget has its one usage row.  The first calls of a month, which  *)
(* insert it and may insert two, and figures that do not fit the column    *)
(* are BudgetManager's.  With enforcement off nobody inserts a row; there  *)
(* is one if the flag was on earlier in the month.                         *)
(***************************************************************************)
EXTENDS ModelRouter, FiniteSets, FiniteSetsExt

CONSTANTS
    Requests,     \* the calls of the clients
    Asks,         \* what the clients may ask: for each call what ask holds
    FlagSets,     \* the sets of ENABLE_ flags that may be set
    Activations,  \* the sets of providers that may be configured
    Budgeted,     \* the teams that have a budget
    RowSets,      \* the sets of teams that may have a usage row with enforcement off
    Amount,       \* Amount[t]: budgets.amount
    SoftLimit,    \* SoftLimit[t]: the soft limit
    DowngradeTo,  \* DowngradeTo[t]: budgets.downgrade_model or None
    MaxCost,      \* what a call costs at most
    MaxSpent,     \* what fits into the column of the spend
    None          \* no model, no team, no request

ASSUME GatewayAssumption ==
    /\ None \notin Models /\ None \notin Requests /\ None \notin Budgeted
    /\ None \notin Providers
    /\ Amount \in [Budgeted -> Int]
    /\ MaxCost \in Nat /\ \A m \in Models : Price[m] <= MaxCost
    /\ MaxSpent \in Nat
    /\ DowngradeTo \in [Budgeted -> Models \cup {None}]
    /\ FlagSets \subseteq SUBSET {"routing", "budget", "cache"}
    /\ RowSets \subseteq SUBSET Budgeted
    /\ Activations \subseteq SUBSET Providers
    /\ Asks \subseteq [Requests -> [model : Models, task : Capability, strategy : Strategies,
                                    prompt : Nat, cache_policy : {"auto", "never"},
                                    team : Budgeted \cup {None}, stream : BOOLEAN]]

VARIABLES
    flags,      \* the ENABLE_ flags that are set
    active,     \* the configured providers
    faulty,     \* whether a service or a provider may fail in this behaviour
    ask,        \* ask[r]: the request of the client
    rows,       \* the teams that have a usage row of the month
    pc,         \* pc[r]: where the handler of r is
    model,      \* model[r]: ctx.request.model
    provider,   \* provider[r]: metadata "routed_provider"
    original,   \* original[r]: the model r was downgraded from, or None
    answered,   \* answered[r]: the model that generated the answer, or None
    reused,     \* reused[r]: the request whose answer was taken from the cache
    charged,    \* charged[r]: what r added to the figure it had read
    spent,      \* spent[t]: the spend of the month of team t
    held,       \* held[r]: the spend that record_actual_spend has read for r, else 0
    overlapped, \* the teams of which two calls were recorded at a time; no guard reads it
    saved,      \* the requests whose answers were put into the cache
    log,        \* log[r]: status of the usage record of r, or "none"
    dirty       \* dirty[r]: the database session of r needs a rollback

vars == <<flags, active, faulty, ask, pc, model, provider, original, answered,
          reused, rows, charged, spent, held, overlapped, saved, log, dirty>>
config == <<flags, active, faulty, ask, rows>>
spend == <<charged, spent, held, overlapped>>
books == <<spend, saved, log, dirty>>

Over == {"refused", "served", "broken", "failed"}

-----------------------------------------------------------------------------
Init ==
    /\ flags \in FlagSets
    /\ active \in Activations
    /\ faulty \in BOOLEAN
    /\ ask \in Asks
    /\ rows \in IF "budget" \in flags THEN {Budgeted} ELSE RowSets
    /\ pc = [r \in Requests |-> "new"]
    /\ model = [r \in Requests |-> ask[r].model]
    /\ provider = [r \in Requests |-> None]
    /\ original = [r \in Requests |-> None]
    /\ answered = [r \in Requests |-> None]
    /\ reused = [r \in Requests |-> None]
    /\ charged = [r \in Requests |-> 0]
    /\ spent = [t \in Budgeted |-> 0]
    /\ held = [r \in Requests |-> 0]
    /\ overlapped = {}
    /\ saved = {}
    /\ log = [r \in Requests |-> "none"]
    /\ dirty = [r \in Requests |-> FALSE]

Goto(r, l) == pc' = [pc EXCEPT ![r] = l]

\* Mutant: enabled models are listed whether or not they can be called.
list_enabled(providers) == {m \in CatalogModels : m \in Enabled}

\* What GET /models lists.
list_models(providers) ==
    {m \in CatalogModels : m \in Enabled /\ ProviderOf[m] \in providers}

\* RateLimiter: 429.
Limit(r) ==
    /\ pc[r] = "new"
    /\ Goto(r, "refused")
    /\ UNCHANGED <<config, model, provider, original, answered, reused, books>>

\* make_routing_decision finds a model.
Routable(r) ==
    IF "routing" \in flags THEN Candidates(active) # {} ELSE ask[r].model \in CatalogModels

\* The model it selects.
Routed(r) ==
    IF "routing" \in flags THEN selected_model(ask[r].task, ask[r].strategy, active)
    ELSE ask[r].model

\* Mutant: the provider is that of the requested model.
ProviderRequested(r) == ProviderOf[ask[r].model]

\* And its provider.
RoutedProvider(r) == ProviderOf[Routed(r)]

\* ModelRouter: the request is rewritten to the selected model.
Route(r) ==
    /\ pc[r] = "new"
    /\ Routable(r)
    /\ model' = [model EXCEPT ![r] = Routed(r)]
    /\ provider' = [provider EXCEPT ![r] = RoutedProvider(r)]
    /\ Goto(r, "routed")
    /\ UNCHANGED <<config, original, answered, reused, books>>

\* ModelRouter: 400.
RouteFails(r) ==
    /\ pc[r] = "new"
    /\ ~Routable(r)
    /\ Goto(r, "refused")
    /\ UNCHANGED <<config, model, provider, original, answered, reused, books>>

\* Whether BudgetManager checks the request.
Checked(r) == "budget" \in flags /\ ask[r].team \in Budgeted

OverAmount(r) == Checked(r) /\ spent[ask[r].team] >= Amount[ask[r].team]

\* Mutant: the budget is not asked whether it has a downgrade model.
DowngradedAnyway(r) == Checked(r) /\ spent[ask[r].team] >= SoftLimit[ask[r].team]

Downgraded(r) ==
    /\ Checked(r)
    /\ spent[ask[r].team] >= SoftLimit[ask[r].team]
    /\ DowngradeTo[ask[r].team] # None

\* BudgetManager: 402.
Refuse(r) ==
    /\ pc[r] = "routed"
    /\ OverAmount(r)
    /\ Goto(r, "refused")
    /\ UNCHANGED <<config, model, provider, original, answered, reused, books>>

\* BudgetManager: at the soft limit another model is called; its provider is not
\* looked up.
Downgrade(r) ==
    /\ pc[r] = "routed"
    /\ ~OverAmount(r) /\ Downgraded(r)
    /\ original' = [original EXCEPT ![r] = model[r]]
    /\ model' = [model EXCEPT ![r] = DowngradeTo[ask[r].team]]
    /\ Goto(r, "cleared")
    /\ UNCHANGED <<config, provider, answered, reused, books>>

\* BudgetManager lets the request through as it is.
Clear(r) ==
    /\ pc[r] = "routed"
    /\ ~OverAmount(r) /\ ~Downgraded(r)
    /\ Goto(r, "cleared")
    /\ UNCHANGED <<config, model, provider, original, answered, reused, books>>

\* BudgetManager: the database fails, 500.
CheckFails(r) ==
    /\ faulty
    /\ pc[r] = "routed" /\ Checked(r)
    /\ Goto(r, "failed")
    /\ UNCHANGED <<config, model, provider, original, answered, reused, books>>

\* Whether semantic_cache.process looks at the cache.
CacheUsed(r) == "cache" \in flags /\ ask[r].cache_policy # "never"

\* Mutant: the response is put into the cache again.
HitSaved(r) ==
    /\ pc[r] = "cleared"
    /\ CacheUsed(r)
    /\ \E e \in saved :
        /\ ask[e].prompt = ask[r].prompt
        /\ reused' = [reused EXCEPT ![r] = e]
        /\ answered' = [answered EXCEPT ![r] = answered[e]]
    /\ saved' = saved \cup {r}
    /\ Goto(r, "served")
    /\ UNCHANGED <<config, model, provider, original, spend, log, dirty>>

\* A response to a prompt that the cache takes for the same is in one of the tiers: equal,
\* or similar enough for the second one, which is what the numbers of prompts stand for.
\* It is logged if it can be.
Hit(r) ==
    /\ pc[r] = "cleared"
    /\ CacheUsed(r)
    /\ \E e \in saved :
        /\ ask[e].prompt = ask[r].prompt
        /\ reused' = [reused EXCEPT ![r] = e]
        /\ answered' = [answered EXCEPT ![r] = answered[e]]
    /\ \/ log' = [log EXCEPT ![r] = "hit"]
       \/ faulty /\ UNCHANGED log
    /\ Goto(r, "served")
    /\ UNCHANGED <<config, model, provider, original, spend, saved, dirty>>

\* Nothing is found: never cached, expired, or not asked for.
Miss(r) ==
    /\ pc[r] = "cleared"
    /\ Goto(r, IF ask[r].stream THEN "streaming" ELSE "calling")
    /\ UNCHANGED <<config, model, provider, original, answered, reused, books>>

\* A provider answers for its own models only.
Fits(r) == provider[r] \in active /\ provider[r] = ProviderOf[model[r]]

\* The stream runs without retry, charge, cache and log.  Whether the provider accepts
\* it or not, its only event is an error: the chunks are read by `async for` from
\* response.iter_lines(), which is no asynchronous iterator, so that it raises.
Stream(r) ==
    /\ pc[r] = "streaming"
    /\ provider[r] \in active
    /\ Goto(r, "broken")
    /\ UNCHANGED <<config, model, provider, original, answered, reused, books>>

\* get_provider raises: 400.
StreamFails(r) ==
    /\ pc[r] = "streaming"
    /\ provider[r] \notin active
    /\ Goto(r, "failed")
    /\ UNCHANGED <<config, model, provider, original, answered, reused, books>>

\* The retry engine when it starts with model m.
Engine(m) == INSTANCE SmartRetry WITH
    MaxRetries <- 2, MaxGlitches <- 0, down <- {}, primary <- ProviderOf[m],
    requested <- m, provider <- ProviderOf[m], model <- m,
    attempt <- 0, status <- "calling", glitches <- 0, tried <- {ProviderOf[m]}

\* The model it goes on with after a provider failed, if there is one.
Fallback(r, p) ==
    {Catalog[i] : i \in {j \in Engine(model[r])!Fallbacks(p) :
                            Engine(model[r])!IsFirst(j, Engine(model[r])!Fallbacks(p))}}

\* The models it gets to after it gave up on the routed provider: the first of them
\* answers, unless its provider fails too.
Fallbacks(r) ==
    LET first == Fallback(r, provider[r])
    IN  first \cup IF faulty THEN UNION {Fallback(r, ProviderOf[m]) : m \in first} ELSE {}

\* SmartRetryEngine.execute returns: the routed model answered, or the provider
\* failed, or it does not know the model, and a fallback answered.
Execute(r) ==
    /\ pc[r] = "calling"
    /\ \E m \in Models :
        /\ \/ Fits(r) /\ m = model[r]
           \/ (faulty \/ ~Fits(r)) /\ m \in Fallbacks(r)
        /\ answered' = [answered EXCEPT ![r] = m]
    /\ Goto(r, "charging")
    /\ UNCHANGED <<config, model, provider, original, reused, books>>

\* There is nothing to go on with, at once or after the first fallback failed too.
Stuck(r) ==
    \/ Fallback(r, provider[r]) = {}
    \/ faulty /\ \E m \in Fallback(r, provider[r]) : Fallback(r, ProviderOf[m]) = {}

\* It raises, which is logged if it can be: 500.
ExecuteFails(r) ==
    /\ pc[r] = "calling"
    /\ faulty \/ ~Fits(r)
    /\ Stuck(r)
    /\ \/ log' = [log EXCEPT ![r] = "error"]
       \/ faulty /\ UNCHANGED log
    /\ Goto(r, "failed")
    /\ UNCHANGED <<config, model, provider, original, answered, reused,
                   spend, saved, dirty>>

\* Mutant: the cost is that of the model the client asked for.
CostRequested(r) == IF ask[r].model \in CatalogModels THEN Price[ask[r].model] ELSE 0

\* The cost is that of the routed model, whatever model answered.
Cost(r) == IF model[r] \in CatalogModels THEN Price[model[r]] ELSE 0

\* Mutant: a missing usage row is not noticed.
RecordedAnyway(r) == Cost(r) > 0 /\ ask[r].team \in Budgeted

\* Whether record_actual_spend gets as far as the figure: it does not look at the flag,
\* but a free call, a team without a budget or without a row are nothing to record.
Recorded(r) == Cost(r) > 0 /\ ask[r].team \in rows

\* The calls between reading the figure and writing it back.
Recording(t) == {q \in Requests : pc[q] = "recording" /\ ask[q].team = t}

\* record_actual_spend reads the figure of the team.
LoadSpend(r) ==
    /\ pc[r] = "charging"
    /\ Recorded(r)
    /\ held' = [held EXCEPT ![r] = spent[ask[r].team]]
    /\ overlapped' = overlapped \cup {t \in {ask[r].team} : Recording(t) # {}}
    /\ Goto(r, "recording")
    /\ UNCHANGED <<config, model, provider, original, answered, reused,
                   charged, spent, saved, log, dirty>>

\* It returns early.
LoadNothing(r) ==
    /\ pc[r] = "charging"
    /\ ~Recorded(r)
    /\ Goto(r, "saving")
    /\ UNCHANGED <<config, model, provider, original, answered, reused, books>>

\* Mutant: the spend of the month is overwritten.
ChargeAnew(r) ==
    /\ pc[r] = "recording"
    /\ spent' = [spent EXCEPT ![ask[r].team] = Cost(r)]
    /\ charged' = [charged EXCEPT ![r] = Cost(r)]
    /\ held' = [held EXCEPT ![r] = 0]
    /\ Goto(r, "saving")
    /\ UNCHANGED <<config, model, provider, original, answered, reused,
                   overlapped, saved, log, dirty>>

\* It commits the figure it has read, with the cost added, over whatever is there now.
Charge(r) ==
    /\ pc[r] = "recording"
    /\ spent' = [spent EXCEPT ![ask[r].team] = held[r] + Cost(r)]
    /\ charged' = [charged EXCEPT ![r] = Cost(r)]
    /\ held' = [held EXCEPT ![r] = 0]
    /\ Goto(r, "saving")
    /\ UNCHANGED <<config, model, provider, original, answered, reused,
                   overlapped, saved, log, dirty>>

\* It fails, at a query or at the commit, which is swallowed; the session may be
\* unusable from here on.
ChargeFails(r) ==
    /\ faulty
    /\ \/ pc[r] = "charging" /\ ask[r].team \in Budgeted /\ Cost(r) > 0
       \/ pc[r] = "recording"
    /\ held' = [held EXCEPT ![r] = 0]
    /\ \E d \in BOOLEAN : dirty' = [dirty EXCEPT ![r] = d]
    /\ Goto(r, "saving")
    /\ UNCHANGED <<config, model, provider, original, answered, reused,
                   charged, spent, overlapped, saved, log>>

\* save_to_cache, whatever the cache policy; what goes wrong in it is swallowed.
Save(r) ==
    /\ pc[r] = "saving"
    /\ \/ saved' = saved \cup {r}
       \/ faulty /\ UNCHANGED saved
    /\ \/ UNCHANGED dirty
       \/ faulty /\ dirty' = [dirty EXCEPT ![r] = TRUE]
    /\ Goto(r, "logging")
    /\ UNCHANGED <<config, model, provider, original, answered, reused, spend, log>>

\* The usage record is committed and the response returned.
Log(r) ==
    /\ pc[r] = "logging"
    /\ ~dirty[r]
    /\ log' = [log EXCEPT ![r] = "success"]
    /\ Goto(r, "served")
    /\ UNCHANGED <<config, model, provider, original, answered, reused,
                   spend, saved, dirty>>

\* The record cannot be committed: 500 for a call that was answered.
LogFails(r) ==
    /\ pc[r] = "logging"
    /\ faulty
    /\ \/ ~dirty[r] /\ log' = [log EXCEPT ![r] = "error"]
       \/ UNCHANGED log
    /\ Goto(r, "failed")
    /\ UNCHANGED <<config, model, provider, original, answered, reused,
                   spend, saved, dirty>>

(* The usage records, and what dashboard/api.py makes of them.              *)

Logged(status) == {r \in Requests : log[r] \in status}

\* Mutant: a hit is recorded with the cost of the answer.
UsageRecordWithCost(r) == [actual_cost |-> Cost(r), routed_model |-> model[r]]

\* The record of a call with a response.  The request it names was rewritten by the
\* stages, and by the retry engine when that failed over; a hit is recorded with the
\* provider that once generated the answer.
UsageRecord(r) ==
    [requested_model |-> IF log[r] = "hit" THEN model[r] ELSE answered[r],
     routed_model    |-> model[r],
     provider        |-> IF log[r] = "hit" THEN ProviderOf[answered[r]] ELSE provider[r],
     actual_cost     |-> IF log[r] = "hit" THEN 0 ELSE Cost(r),
     cache_hit       |-> log[r] = "hit"]

\* A record of a failed call has no cost.
actual_cost == [r \in Requests |-> IF log[r] = "error" THEN 0 ELSE UsageRecord(r).actual_cost]

\* What GET /overview shows.
Overview ==
    [total_calls |-> Cardinality(Logged({"hit", "success", "error"})),
     cache_hits  |-> Cardinality(Logged({"hit"})),
     total_spent |-> SumFunctionOnSet(actual_cost, Logged({"hit", "success", "error"}))]

\* What GET /models of the dashboard shows of model m.
ModelBreakdown(m) ==
    LET calls == {r \in Logged({"hit", "success", "error"}) : model[r] = m}
    IN  [spent |-> SumFunctionOnSet(actual_cost, calls), calls |-> Cardinality(calls)]

\* The part of GET /teams that changes: the spend of the budget in the latest month.
TeamsSpent == SumFunctionOnSet(spent, Budgeted)

-----------------------------------------------------------------------------
Quiescent == (\A r \in Requests : pc[r] \in Over) /\ UNCHANGED vars

Next ==
    \/ \E r \in Requests :
        \/ Limit(r) \/ Route(r) \/ RouteFails(r)
        \/ Refuse(r) \/ Downgrade(r) \/ Clear(r) \/ CheckFails(r)
        \/ Hit(r) \/ Miss(r) \/ Stream(r) \/ StreamFails(r)
        \/ Execute(r) \/ ExecuteFails(r)
        \/ LoadSpend(r) \/ LoadNothing(r) \/ Charge(r) \/ ChargeFails(r) \/ Save(r) \/ Log(r) \/ LogFails(r)
    \/ Quiescent

Spec == Init /\ [][Next]_vars

-----------------------------------------------------------------------------
(* Properties.                                                             *)

\* Every variable has its type.
TypeOK ==
    /\ flags \in FlagSets
    /\ active \in Activations
    /\ faulty \in BOOLEAN
    /\ ask \in Asks
    /\ pc \in [Requests -> {"new", "routed", "cleared", "streaming", "calling",
                            "charging", "recording", "saving", "logging"} \cup Over]
    /\ model \in [Requests -> Models]
    /\ provider \in [Requests -> Providers \cup {None}]
    /\ original \in [Requests -> Models \cup {None}]
    /\ answered \in [Requests -> Models \cup {None}]
    /\ reused \in [Requests -> Requests \cup {None}]
    /\ charged \in [Requests -> Nat]
    /\ rows \subseteq Budgeted
    /\ spent \in [Budgeted -> Nat]
    /\ held \in [Requests -> Nat]
    /\ overlapped \subseteq Budgeted
    /\ saved \subseteq Requests
    /\ log \in [Requests -> {"none", "hit", "success", "error"}]
    /\ dirty \in [Requests -> BOOLEAN]

Booked == {"saving", "logging", "served"}
Own(r) == answered[r] # None /\ reused[r] = None

\* With routing, a call that is answered by the model it was routed to is answered by
\* one that can do the task if any configured model can, not only at routing time
\* but after the budget and the cache stage as well.
AnswerIsCapable ==
    \A r \in Requests :
        /\ "routing" \in flags /\ Own(r)
        /\ original[r] = None /\ answered[r] = model[r]
        /\ \E i \in Candidates(active) : {ask[r].task, General} \cap CapsOf[Catalog[i]] # {}
        => {ask[r].task, General} \cap CapsOf[answered[r]] # {}

\* With routing and as long as nothing fails, a call that was not downgraded is answered
\* by a model that none of those that could do its task is ranked before: with
\* "lowest_cost" none is cheaper, with "best_quality" none is of a better tier.
AnswerIsBestRanked ==
    ~faulty /\ "routing" \in flags =>
        \A r \in Requests :
            Own(r) /\ original[r] = None =>
                \A i \in Viable(ask[r].task, active) :
                    Rank(answered[r], ask[r].task, ask[r].strategy)
                        <= Rank(Catalog[i], ask[r].task, ask[r].strategy)

\* As long as nothing fails, and unless the call was downgraded or its provider is
\* not configured, what is added for it to the figure read is the price of the model
\* that answered, if its team has a usage row, and else nothing; and the usage record
\* names that model and the provider it was answered by (router.py takes them from the
\* request, which later steps rewrite, and from metadata).
ChargedAsAnswered ==
    ~faulty => \A r \in Requests :
        /\ Own(r) /\ pc[r] \in Booked
        /\ original[r] = None /\ provider[r] \in active
        => /\ charged[r] = IF ask[r].team \in rows THEN Price[answered[r]] ELSE 0
           /\ log[r] = "success" =>
                /\ UsageRecord(r).routed_model = answered[r]
                /\ UsageRecord(r).requested_model = answered[r]
                /\ UsageRecord(r).provider = ProviderOf[answered[r]]

\* The pages of the dashboard, which read different tables written by different
\* commits, agree: the models add up to the total, hits cost nothing, and once the calls
\* are over and if nothing failed, every answered call is counted and the teams have not
\* spent more than the total of the records: the same, if they all have a usage row and
\* none had two calls recorded at a time.
DashboardAgrees ==
    /\ SumFunctionOnSet([m \in Models |-> ModelBreakdown(m).spent], Models) = Overview.total_spent
    /\ SumFunctionOnSet([m \in Models |-> ModelBreakdown(m).calls], Models) = Overview.total_calls
    /\ ~faulty /\ (\A r \in Requests : pc[r] \in Over) =>
        /\ Overview.total_calls =
                Cardinality({r \in Requests : pc[r] = "served" \/ log[r] = "error"})
        /\ TeamsSpent <= Overview.total_spent
        /\ overlapped = {} /\ (\A r \in Requests : ask[r].team \in rows)
            => TeamsSpent = Overview.total_spent

\* What the calls of team t were charged together.
ChargedTo(t) == SumFunctionOnSet(charged, {r \in Requests : ask[r].team = t})

\* The figure of a team is never more than what was charged for its calls, whatever is
\* lost where two are recorded at a time, and exactly that if no two were.  Charged are
\* those that were answered by a provider and whose team has a usage row: nothing for
\* cached, streamed, refused or failed ones.  Each of them that returned to the client
\* has a usage record.  The pages of the dashboard agree.
BooksAgree ==
    /\ \A t \in Budgeted :
        /\ spent[t] <= ChargedTo(t)
        /\ t \notin overlapped => spent[t] = ChargedTo(t)
    /\ \A r \in Requests :
        /\ charged[r] > 0 => ask[r].team \in rows
        /\ charged[r] > 0 => Own(r) /\ ~ask[r].stream /\ pc[r] \in Booked \cup {"failed"}
        /\ charged[r] > 0 /\ pc[r] = "served" => log[r] = "success"
        /\ charged[r] > 0 /\ pc[r] = "failed" => faulty
    /\ DashboardAgrees

\* A cached answer was generated by a provider for another call, with a prompt that the
\* cache takes for the same, and costs nothing a second time: the cache never returns
\* what it got from the cache.
ReusedOnce ==
    \A r \in Requests :
        reused[r] # None =>
            /\ Own(reused[r]) /\ charged[r] = 0
            /\ ask[reused[r]].prompt = ask[r].prompt
            /\ answered[r] = answered[reused[r]]

\* A model that is listed can be called: without routing, and if nothing fails, a
\* call that asks for it by name is answered, and by no other model, unless it is
\* streamed (list_models against what routing, the registry and failover do with it).
ListedIsServed ==
    ~faulty => \A r \in Requests :
        "routing" \notin flags /\ ask[r].model \in list_models(active) /\ original[r] = None =>
            /\ pc[r] # "failed"
            /\ Own(r) => answered[r] = ask[r].model

\* As long as nothing fails, a downgraded call that is answered is answered by the
\* downgrade model if that one can be called, and is either of the provider routed to
\* or before the models of all others in the catalog: the call goes to the old
\* provider first, and failover takes the first model it finds.  (Else a dearer model
\* may answer.)
DowngradeTakesEffect ==
    ~faulty => \A r \in Requests :
        /\ original[r] # None /\ Own(r)
        /\ \E i \in Candidates(active) :
            /\ Catalog[i] = model[r]
            /\ \/ ProviderOf[model[r]] = provider[r]
               \/ \A j \in Candidates(active) : j < i => ProviderOf[Catalog[j]] = provider[r]
        => answered[r] = model[r]

-----------------------------------------------------------------------------
(* The ledger that a team sees, with one month.                            *)

\* A call that ends before the budget stage is never opened, and one is granted without a
\* look at the balance if its team has no budget.
StatusOf(r) ==
    CASE provider[r] = None -> "new"
      [] pc[r] = "routed" /\ ask[r].team \in Budgeted -> "open"
      [] \/ pc[r] = "routed" /\ ask[r].team \notin Budgeted
         \/ pc[r] \in {"cleared", "streaming", "calling"} -> "granted"
      [] (pc[r] = "charging" /\ Recorded(r)) \/ pc[r] = "recording" -> "billed"
      [] OTHER -> "closed"

Account == INSTANCE Ledger WITH
    Teams <- Budgeted \cup {None}, MaxMonth <- 1,
    month <- 1,
    balance <- [t \in Budgeted \cup {None} |->
                    [m \in 1..1 |-> IF t \in Budgeted THEN spent[t] ELSE 0]],
    team <- [r \in Requests |-> ask[r].team],
    account <- [r \in Requests |-> 1],
    status <- [r \in Requests |-> StatusOf(r)],
    bill <- [r \in Requests |-> IF Own(r) THEN Cost(r) ELSE 0]

\* With enforcement switched on and nothing failing, and as long as the figures fit the
\* column and no two calls of a team are recorded at a time, the handler does to the team
\* what the ledger says, whatever else of its calls overlaps and whatever routing,
\* downgrades, the cache, streams and failover make of them.
ImplementsLedger == Account!Spec
=============================================================================
