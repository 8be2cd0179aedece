# Formal models of TokenFinOps

TokenFinOps is a gateway between applications and LLM providers.  A chat
completion passes a pipeline of stages (rate limit, prompt optimization, context
trimming, model routing, cost prediction, budget, cache), is then executed with
retries and failover, and is charged, cached and logged afterwards.  Everything
runs in coroutines of one event loop per process; the supplied deployment runs two
processes (`k8s/deployment.yaml`) on one PostgreSQL and one Redis.

This directory holds TLA+ modules of these parts, the TLC configurations that
check them, and proofs of some of their properties for TLAPS.  The repository has
no test suite; its code, comments and README are the reference.  Paths below are
relative to `src/tokenfinops/`.

Contents

1. Inventory of the system
2. Modules and how they correspond to the code
3. Runs: what is checked, with which bounds
4. Fairness
5. Where code and documentation disagree
6. Proofs
7. What is not modelled, and why
8. Plan

---------------------------------------------------------------------------

## 1. Inventory of the system

| Component | State it keeps | Operations | Shared with |
|---|---|---|---|
| Gateway, `gateway/router.py`, `engine/pipeline.py` | `RequestContext` of a request; usage records | `chat_completions`, `estimate_cost`, `list_models` | everything below |
| Budget manager, `engine/budget_manager.py`, `models/budget.py` | tables `budgets`, `budget_usages` | `get_or_create_usage`, `process`, `record_actual_spend` | all requests of all processes |
| Rate limiter, `engine/rate_limiter.py` | a sorted set per client in Redis | `is_rate_limited`, `process` | all processes |
| Semantic cache, `engine/semantic_cache.py`, `models/cache_entry.py` | Redis keys, table `cache_entries`, a FAISS index and the list `db_ids` in each process | `initialize_cache_from_db`, `get_cached_response`, `save_to_cache`, `process` | the first two by all processes |
| Model router, `engine/model_router.py` | none | `make_routing_decision`, `process` | catalog, provider registry |
| Retry engine, `engine/smart_retry.py` | locals of one execution; rewrites `request.model` | `_get_fallback_model`, `execute` | catalog, provider registry |
| Batch scheduler, `engine/batch_scheduler.py` | queue, lock, timer task, futures | `add_to_batch`, `_wait_and_flush`, `_flush_batch` | callers on one event loop; nothing in the repository calls it |
| Optimizer, trimmer, predictor, `engine/prompt_optimizer.py`, `context_trimmer.py`, `cost_predictor.py` | none; rewrite `request.messages`, add up `tokens_saved`, set the estimate | `process` of each | private to a request |
| Provider registry and providers, `providers/` | the configured providers | `register_provider_class`, `get_provider`, `complete`, `stream` | read only after start |
| Embeddings, `embeddings/` | the active provider | `initialize_active_provider`, `get_active_provider`, `embed_single` | read only after start |
| Configuration, `config.py` | settings and catalog of a process | `Settings`, `load_yaml_config` | `.env`, `config.yaml`, environment |
| Setup wizard, `setup_wizard.py` | `.env`, `config.yaml` | `run_wizard` | processes that start |
| Intelligence, `intelligence/` | table `recommendations` | `generate_recommendations`, `detect_cost_anomaly`, `forecast_monthly_spend` | usage records; nothing calls it |
| Dashboard, `dashboard/api.py` | none | six reads | usage records, budgets, recommendations |
| KV cache manager, observability | counters | | no influence on a request |

**What makes it hard.**

- *Interleaving at every await.*  A handler reads a row, awaits, and writes what it
  computed (`budget_manager.py:104-114`); selects, awaits, and inserts
  (`:22-38`); marks the cache as initialized, awaits, and fills it
  (`semantic_cache.py:30-61`).  Other handlers of the same and of other processes
  run in between.
- *Stale objects.*  The budget check happens before the call, its cost is recorded
  after it, perhaps in another month.  The provider of a call is decided before
  the budget stage changes its model.
- *Partial failure.*  Most errors are swallowed: the cache, the rate limiter, the
  recording of spend and the trimmer go on after a failure with whatever they had
  done by then.  Charge, cache row and usage record are three commits.
- *Crashes and restarts.*  The FAISS index is lost with its process and rebuilt
  from the table; an entry in Redis may be left between two commands.
- *Retries.*  Failover rewrites the request it is working on.
- *Cancellation* of callers that wait for a lock, a batch or a future.
- *Configuration read once.*  A process keeps what it found when it started, which
  may be a file that was being written; a container keeps the environment it was
  created with.

**What makes each component correct.**

- Budget manager: no cost is charged twice, to another team or another month; a
  402 and a downgrade are justified; for calls that do not overlap there is one usage
  row per team and month, and a team passes its amount by less than one call; every
  call is answered.
- Rate limiter: no more than the limit is admitted in a window; a 429 is given only
  to a client that used its limit.
- Cache: a position of the index always means the row its vector was made from; a
  hit answers a prompt that is alike; what was saved can be found.
- Router and retry engine: the model that is called is enabled, its provider is
  configured, it can do the task; execution ends; it fails only when nothing is
  left to try.
- Batch scheduler: nobody is forgotten in the queue, executed twice, or given the
  result of another; batches respect their size; calls return.
- Trimmer and optimizer: system prompt and latest messages survive, in the order of
  the conversation but for repetitions; what is dropped is less relevant, savings are
  not overstated; the two estimates agree, and cover the cost.
  What the provider is sent has the order and the speakers of the conversation.
- Gateway: the answer is that of the model routed to or downgraded to; charges,
  cache, usage records and the pages of the dashboard agree with each other and
  with who answered.
- Setup: a process that starts on a complete setup has the providers that were
  named, and a model it can call.
- Intelligence: suggestions are not listed twice; steady spending is no anomaly;
  the forecast of steady spending is about what a month costs.

---------------------------------------------------------------------------

## 2. Modules and how they correspond to the code

A request (or a replica, or a coroutine) is a process with a program counter.  An
action is the code between two suspensions: `await` for handlers, a Redis command
for the synchronous rate limiter.  `PROJECT.json` maps every definition to the
lines it stands for.  Definitions under a comment "Mutant:" are plausible bugs of
the definition that follows them; they are in no behaviour of a specification and
serve to show that a property can fail.

### BudgetManager, Ledger

`usages` is the table, keyed by the request that inserted the row; `held` is the
ORM object a handler loaded, which goes stale; `period` the month a handler
computed from its clock.

| Actions | Code |
|---|---|
| `Arrive` | `process`, `:43-53`: nothing with enforcement off, else the budget is fetched |
| `SelectNone`, `SelectOne`, `SelectMany` | the SELECT of `get_or_create_usage` finds no row, one (the verdict follows without an await), or raises |
| `CreateUsage`, `RefreshUsage` | INSERT and COMMIT; reload and verdict |
| `Complete`, `CallFails` | the provider; `record_actual_spend` returns early for a free call |
| `LoadUsage`, `LoadNothing` | its SELECT |
| `CommitSpend`, `CommitOverflows` | `:112-114`; `spent` is `Numeric(10,6)` and overflows, `amount` is `Numeric(10,2)` |
| `DatabaseError`, `Crash`, `NextMonth` | a failing statement, a dying worker, the calendar |

`Enforcement` says what the flag may be; it is chosen for each call, so that processes
with and without it share the tables.  `record_actual_spend` does not look at it, and
adds to a row that some other call has made.

Money is counted in units.  Each row has one ghost field, `entries`, the set of
requests whose cost its figure contains.  `models/budget.py:54` uses `Integer`
without importing it; the model is of the class with that import.  Every handler
has a session of its own, so that a row loaded twice is really read twice.

`Ledger` is the abstract specification: an account per team and month, opened
calls that are granted or refused by its balance, bills posted once and as a
whole, or written off in two stated cases (the month has no row yet, or the figure
does not fit).  `BudgetManager!ImplementsLedger` is the refinement.

### RateLimiter

The calls of one client on one or more replicas.  `Stamp` reads the clock; `Admit`
and `Refuse` are the Redis transaction (clean, count, add, set the time to live)
with its two outcomes; `RemoveEntry` is the `zrem` of a refused call; `TransactionFails`
and `RemoveFails` let the call pass, Redis having acted or not; `Crash` loses a
replica between the commands.  The limiter is synchronous, so a replica has one
call in it at a time.  Calls are named by their time stamps, which are distinct;
clocks agree.

### SemanticCache, ResponseCache

Redis and `table` are shared; `index`, `db_ids` and `initialized` belong to a
replica.  A position in `index` is the row its vector was computed from, and
`db_ids` what the code believes it to be.  `StartPreload` creates the index and
awaits the rows, `Preload` lists their ids and adds their vectors (which fails on
a dimension that differs), `Search`, `Fetch`, `Complete`, `Insert`, `IndexEntry`
are the steps of a lookup and a save, `Expire` and `Restart` what happens around
them.  `EmbeddingRegistry` says which embedding provider a replica starts with: a
dimension of 0 is a replica without one, which uses the first tier only.
Similarity is a relation between prompts.  On a hit with cost metadata the
code raises a `NameError` (`semantic_cache.py:183`, `time` is not imported); the
pipeline catches it when the response is already in the context, and the response
is returned (`router.py:41-76`): the model has a hit.

`ResponseCache` is the abstract specification: a collection of fresh responses, which
may be forgotten at any time and answer the same call again, and one of lasting
responses, which are never forgotten and answer alike prompts; a request that bypasses
the cache is not answered from it, and nobody is promised a hit.  `ImplementsCache` is
the refinement: what the keys of Redis hold is fresh (`Fresh`), the rows of the table
are lasting, and `StateOf` maps the program counter.  Replicas, indexes, preloads and
embedding models are gone.

### ModelRouter, SmartRetry

`ModelRouter` is the routing decision as operators: `Candidates`, `Viable`, `Rank`,
`selected_model`.  The task, guessed from marker words, is an input.  `SmartRetry`
is one execution of the engine: `Succeed`, `Retry`, `Wake`, `Failover`, `GiveUp`,
for every set of configured and failing providers; providers that are up may fail
`MaxGlitches` times.

### BatchScheduler

Coroutines of one event loop with the first-come-first-served `asyncio.Lock`
(`holder`, `waiters`), the timer task and the future of each call.  `Call` is
`add_to_batch` up to its first suspension, `Acquire` hands the lock on, `Resolve`
ends a flush.  Callers may be cancelled at each suspension: `CancelWaiting`,
`CancelAwaiting`, `CancelFlush`.

### PromptStages

`messages` holds the places of the client's messages that are left. `Optimize`,
`LeaveContext` / `StartTrim` / `Prune` / `PruneFails`, `Route` / `RouteFails`,
`Predict`, `Clear` / `Downgrade` are the stages; `Send`, `Receive` and `ReceiveFails`
the call of a provider of either kind of API: `model_dump` is what OpenAI and those that
inherit from it are sent, `convert_request` what Anthropic is, `openai_reads` and
`anthropic_reads` which replies `complete` can read. `actual_cost` is what the handler
makes of the reply, by the counts that are in it (`Counts`: a provider may count other
tokens than the pipeline) and the prices of the model that was asked for, which may be
one of `Downgrades`; `QuotedCost` is the estimate endpoint. `Rebuilt` is the sort by
`list.index` (`context_trimmer.py:68`), which takes the first message that is equal, in
role and content, to the one it looks for: what a message says, before and after the
optimizer, is a number. What the regular expressions remove from a message and how
similar it is to the question are numbers given with it. Tokens are four characters, as
in `anthropic_provider.py:36` and in the fallback of the other providers.

### Gateway

The handler of `/v1/chat/completions` from end to end, for concurrent requests. It
composes the stages: routing is `ModelRouter` (EXTENDS), failover uses the operators of
`SmartRetry` (`Engine(m) == INSTANCE SmartRetry WITH ...`, up to two failovers of a
call), the cache may find or forget any saved response, as `SemanticCache` may. A prompt
in it is a number: calls have the same one if their prompts are equal, or so much alike
that the second tier takes one for the other (`semantic_cache.py:98`). Its own matter is
the order of the stages and what happens after the call: `Execute`, `LoadSpend` /
`LoadNothing`, `Charge`, `Save`, `Log`, each with its failure; `dirty` is a session that
needs a rollback after a failed commit, so that later commits on it fail too.
`UsageRecord` is the record with the names the code gives it, and `Overview`,
`ModelBreakdown` and `TeamsSpent` are the pages of the dashboard that are computed from
it. A team has one figure, which a handler reads (`LoadSpend`) and later writes back
with its cost added (`Charge`), so that of two that overlap one is lost; `overlapped` is
a ghost variable, the teams to which that could have happened. `rows` are the teams
whose month has a usage row: with enforcement on the budget stage has seen to that, so
that they are all that have a budget; with enforcement off some may have one, from
another process (`RowSets`), and for the others nothing is recorded
(`budget_manager.py:111`). Two rows of a team, an overflow and the months are in
`BudgetManager`. A stream always ends with an error event (section 5).

`ImplementsLedger` says that the handler is a refinement of `Ledger` too (`StatusOf` maps
the stages), as long as no two calls of a team are between `LoadSpend` and `Charge` at a
time; at all other points they may overlap: what `BudgetManager` promises at the grain of
database statements survives routing, downgrades, the cache, streams and failover.

### Startup

`setup_wizard.py`, `config.py` and both registries. `env_file`, `yaml` and `container`
outlive processes; `process` is what a process has read. `BeginSetup`, `OpenEnv`,
`WriteEnv`, `CopyYaml` are the wizard, each with its failure, and `Interrupt` at any
point of it; `StartDev`, `ComposeUp`, `ComposeRestart` start a process, with the
environment that `Makefile` and `docker-compose.yml` give it. A variable that configures
a provider is named after the provider. `EmbeddingRegistry` (EXTENDS) says which
embedding provider the process gets.

### Reports

`intelligence/`. Time runs in slots, at least five to a day (`SlotsPerDay`), six in the
run; a scenario says which records each slot has. A record is taken to be written in the
middle of its slot, and the forecast to be made at the end of one: `days_active` is half
a slot or more, which with five slots is the tenth of a day from which on the code
extrapolates (`cost_forecaster.py:47`). `Begin`, `ReadStats`, `ReadFlows`, `Check`,
`Commit`, `Fail` are the job that writes recommendations, cut at its awaits;
`detect_cost_anomaly` and `forecast_monthly_spend` are functions of the records up to
now, in whole numbers: the standard deviation is compared by its square.

`MCBudget`, `MCRate`, `MCCache`, `MCSmartRetry`, `MCBatch`, `MCPrompt`, `MCGateway`,
`MCStartup`, `MCReports` instantiate the modules for TLC.

---------------------------------------------------------------------------

## 3. Runs: what is checked, with which bounds

| Run | Question | Bounds | Distinct states |
|---|---|---|---|
| `budget` | Three calls of one team that overlap as they like, with database errors and crashes: `NeverOvercharged`, `EnforcementJustified`, `EveryCallAnswered` | 2 months, enforcement on and off, amount 2, soft limit 1, cost up to 1, column up to 2 | 122,886 |
| `budget_sequential` | Calls that do not overlap, three teams, two with a budget: `OneUsageRow`, `OvershootBounded`, `ImplementsLedger` | amounts 2 and 4, cost up to 2, column up to 4, 2 months | 118,134 |
| `budget_hard_cap` | is the hard cap kept when calls overlap?  (violated) | 3 calls, 1 month | until found |
| `retry` | every set of configured and failing providers, every primary and model: `OnlyTwoFallbacks`, `FailoverSuits`, `CallEnds` | 5 providers, 7 models, 2 glitches | 102,612 |
| `batch` | four calls, batches of two, with and without cancellation: `QueueIsTimed`, `OwnResultOnce`, `CallsReturn` | 4 calls | 42,012 |
| `cache` | three requests on two replicas that preload, save, fail, restart: `Aligned`, `HitIsRelevant`, `SavedIsFindable` | 1 restart, an embedding provider or none | 1.8 million |
| `cache_dims` | the same after a change of the embedding model (violated) | two dimensions | until found |
| `rate` | one or two replicas, late transactions, failures, crashes: `RecentBounded`, `WindowBounded`, `RefusedWhenUsedUp` | limit 2, window 3, 8 ticks, delay up to a window | 12.4 million |
| `prompt` | conversations of 1 to 9 messages from the client to the provider: `ConversationKept`, `SavingsReal`, `EstimateCovers` | 3 lengths, 3 patterns of excess, 11 of similarity, 3 of repetition, 2 APIs, a downgrade to a cheaper and a dearer model, replies with and without text, with no, the expected or other counts | 642,532 |
| `gateway` | three requests end to end: `AnswerIsCapable`, `ChargedAsAnswered`, `BooksAgree`, `ReusedOnce`, `ListedIsServed`, `DowngradeTakesEffect` | 4 workloads, all flags or none, 3 sets of providers, teams with and without a usage row, with and without faults | 3.1 million |
| `startup` | setups that succeed, fail half-way or are interrupted, and processes that start meanwhile: `SetupIsHonoured`, `SetupServes` | 2 setups, 5 sets of answers, 3 environments, 4 embedding providers | 565,063 |
| `reports` | jobs that overlap, fail and see suggestions dismissed; alarm and forecast at every hour: `CopiesOverlap`, `AlarmsAreSpikes` | 3 jobs; 33 days of steady clients, 19 of spiky ones; windows of a half, one and two days | 125,563 |

Every run that passes also checks the type invariant of its module, except
`budget_sequential`, whose module is that of `budget`.

**Why the bounds are enough.** The races of the budget manager are between two handlers,
and a third call observes their result; two months are needed for a call checked in one
and recorded in the other; the column limit equals the amount in `budget`, and that of
one team in `budget_sequential`, so that overflow happens. The rate limiter needs more
calls than the limit within a window, and more than two windows for the key to expire.
The cache needs one request that saves while another preloads, a third that searches, a
second replica that shares the table, and one restart. In the retry engine a third
suitable provider is needed for failover to pass it over, and five are given. Four calls
in batches of two fill a batch while another is executed. The trimmer's slices take
their boundary cases at five and six messages, and three kept ones of nine are needed
for a repeated message to pass another. A third team in `gateway` downgrades to the
first model of another provider, which is the case in which a downgrade is sure to take
effect. Two setups are needed for the second to meet what the first left, and two starts
for a container to keep what it had. The baseline of the alarm is two weeks and the
forecast a month: steady clients run longer than both, from each hour of a day on.
Symmetry is used only in `rate` and `reports`, where replicas and jobs are
interchangeable and no property is temporal.

All bounds are parameters: `MaxSpent`, `MaxCost`, `MaxMonth`, `MaxInFlight`
(BudgetManager), `MaxDelay`, `MaxTime` (RateLimiter), `MaxRestarts`
(SemanticCache), `MaxGlitches` (SmartRetry), `MaxSetups` (Startup), the lengths of the
scenarios (Reports), and the finite sets of requests.
`MaxSpent` and `MaxInFlight` are also facts of the system: the width of the column
and the clients' concurrency.  In `Gateway`, `MaxCost` and `MaxSpent` bound nothing: they
are the limits of the ledger that it is compared with.

**Deadlock** is checked in every run: the only steps that end a behaviour are
`Quiescent` and `Finished`, which state when the system may rest.  `Startup` has none:
processes may always start or stop.

Some properties have a premise that limits them to what the code can promise.
`WindowBounded` and `RefusedWhenUsedUp` are about one replica: with two, a late
transaction is counted against a window that is over, and a refused entry counts
until it is removed.  `CallsReturn` is about behaviours without cancellation: a
cancelled caller takes the batch, or the futures behind its own, with it.
`ChargedAsAnswered` and `DowngradeTakesEffect` exclude failures: cost is computed from
the routed model even if a fallback answered (`router.py:97`).  `CallEnds` leaves out
catalogs on which failover goes in circles.  The part of `ConversationKept` about the
wire is for one system message at most.  `SetupIsHonoured` is for environments that set
nothing, or just what the setup wrote.
`SavedIsFindable` excludes failures and a preload under way.  In each case the
premise is met by most of the states checked.

---------------------------------------------------------------------------

## 4. Fairness

- `BudgetManager!FairSpec`: weak fairness of each handler's database steps and of
  the return of its call.  The event loop runs ready coroutines, drivers and HTTP
  clients have timeouts.  Nothing makes clients call, months pass or parts fail.
- `SmartRetry!FairSpec`: weak fairness of the execution's next step: a call returns
  or raises, a sleep ends.
- `BatchScheduler!FairSpec`: weak fairness of the timer, of the lock (asyncio's
  lock is first come first served), of each execution and of each resumption.  No
  fairness of calls or cancellations.

`RateLimiter`, `SemanticCache`, `PromptStages`, `Gateway`, `Startup` and `Reports` are
checked for safety only.

---------------------------------------------------------------------------

## 5. Where code and documentation disagree

- **Hard cap** (`budget_hard_cap`).  `record_actual_spend` writes back a sum
  computed from a row read before an await.  Two recordings that overlap lose one
  of the costs, and a later call is let through although the amount is used up
  (README: "hard caps, soft thresholds").  What does hold is `NeverOvercharged`.
- **Enforcement switched off** stops the checks and not the recording
  (`router.py:113` looks at the team only): a call is added to the row of the month if
  there is one, which only the budget stage inserts, and is not recorded otherwise.
- **Order of repeated messages.**  "Rebuild original ordering"
  (`context_trimmer.py:67`) sorts by `intermediate_history.index(x)`, which is the place
  of the first equal message: of A, B, A the second A goes before B, if all are kept.
  `OrderKept` says that nothing else is moved; without its exception for repetitions it
  fails in `prompt`.
- **One usage row.**  `get_or_create_usage` is check-then-insert without a unique
  constraint.  Two first calls of a month insert two rows, and both
  `scalar_one_or_none` raise from then on: the team gets 500 until the month ends.
  `OneUsageRow` holds in `budget_sequential` and fails when `MaxInFlight` is raised
  there.
- **Failover for ever.**  `_get_fallback_model` excludes the current provider only:
  with two suitable providers down execution alternates between them for ever,
  contrary to `smart_retry.py:84-85` ("All providers and failover options exhausted."),
  and never reaches a third one (`OnlyTwoFallbacks`).  `CallEnds` says when it does
  end; without its premise it fails in `retry`.  The configured `fallback_chain` is
  not read.
- **Cache after a change of the embedding model** (`cache_dims`).  The preload
  lists ids before it adds vectors; when the vectors do not fit, the ids stay, and
  positions are then translated to other rows: a hit returns the answer to an
  unrelated prompt.
- **Fallback of the embedding provider.**  `EmbeddingRegistry` searches "for any
  viable alternative" (`embeddings/registry.py:44-47`) when the configured provider
  cannot be used, but each `from_env` returns an instance only when its own name is
  configured (`from_env` in the module): the search never finds one, and the second
  cache tier is off.
- **Downgrade.**  The budget stage replaces the model but not the routed provider
  (`router.py:86`); the old provider is asked for the new model, fails, and failover
  takes the first suitable model of another provider, which may be dearer than the one
  downgraded from (README: "automatically downgrades their requests to cheaper
  models").  `DowngradeTakesEffect` says when the downgrade model answers.  One whose
  catalog entry has no capabilities, the default of the field (`config.py:10`), never does
  unless the routed provider has it: failover considers only models that are general or
  share a capability with the current one (`smart_retry.py:21`), and goes on to a later
  one.
- **Streams.**  The README offers "SSE streaming responses", but both `stream` methods
  read the chunks by `async for` from `response.iter_lines()` (`openai_provider.py:138`,
  `anthropic_provider.py:150`), which in httpx is a plain generator: it raises, and the
  only event of a stream is the error (`Stream`, which ends in "broken").
- **Cohere.**  The wizard writes `COHERE_API_KEY` to `.env`; `Settings` has no such
  field, and `cohere_embeddings.py:69` looks into the process environment.  Under
  `make dev`, which does not export `.env`, the provider that was chosen is not found
  (`SetupIsHonoured` excludes it); under docker-compose it is.
- **Wizard.**  "Overwrite?" is asked for `.env` and `config.yaml`, of which the second is
  never overwritten (`setup_wizard.py:120`); "Setup Complete!" is printed after failed
  writes as well; a file that cannot be written is left empty or half.  One entry of
  `config.yaml` with an error empties the whole catalog (`config.py:108`).
- **Suggestions.**  "Check if recommendation already exists to avoid duplicates"
  (`recommendation.py:110`) sees what is committed: jobs that overlap insert the same
  suggestion twice.  `CopiesOverlap` says that this is the only way.

Met while modelling, and built into the models as the code has it: a policy of "never"
bypasses the lookup but not the write (`router.py:118`); the cost of a call that ends in
a month without a usage row is not recorded; `hard_limit_pct`, `period` and
`alert_webhook` of a budget and `task_routing` of the configuration are not used;
streams are neither charged, cached nor logged; the `requested_model` of a usage record
is the model the request was rewritten to, by the router, a downgrade or a failover, and
its provider is the one first routed to; of several system messages only the last
reaches Anthropic (`anthropic_provider.py:45`); a completion without text, which may be
a tool call, cannot be read from the OpenAI API, and is retried although it was paid
for; the trimmer uses the window of the requested model, not of the routed one; the
second cache tier ignores `ttl_seconds` and the model.

---------------------------------------------------------------------------

## 6. Proofs

The proofs hold for every value of the constants that satisfies the ASSUMEs of the
module, which the runs evaluate, and the hypotheses named below.  Each safety theorem
goes the same way (the alarm of `Reports` excepted, which types suffice for): an
inductive invariant, which TLC checked on the bounds of the runs before it was proved,
holds initially, is kept by each action (one lemma for each part of it, one step for
each action), and implies the property.  `PROJECT.json` lists the theorems with the
properties they state.

| Module | About | Theorems | Hypotheses |
|---|---|---|---|
| BudgetManagerProofs | any requests, teams, months and amounts | `TypeCorrect`, `NoOvercharge`, `EnforcementIsJustified` | |
| | calls that do not overlap, whatever fails | `OneRowWhenSequential` | `MaxInFlight = 1` |
| | | `OvershootWhenSequential` | the same, enforcement on, and calls may cost something |
| | calls that do not overlap nor break down | `LedgerImplemented` (refinement) | `MaxInFlight = 1`, enforcement on, and `~Faults` |
| ComponentProofs | SmartRetry: any catalog, any providers | `EngineTyped`, `FailoverPingPong`, `FailoverFits`, `RaisesLast` | |
| | RateLimiter: any replicas, limit, window and delay up to a window | `Typed`, `RecentlyBounded`, `WindowsBounded`, `RefusedAreBusy`, `RefusedHaveHadTheirs` | |
| | Startup: any providers, answers, environments and setups | `StartTyped`, `SetupsAreHonoured`, `SetupsServe` | |
| BatchSchedulerProofs | any number of calls, any batch size | `Typed`, `QueuedAreTimed`, `BatchesBounded`, `ResultsAreOwn` | |
| SemanticCacheProofs | any requests, replicas, restarts | `Typed` | |
| | any environment | `FallbackFindsNothing` | |
| | | `IndexStaysAligned`, `HitsAreRelevant`, `SavedResponsesAreFound`, `CacheImplemented` (refinement) | embedding models of one dimension |
| GatewayProofs | any requests, catalog, budgets and providers | `Typed`, `CacheIsPaidOnce`, `AnswersAreCapable`, `AnswersAreBestRanked`, `ChargesFollowAnswers`, `ListedModelsServe` | |
| | | `DowngradesTakeEffect` | downgrade models have a capability |
| | | `BooksKeepAgreeing` | finitely many requests, models and teams |
| | calls that overlap | `HandlerImplementsLedger` (refinement) | enforcement on, nothing fails, figures fit the column, one figure is not read by two at a time |
| PromptStagesProofs | any conversations, catalog, prices, replies | `Typed`, `ConversationsKept`, `SavingsAreReal`, `EstimatesCover` | |
| ReportsProofs | any jobs, any usage | `Typed`, `CopiesNeedOverlap` | |
| | any usage, day of at least five slots, window | `AlarmsMeanSomething` | |
| FiniteSums | lemmas about sums, for Gateway, PromptStages and Reports | | |

**The hypotheses.**  Each marks a limit of the code, not of the proof.

- Calls that overlap do insert two rows, lose a cost and pass the hard cap (section 5);
  without `MaxInFlight = 1` the three theorems are false, and `budget_hard_cap` shows
  one of the ways.  The first two hold with database errors and crashes, the refinement
  does not: an error between provider and commit loses a bill for a reason that
  `Ledger` does not know.  `budget_sequential` checks the same under the same
  hypotheses.  If every call is free and an amount is zero, a spend of zero is not less
  than the amount, which is all that "calls may cost something" excludes.
- Embedding models of two dimensions leave ids without vectors (`cache_dims`).  A
  replica without an embedding provider is included: it has dimension 0.
- A downgrade model whose catalog entry has no capabilities, which is the default of the
  field (`config.py:10`), is passed over by failover
  (`smart_retry.py:21`): the hypothesis was found by the proof.
- The sums of the dashboard are of finitely many records.
- `HandlerImplementsLedger` has the four hypotheses under which an account is one: with
  enforcement switched off nobody looks at the balance, a database error loses a bill,
  so does a figure that does not fit its column, and of two calls of a team that are
  between reading and writing the figure at the same time (`overlapped`) one loses its
  bill, as `budget_hard_cap` shows at the grain of statements.  Calls that overlap
  anywhere else do no harm: this is the difference to `LedgerImplemented`, which has no
  overlap at all.
- With enforcement off nobody stops a team, so that `OvershootBounded` and the ledger
  need it on.  `NeverOvercharged`, `EnforcementJustified`, `OneUsageRow` do not.

**The invariants.**

*BudgetManager.* `NeverOvercharged` is not inductive: a handler may hold an outdated row
and write it back. `IInv` says that outdated rows are still *sound*: their figure is the
exact cost of their ghost entries, all of them calls that were charged to that row and
are over (`RowsInv`, `HeldInv`); a handler about to charge is in no entry, so adding its
cost is exact. `StagesInv` and `CreatedInv` tie prices and inserted rows to the program
counter. Costs are counted as cardinalities of sets of unit coins (`CostAdds`,
`CostMonotone`, `CostFrame`). For calls that do not overlap `SequentialInv` adds that
one handler runs at a time (`AloneInv`), that rows are of months that have come
(`CalendarInv`), that what the running handler read is still so (`FreshInv`) and that,
with enforcement on, a handler that was let through has room in every row it could be
billed to (`RoomInv`). The months matter: a handler that was let through in one month
may be recorded in the next, where it finds no row. The refinement takes `SequentialInv`
and goes through the actions: an insert and a read change no balance, `Verdict` grants
or refuses as the ledger does, a commit posts one bill as a whole, and `LoadNothing` and
`CommitOverflows` write it off.

*SmartRetry.*  The set of reachable providers is closed under "first suitable other
provider" (`ReachClosed`).

*BatchScheduler.*  The waiters are distinct and waiting, queue and batch are disjoint
and without repetition, and what is queued or batched has not been answered.

*RateLimiter.*  Stamps are distinct and new (`StampInv`), the key outlives what it
counted (`ExpiryInv`), what was admitted lately is still in the sorted set (`KeptInv`),
and, for one replica, everything admitted lies before the call in progress (`OrderInv`)
and the sorted set holds nothing but calls let through (`EntriesInv`).

*SemanticCache.*  A replica that keeps an index has an embedding model, and nobody waits
for rows or saves one on another (`ReplicaInv`); a vector has an id (`LengthInv`); what
a key of Redis holds was generated for a call with that key (`RedisInv`); a saved
response has its row (`RowInv`).  With one dimension ids and vectors are appended
together, so that `Aligned` is inductive with these, and the neighbour a search has
found is alike (`FoundInv`) until it is fetched.  For the refinement, `StoreInv` adds
that what is in an index, or about to be fetched, is in the table (`TableInv`), and that
a handler in a lookup is not of a request that bypasses the cache (`BypassInv`).  Since
a key holds what was generated for it (`RedisInv`), writing a key replaces just the
older response to the same call, and expiry forgets just one.  One dimension is needed
because only then the row that a search found, and that is still to be fetched, is of an
alike prompt.  `FallbackFindsNothing` needs no invariant: each class looks whether it is
the configured one, so that the search for another looks through none.

*Gateway.*  Behind the router a request has the model and provider it was routed to, but
for the model if it was downgraded (`RoutedInv`, `DowngradeInv`); there is an answer
from the call on (`AnswerInv`), only one's own is charged (`ChargeInv`), and as long as
nothing fails it is of the model in the request if the provider called serves it, and
otherwise of the one that failover takes (`EngineInv`, `FaultlessInv`); what is in the
cache was got from a provider (`SavedInv`).  For the books, `BooksInv` adds that neither
a team's spend nor what a handler has read of it is more than what was charged for its
calls, and the spend is not less unless calls overlapped between reading and writing it
(`SpentInv`); that a handler in there is alone and what it read still so, unless others
overlapped it (`RecordingInv`); and that a call is recorded when it is over, as what it
was (`LogInv`).  The pages are sums over
records, models and teams.  `AnswersAreBestRanked` adds to this that a list of
candidates has a first one in the order of the sort (`SelectedIsFirst`), so that
`selected_model` is it, and that a routed provider is configured, so that the model
routed to answers.  For the ledger it is needed that nobody has a provider before the
router (`NewInv`): a call that was refused without one was never opened.  Each action is
then one of the ledger's or none: routing opens a call, the budget stage grants or
refuses, a cached, streamed or failed call is closed without a bill, the answer sets the
bill, reading the figure is no step, and the charge posts the bill, since what was read is
the balance (`RecordingInv`).

*Sums* (`FiniteSums`).  That a sum is what it should be is induction over a finite set, for
which the library's induction theorems cannot be used, as they take an operator;
instead, the community modules' fold is shown to be the last of a sequence of partial
sums (`SumExists`, `SumIsLast`), and the laws of sums (`SumWithout`, `SumOfSame`,
`SumPlus`, `SumOfGroups`, `SumOfOnes`, `SumTimes`, `SumMonotone`, `CauchyOfSums`) follow
each by a smallest set for which it would fail.

*PromptStages.*  A sort puts an element where its rank, the number of elements before it,
says.  For any total order every number below the size of the set is the rank of one
(`RanksAreOrdered`, `RanksAreTaken`), so that the list has all elements, each once, in
this order (`RanksSort`).  This is used for the order of places (`InOrderSorts`) and for
that by the first equal message (`RebuiltSorts`): there a message is at or behind the
first that equals it (`FirstEqualType`), so that whatever is put before a message is
equal to one at or before its own place.  What the trimmer rebuilds, system prompt,
retained messages and latest messages, are three such lists, each before the next
(`Joined`).
`Kept` says what `ConversationKept` says as long as nothing is sent; until the trimmer
`StageInv` has the messages those of the client and the claimed savings covered by what the
optimizer removed.  Savings come from sums: a part of the conversation with more of it
optimized is not longer (`PartIsShorter`).  `CostInv` keeps the estimate equal to the cost
predicted for what is left, with the model before a downgrade; a longer prompt has the
longer expected answer and neither costs less, since the formulas are monotone
(`DearerCosts`), so that the quote covers the estimate, and the estimate the cost of no
more tokens of a model that is not dearer.  What either API
is sent has the turns that are left in their order, and the system prompt apart
(`TranslatedIsLeft`).

*Startup.*  While a run of the wizard counts as complete, `.env` holds what it was told:
from the opening of the file to the end of the next run there is none that counts
(`SetupInv`).  A process that starts then has read just that.

*Reports.*  For the suggestions: a job that is over stays over (`OverInv`), and what
another has in its session was not listed by those that were over when it began
(`SessionInv`).  The alarm needs types alone and holds in every state.  It goes off
above the mean of the baseline plus three standard deviations, which is compared by
squares.  By the inequality of Cauchy and Schwarz (`CauchyOfSums`) more than nine in ten
of the days of the baseline are then cheaper (`Spread`, `AlarmIsAbove`), all but one of
the two weeks or so (`AlarmsAreRare`).  For clients that make the same calls all the
time only the first and the last day of the baseline can be cheaper than a day's worth
of the window, as all days between are there from their first slot to their last
(`WholeDay`), and two of three days or more are not nine in ten (`SteadySetOffNone`).

**Proved, and not part of a run**: `RaisesLast` (`RaisesOnlyAfterAll`),
`BatchesBounded` (`BatchBounded`), `RefusedAreBusy` (`RefusedWhenBusy`),
`FallbackFindsNothing`, `AnswersAreBestRanked` (`AnswerIsBestRanked`), and two
refinements: `CacheImplemented` (`ImplementsCache`) and `HandlerImplementsLedger`
(`Gateway!ImplementsLedger`).  TLC agreed with the last three before they were proved:
`INVARIANT AnswerIsBestRanked` in `MCGateway.cfg` (3.1 million states), `PROPERTY
ImplementsCache` in `MCCache.cfg` (1.8 million states), and `PROPERTY ImplementsLedger` in
`MCGateway.cfg` for a specification whose initial states have `~faulty` and
`"budget" \in flags` and whose steps keep `overlapped` empty (9,322 states; with a
`MaxSpent` of 2, with faults, or with charges that overlap, it is violated).

**Model-checked only**: the liveness properties `EveryCallAnswered`, `CallEnds` and
`CallsReturn`, as liveness under fairness, and ENABLED, are out of the prover's reach.
Every invariant and every refinement of a run is proved.

To repeat: `tlc -config MCBudget.cfg MCBudget`, and so on; `tlapm
BudgetManagerProofs.tla`, and so on.

---------------------------------------------------------------------------

## 7. What is not modelled, and why

- Text: the regular expressions of the optimizer, the marker words of the router,
  tokenizers, prompts of the wizard.  Their results are inputs of the models.
- The HTTP exchange with a provider, sampling parameters, SSE framing: I/O.  A
  provider answers, fails or times out.
- The probes of `/health`: one provider after the other is asked for a token with a
  time limit of 5 seconds each, while `k8s/deployment.yaml` gives the probe the default
  of one second.  Whether the process is restarted for it is a matter of durations,
  which the models do not have.
- Lengths of time: backoff, the batch window, the TTL of a key (it may expire at
  any time), except in the rate limiter and in `Reports`.
- A client that disconnects: its handler runs on, or is cancelled, as the server
  decides.
- What the dashboard only reads and lists (`/spend`, `/requests`, `/recommendations`),
  metrics, tracing, middleware.
- `complexity_scorer.py`, `quality_predictor.py`, `kv_cache_manager.py`: a word count, a
  ratio and a counter that nothing calls.
- In `Gateway`: likeness of prompts that is not transitive (a prompt's number is a class),
  which `SemanticCache` has; two usage rows of a team, overflow and months, which
  `BudgetManager` has.
- Two calls with the same time stamp (rate limiter), hash collisions and two
  embedding models of equal dimension (cache).

---------------------------------------------------------------------------

## 8. Plan

Done, in this order: BudgetManager and Ledger, SmartRetry, BatchScheduler,
SemanticCache with EmbeddingRegistry, RateLimiter, ModelRouter and Gateway,
PromptStages; proofs for BudgetManager, SmartRetry, BatchScheduler and RateLimiter;
then the wire in PromptStages, usage records and dashboard in Gateway, Startup, Reports.

After that, proofs: types of every module; BudgetManager without overlap and its refinement
of the ledger; SemanticCache, Gateway, Startup and Reports; then PromptStages, the alarm and
the forecast of Reports, the refinement of ResponseCache by SemanticCache, and that of
Ledger by the whole handler.

Next:

1. *Ledger*: what follows from the abstract specification alone, that a balance passes
   the amount by less than what the calls in flight cost.
2. *Gateway*: that its cache implements `ResponseCache`, so that the abstraction of the
   cache in the pipeline is tied to `SemanticCache` as that of the budget is to `Ledger`.
3. *BatchScheduler*: an abstract specification (each call gets the result of its own
   request, once) and its refinement.
