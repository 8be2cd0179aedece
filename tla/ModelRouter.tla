----------------------------- MODULE ModelRouter -----------------------------
(***************************************************************************)
(* How engine/model_router.py chooses the model of a request: the models   *)
(* that are enabled and whose provider is configured, those of them that   *)
(* can do the task, ranked by the strategy.  The task is given: the words  *)
(* it is guessed from are left out.                                        *)
(***************************************************************************)
EXTENDS Integers, Sequences

CONSTANTS
    Providers,      \* provider names
    Models,         \* model names
    Capability,     \* capability names, which are also the tasks
    General,        \* the capability "general"
    QualityTasks,   \* the tasks "coding" and "reasoning"
    Catalog,        \* settings.models, in the order of config.yaml
    ProviderOf,     \* ProviderOf[m]: the provider of a catalog model
    CapsOf,         \* CapsOf[m]: its capabilities
    Enabled,        \* the models with enabled: true
    Tier,           \* Tier[m]: quality_tier
    Price           \* Price[m]: cost_per_1k_input, and what a call costs

ASSUME CatalogAssumption ==
    /\ General \in Capability
    /\ Catalog \in Seq(Models)
    /\ ProviderOf \in [Models -> Providers]
    /\ CapsOf \in [Models -> SUBSET Capability]
    /\ Enabled \subseteq Models
    /\ Price \in [Models -> Nat]

CatalogModels == {Catalog[i] : i \in DOMAIN Catalog}

Strategies == {"lowest_cost", "best_quality", "balanced", "budget_aware"}

\* The places in the catalog of the models that can be called.
Candidates(active) ==
    {i \in DOMAIN Catalog : Catalog[i] \in Enabled /\ ProviderOf[Catalog[i]] \in active}

\* Mutant: a model without a capability in common is as good as another.
ViableAny(task, active) == Candidates(active)

\* The candidates that can do the task or anything, all candidates if none can.
Viable(task, active) ==
    LET able == {i \in Candidates(active) : {task, General} \cap CapsOf[Catalog[i]] # {}}
    IN  IF able = {} THEN Candidates(active) ELSE able

PremiumFirst(m) == CASE Tier[m] = "premium" -> 0 [] Tier[m] = "economy" -> 2 [] OTHER -> 1
EconomyFirst(m) == CASE Tier[m] = "premium" -> 2 [] Tier[m] = "economy" -> 0 [] OTHER -> 1

\* The sort key; "budget_aware" is treated as "balanced".
Rank(m, task, strategy) ==
    CASE strategy = "lowest_cost" -> Price[m]
      [] strategy = "best_quality" -> PremiumFirst(m)
      [] OTHER -> IF task \in QualityTasks THEN PremiumFirst(m) ELSE EconomyFirst(m)

\* The sort is stable: of two models of one rank the first in the catalog wins.
Before(i, j, task, strategy) ==
    LET x == Rank(Catalog[i], task, strategy)
        y == Rank(Catalog[j], task, strategy)
    IN  x < y \/ (x = y /\ i <= j)

selected_model(task, strategy, active) ==
    Catalog[CHOOSE i \in Viable(task, active) :
                \A j \in Viable(task, active) : Before(i, j, task, strategy)]
=============================================================================
