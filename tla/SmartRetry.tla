----------------------------- MODULE SmartRetry -----------------------------
(***************************************************************************)
(* The retry and failover engine, engine/smart_retry.py: one execution of  *)
(* SmartRetryEngine.execute against a catalog of models and providers that *)
(* are up, down, or fail now and then.                                     *)
(*                                                                         *)
(* The length of a backoff is not modelled, only that the handler sleeps.  *)
(***************************************************************************)
EXTENDS Integers, Sequences

CONSTANTS
    Providers,      \* provider names
    Models,         \* model names
    Capability,     \* capability names
    General,        \* the capability "general"
    Catalog,        \* settings.models, in the order of config.yaml
    ProviderOf,     \* ProviderOf[m]: the provider of a catalog model
    CapsOf,         \* CapsOf[m]: its capabilities
    Enabled,        \* the models with enabled: true
    MaxRetries,     \* max_retries
    MaxGlitches     \* bound: failures of providers that are up

ASSUME CatalogAssumption ==
    /\ General \in Capability
    /\ Catalog \in Seq(Models)
    /\ ProviderOf \in [Models -> Providers]
    /\ CapsOf \in [Models -> SUBSET Capability]
    /\ Enabled \subseteq Models
ASSUME RetryAssumption == MaxRetries \in Nat /\ MaxGlitches \in Nat

VARIABLES
    active,      \* provider_registry: the configured providers
    down,        \* the configured providers that fail every call
    primary,     \* primary_provider_name
    requested,   \* request.model when execute is called
    provider,    \* current_provider_name
    model,       \* request.model
    attempt,     \* attempt
    status,      \* where the handler is
    glitches,    \* failures of providers that are up, so far
    tried        \* history: the providers called

config == <<active, down, primary, requested>>
retryVars == <<config, provider, model, attempt, status, glitches, tried>>

Position == 1..Len(Catalog)
CatalogModels == {Catalog[i] : i \in Position}

\* The capabilities to preserve, taken from the model execute starts with.
target_capabilities ==
    IF requested \in CatalogModels THEN CapsOf[requested] ELSE {General}

\* Mutant: a fallback need not be configured.
SuitableAnywhere(m) ==
    /\ m \in Enabled
    /\ CapsOf[m] \cap target_capabilities # {} \/ General \in CapsOf[m]

\* A model that may stand in for the requested one.
Suitable(m) ==
    /\ m \in Enabled
    /\ ProviderOf[m] \in active
    /\ CapsOf[m] \cap target_capabilities # {} \/ General \in CapsOf[m]

\* _get_fallback_model considers the suitable models of other providers ...
Fallbacks(p) ==
    {i \in Position : Suitable(Catalog[i]) /\ ProviderOf[Catalog[i]] # p}

\* Mutant: any of them is taken.
IsAny(i, S) == i \in S

\* Mutant: the last one in the catalog is taken.
IsLast(i, S) == i \in S /\ \A j \in S : j <= i

\* ... and takes the first of them in the catalog.
IsFirst(i, S) == i \in S /\ \A j \in S : i <= j

-----------------------------------------------------------------------------
RetryInit ==
    /\ active \in SUBSET Providers
    /\ down \in SUBSET active
    /\ requested \in Models
    /\ primary \in Providers
    /\ provider = primary
    /\ model = requested
    /\ attempt = 0
    /\ status = "calling"
    /\ glitches = 0
    /\ tried = {primary}

\* A call can succeed at a configured provider that is up.
Works(p) == p \in active \ down

\* The provider returns a completion.
Succeed ==
    /\ status = "calling"
    /\ Works(provider)
    /\ status' = "done"
    /\ UNCHANGED <<config, provider, model, attempt, glitches, tried>>

\* The call raises: the provider is down, missing, or fails this once.
CallRaises ==
    /\ status = "calling"
    /\ \/ ~Works(provider) /\ UNCHANGED glitches
       \/ Works(provider) /\ glitches < MaxGlitches /\ glitches' = glitches + 1

\* Mutant: one attempt too many on a provider.
MayRetryLonger == attempt <= MaxRetries

MayRetry == attempt + 1 <= MaxRetries

\* Retry on the same provider, after a backoff.
Retry ==
    /\ CallRaises
    /\ MayRetry
    /\ attempt' = attempt + 1
    /\ status' = "sleeping"
    /\ UNCHANGED <<config, provider, model, tried>>

Wake ==
    /\ status = "sleeping"
    /\ status' = "calling"
    /\ UNCHANGED <<config, provider, model, attempt, glitches, tried>>

\* Retries are used up: go on with the first suitable model of another provider.
Failover ==
    /\ CallRaises
    /\ ~MayRetry
    /\ \E i \in Position :
        /\ IsFirst(i, Fallbacks(provider))
        /\ model' = Catalog[i]
        /\ provider' = ProviderOf[Catalog[i]]
        /\ tried' = tried \cup {provider'}
    /\ attempt' = 0
    /\ UNCHANGED <<config, status>>

\* Nothing to go on with: the last exception is raised.
GiveUp ==
    /\ CallRaises
    /\ ~MayRetry
    /\ Fallbacks(provider) = {}
    /\ status' = "raised"
    /\ UNCHANGED <<config, provider, model, attempt, tried>>

Finished == status \in {"done", "raised"} /\ UNCHANGED retryVars

RetryNext == Succeed \/ Retry \/ Wake \/ Failover \/ GiveUp \/ Finished

RetrySpec == RetryInit /\ [][RetryNext]_retryVars

\* Calls return (the HTTP clients have a timeout) and sleeps end.
FairSpec == RetrySpec /\ WF_retryVars(RetryNext)

-----------------------------------------------------------------------------
(* Properties.                                                             *)

\* What the properties ask of a stand-in.
CanServe(m) ==
    /\ m \in Enabled
    /\ ProviderOf[m] \in active
    /\ General \in CapsOf[m] \/ \E c \in target_capabilities : c \in CapsOf[m]

\* The provider of the catalog's first stand-in from another provider than p,
\* as a set of at most one element.
After(p) ==
    {q \in Providers \ {p} :
        \E i \in Position :
            /\ CanServe(Catalog[i]) /\ ProviderOf[Catalog[i]] = q
            /\ \A j \in 1..(i - 1) :
                CanServe(Catalog[j]) => ProviderOf[Catalog[j]] = p}

\* The primary and its first two successors.
Reach == {primary} \cup After(primary) \cup UNION {After(p) : p \in After(primary)}

\* Every variable has its type.
RetryTypeOK ==
    /\ active \subseteq Providers /\ down \subseteq active
    /\ primary \in Providers /\ provider \in Providers
    /\ requested \in Models /\ model \in Models
    /\ attempt \in 0..MaxRetries
    /\ status \in {"calling", "sleeping", "done", "raised"}
    /\ glitches \in 0..MaxGlitches
    /\ tried \subseteq Providers

\* Failing over goes back and forth between two providers: beside the primary,
\* only the first suitable provider of the catalog and the first one after that
\* are ever called, however many are configured (_get_fallback_model excludes
\* the current provider only).
OnlyTwoFallbacks == tried \subseteq Reach

\* After a failover the model called is enabled, its provider is configured and
\* is the one called, and it can do what the requested model could, or anything.
FailoverSuits ==
    tried # {primary} =>
        /\ model \in CatalogModels /\ CanServe(model)
        /\ provider = ProviderOf[model]

\* execute raises only after it has called every configured provider that has a
\* suitable model.
RaisesOnlyAfterAll ==
    status = "raised" =>
        \A m \in CatalogModels : CanServe(m) => ProviderOf[m] \in tried

\* A call succeeds if one of the providers it can get to stays up, and ends in any case
\* unless two providers stand in for each other, the first two suitable ones of the
\* catalog: if these are down, and the primary too, it goes on between them for ever.
CallEnds ==
    /\ (\E p \in Reach : Works(p)) => <>(status = "done")
    /\ (\A p \in After(primary) : After(p) = {}) => <>(status \in {"done", "raised"})
=============================================================================
