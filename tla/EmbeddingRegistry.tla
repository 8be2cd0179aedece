-------------------------- MODULE EmbeddingRegistry --------------------------
(***************************************************************************)
(* Which embedding provider a process uses, embeddings/registry.py: it is  *)
(* chosen once, when the process starts, from what the environment sets    *)
(* and what can be used there (a key is set, a package is installed).      *)
(***************************************************************************)
EXTENDS Integers, SequencesExt

CONSTANTS
    EmbeddingProviders,  \* the names of core_classes, in their order
    DimensionOf,         \* DimensionOf[n]: embedding_dim of provider n
    NoProvider           \* _active_provider is None

ASSUME EmbeddingsAssumption ==
    /\ NoProvider \notin ToSet(EmbeddingProviders)
    /\ DimensionOf \in [ToSet(EmbeddingProviders) -> Nat \ {0}]

\* What a process may find at its start.
Environments == [EMBEDDING_PROVIDER : STRING, usable : SUBSET ToSet(EmbeddingProviders)]

\* Every class looks whether it is the configured one.
from_env(n, env) == n = env.EMBEDDING_PROVIDER /\ n \in env.usable

\* The places of the classes that have an instance.
HaveInstance(env) ==
    {i \in DOMAIN EmbeddingProviders : from_env(EmbeddingProviders[i], env)}

\* The configured provider, else the first other one that has an instance.
active_provider(env) ==
    LET configured ==
            {i \in HaveInstance(env) : EmbeddingProviders[i] = env.EMBEDDING_PROVIDER}
        others == HaveInstance(env) \ configured
    IN  CASE configured # {} -> env.EMBEDDING_PROVIDER
          [] configured = {} /\ others # {} ->
                EmbeddingProviders[CHOOSE i \in others : \A j \in others : i <= j]
          [] OTHER -> NoProvider

\* get_active_provider raises when there is none.
HasProvider(env) == active_provider(env) # NoProvider

\* The dimension of its vectors, 0 without a provider.
EmbeddingDim(env) == IF HasProvider(env) THEN DimensionOf[active_provider(env)] ELSE 0
=============================================================================
