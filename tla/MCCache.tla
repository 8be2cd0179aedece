------------------------------ MODULE MCCache ------------------------------
(* SemanticCache with three requests on two replicas, one of which may be     *)
(* restarted.  Two of the prompts are alike; two requests may have the same   *)
(* prompt, routed to the same model or to two.                                *)
EXTENDS SemanticCache

CONSTANTS r1, r2, r3, a, b, weather, capital, capital2, cheap, premium

Ask(p, m) == [prompt |-> p, model |-> m]
Asks(x, y, z) ==
    [r \in {r1, r2, r3} |-> CASE r = r1 -> x [] r = r2 -> y [] r = r3 -> z]

\* Two prompts that are alike, one repeated call, one prompt on two models.
ThreeWorkloads == {
    Asks(Ask(weather, cheap), Ask(capital, cheap), Ask(capital2, premium)),
    Asks(Ask(weather, cheap), Ask(capital, cheap), Ask(capital, cheap)),
    Asks(Ask(weather, cheap), Ask(capital, cheap), Ask(capital, premium))}

\* Two of the embedding providers, in the order of core_classes.
TwoProviders == <<"sentence-transformers", "openai">>
TwoDimensions == [n \in ToSet(TwoProviders) |-> IF n = "openai" THEN 1536 ELSE 384]

Env(n, usable) == [EMBEDDING_PROVIDER |-> n, usable |-> usable]

\* The package is installed or not; where it is not, a key of openai is of no use.
LocalSettings == {Env("sentence-transformers", {"sentence-transformers"}),
                  Env("sentence-transformers", {"openai"})}

\* The embedding model is changed.
ChangedSettings == {Env("sentence-transformers", {"sentence-transformers"}),
                    Env("openai", {"sentence-transformers", "openai"})}

Capitals == {<<p, p>> : p \in {weather, capital, capital2}}
                \cup {<<capital, capital2>>, <<capital2, capital>>}
=============================================================================
