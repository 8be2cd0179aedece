----------------------------- MODULE MCStartup -----------------------------
(* Startup with three of the core providers and one contributed one, a first  *)
(* file that was written by hand, and setups that name none, one or all.      *)
EXTENDS Startup, TLC

Core == <<"openai", "anthropic", "ollama">>
Embeddings == <<"sentence-transformers", "openai", "cohere", "ollama">>
Dimensions == [n \in ToSet(Embeddings) |-> IF n = "openai" THEN 1536 ELSE 384]

Told(ps, e, key) == [providers |-> ps, embedding |-> e, cohere_key |-> key]
MCAnswers == {
    Told({}, "sentence-transformers", FALSE),
    Told({"openai"}, "openai", FALSE),
    Told({"anthropic"}, "openai", FALSE),
    Told({"anthropic"}, "cohere", TRUE),
    Told({"openai", "anthropic"}, "ollama", FALSE)}

MCFirstFiles == {[v \in {"openai", "extra"} |-> "given"]}
MCShells == {Empty, "anthropic" :> "given", ("COHERE_API_KEY" :> "given") @@ ("EMBEDDING_PROVIDER" :> "cohere")}
=============================================================================
