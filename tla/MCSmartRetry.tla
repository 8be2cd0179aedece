---------------------------- MODULE MCSmartRetry ----------------------------
(* SmartRetry on a catalog with the shape of config.yaml.example: premium     *)
(* models for coding and general ones, one model that is disabled, and the    *)
(* name of a model that is in no catalog.                                     *)
EXTENDS SmartRetry, TLC

CONSTANTS openai, anthropic, gemini, ollama, vllm
CONSTANTS gpt4o, gpt4omini, sonnet, flash, llama, mixtral, absent
CONSTANTS coding, general

FiveProviders == {openai, anthropic, gemini, ollama, vllm}
ExampleCatalog == <<gpt4o, gpt4omini, sonnet, mixtral, flash, llama>>
ExampleModels == {gpt4o, gpt4omini, sonnet, flash, llama, mixtral, absent}
ExampleProviderOf ==
    (gpt4o :> openai) @@ (gpt4omini :> openai) @@ (sonnet :> anthropic)
        @@ (flash :> gemini) @@ (llama :> ollama) @@ (mixtral :> vllm)
        @@ (absent :> openai)
ExampleCapsOf ==
    [m \in ExampleModels |-> IF m \in {gpt4o, sonnet} THEN {coding} ELSE {general}]
ExampleEnabled == ExampleModels \ {mixtral}
=============================================================================
