----------------------------- MODULE MCGateway -----------------------------
(* Gateway on a catalog with the shape of config.yaml.example: a premium and  *)
(* an economy model of openai, a premium one of gemini that is general, a     *)
(* free local one.  One team with a budget that downgrades to the local model,*)
(* one to the first model of another provider, one whose budget names none.   *)
EXTENDS Gateway, TLC

CONSTANTS r1, r2, r3, team, strict, third, gpt4o, gpt4omini, gemini15, llama, absent
CONSTANTS openai, gemini, ollama, coding, general

MCModels == {gpt4o, gpt4omini, gemini15, llama, absent}
MCCatalog == <<gpt4o, gpt4omini, gemini15, llama>>
MCProviderOf == (gpt4o :> openai) @@ (gpt4omini :> openai) @@ (gemini15 :> gemini)
                    @@ (llama :> ollama) @@ (absent :> openai)
MCCapsOf == [m \in MCModels |-> IF m = gpt4o THEN {coding} ELSE {general}]
MCTier == [m \in MCModels |-> IF m \in {gpt4o, gemini15} THEN "premium" ELSE "economy"]
MCPrice == (gpt4o :> 3) @@ (gpt4omini :> 1) @@ (gemini15 :> 2) @@ (llama :> 0)
                @@ (absent :> 0)

\* Everything is configured, all but the local provider, nothing.
MCActivations == {{openai, gemini, ollama}, {openai, gemini}, {}}

Everything == {"routing", "budget", "cache"}
MCFlagSets == {Everything, {}}

\* With enforcement off, two teams were checked earlier in the month, one never.
MCRowSets == {{team, third}}

AmountFour == [t \in {team, strict, third} |-> 4]
SoftOne == [t \in {team, strict, third} |-> 1]
Downgrades == (team :> llama) @@ (strict :> None) @@ (third :> gemini15)

Call(m, t, s, p, c, b, st) ==
    [model |-> m, task |-> t, strategy |-> s, prompt |-> p, cache_policy |-> c,
     team |-> b, stream |-> st]
Coding(p) == Call(gpt4o, coding, "budget_aware", p, "auto", team, FALSE)
Strict(p) == Call(gpt4o, coding, "balanced", p, "auto", strict, FALSE)
Third(p) == Call(gpt4o, coding, "balanced", p, "auto", third, FALSE)
Chat(p, c) == Call(gpt4omini, general, "balanced", p, c, team, FALSE)
Best(p) == Call(gpt4omini, general, "best_quality", p, "auto", team, FALSE)
Anonymous == Call(absent, general, "lowest_cost", 1, "auto", None, FALSE)
Streaming(t) == Call(llama, coding, "lowest_cost", 1, "auto", t, TRUE)
Three(x, y, z) == [r \in {r1, r2, r3} |-> CASE r = r1 -> x [] r = r2 -> y [] r = r3 -> z]

\* Paid calls of one team or the other, a repeated prompt, a bypassing one, a stream, one that
\* asks for a model of no catalog.
MCAsks == {
    Three(Coding(1), Best(2), Anonymous),
    Three(Chat(1, "never"), Best(1), Streaming(team)),
    Three(Strict(1), Strict(2), Streaming(strict)),
    Three(Third(1), Third(2), Strict(1))}
=============================================================================
