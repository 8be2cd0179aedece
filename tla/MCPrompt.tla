------------------------------ MODULE MCPrompt ------------------------------
(* PromptStages on conversations of one to nine messages, with and without a  *)
(* system prompt, short, of middle length and long, similar to the question   *)
(* in several orders, with ties, and with messages that repeat earlier ones.  *)
EXTENDS PromptStages, TLC

\* off is disabled, the provider of down is not configured.
CONSTANTS gpt, tiny, off, down, absent

\* Long: over every target from five messages on.  Middle: over that of tiny only.
Lengths == {80, 2800, 6000}

\* How much there is to remove: nothing, a little everywhere, a different amount
\* from message to message.
Excess == {[i \in 1..9 |-> 0], [i \in 1..9 |-> 1], [i \in 1..9 |-> (i * 5) % 9]}

Similarities ==
    {[i \in 1..9 |-> 0], [i \in 1..9 |-> i], [i \in 1..9 |-> 9 - i]}
        \cup {[i \in 1..9 |-> IF i \in 2..4 THEN f[i] ELSE 1] : f \in [2..4 -> 0..1]}

\* A chat, one with a system prompt, one whose instructions come late and which uses a
\* tool, one that is instructed twice.
Kinds == {"chat", "prompted", "late", "twice"}
SystemPlaces(kind) ==
    CASE kind = "chat" -> {} [] kind = "prompted" -> {1} [] kind = "late" -> {3} [] OTHER -> {1, 3}

Role(i, kind) ==
    CASE i \in SystemPlaces(kind) -> "system"
      [] kind = "late" /\ i = 5 -> "tool"
      [] OTHER -> IF i % 2 = 1 THEN "user" ELSE "assistant"

\* Nothing is said twice; the same is said at 1, 3, 5 and 7, or at 2 and 4 and at 3 and 5.
Each == [i \in 1..9 |-> i]
Insisting == [i \in 1..9 |-> IF i \in {3, 5, 7} THEN 1 ELSE i]
Echoing == [i \in 1..9 |-> IF i \in {4, 5} THEN i - 2 ELSE i]

\* What the messages say as they are sent, and without what the optimizer removes.
Said(text, compact) == [text |-> text, compact |-> compact]

Conversation(n, kind, len, ex, sim, said) ==
    [i \in 1..n |->
        LET j == said.text[i]
        IN  [role |-> Role(i, kind), text |-> j, compact |-> said.compact[i],
             chars |-> len + ex[j] + (i % 2), excess |-> ex[j], edge |-> i % 2,
             sim |-> sim[said.compact[i]]]]

\* Short conversations are not trimmed, their similarities do not matter.
MCConversations ==
    {Conversation(n, kind, len, ex, [i \in 1..9 |-> 0], Said(Each, Each)) :
        n \in {1, 4}, kind \in {"chat", "prompted"}, len \in Lengths, ex \in Excess}
    \cup
    {Conversation(n, kind, len, ex, sim, Said(Each, Each)) :
        n \in {5, 6}, kind \in Kinds, len \in {2800},
        ex \in {[i \in 1..9 |-> 1], [i \in 1..9 |-> (i * 5) % 9]},
        sim \in {[i \in 1..9 |-> i], [i \in 1..9 |-> 9 - i]}}
    \cup
    {Conversation(n, kind, len, ex, sim, Said(Each, Each)) :
        n \in {6, 8}, kind \in {"chat", "prompted"}, len \in {6000},
        ex \in {[i \in 1..9 |-> (i * 5) % 9]}, sim \in Similarities}
    \cup
    {Conversation(9, "chat", len, ex, sim, said) :
        len \in {6000}, ex \in {[i \in 1..9 |-> (i * 5) % 9]},
        sim \in {[i \in 1..9 |-> 0], [i \in 1..9 |-> i], [i \in 1..9 |-> IF i \in 2..3 THEN i ELSE 1]},
        said \in {Said(Insisting, Insisting), Said(Each, Insisting), Said(Echoing, Echoing)}}

MCWindow == (gpt :> 128000) @@ (tiny :> 4096) @@ (off :> 4096) @@ (down :> 8192)
MCInput == (gpt :> 5) @@ (tiny :> 0) @@ (off :> 1) @@ (down :> 3)
MCOutput == (gpt :> 15) @@ (tiny :> 0) @@ (off :> 2) @@ (down :> 4)
=============================================================================
