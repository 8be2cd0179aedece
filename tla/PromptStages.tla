---------------------------- MODULE PromptStages ----------------------------
(***************************************************************************)
(* What becomes of the messages of a request until they reach a provider:  *)
(* engine/prompt_optimizer.py compresses them, engine/context_trimmer.py   *)
(* drops some, engine/cost_predictor.py estimates what is left, providers/ *)
(* translates it for the API of a provider and reads its reply, for which  *)
(* gateway/router.py computes the cost; and the endpoint that estimates a  *)
(* request as the client wrote it.  Budget and cache, which may end a call *)
(* before it is sent, and retries after one is not read, are in Gateway;   *)
(* here the budget only may exchange the model between estimate and call.  *)
(*                                                                         *)
(* A message is its role, what it says before and after the optimizer (two *)
(* numbers, the same for the same content and name), its length, what the  *)
(* expressions of the optimizer remove from it, what strip() then takes    *)
(* off its ends, and how similar it is to the last message.  `messages`    *)
(* holds the places, in the client's request, of the messages that are     *)
(* left.  Tokens are counted four characters each, as the providers do     *)
(* without a tokenizer; what a provider counts is its own affair.  The     *)
(* context of a request is private to its handler: one request is enough.  *)
(***************************************************************************)
EXTENDS Integers, SequencesExt

CONSTANTS
    Conversations,  \* what the clients may send: sequences of messages
    Models,         \* what request.model may be
    Catalog,        \* the models in settings.models
    Served,         \* the models in settings.models whose provider is active
    Callable,       \* those of them that are enabled
    Window,         \* Window[m]: context_window of a catalog model
    InputPrice,     \* InputPrice[m]: cost_per_1k_input
    OutputPrice,    \* OutputPrice[m]: cost_per_1k_output
    Apis,           \* the APIs of the active providers: "openai", "anthropic"
    Downgrades,     \* the models that budgets are downgraded to
    Counts,         \* tokens that a provider may count, other than the pipeline does
    NoEstimate      \* what an estimate, a payload or a reply is before there is one

Message == [role : {"system", "user", "assistant", "tool"}, text : Nat, compact : Nat,
            chars : Nat, excess : Nat, edge : Nat, sim : Nat]

ASSUME ConversationsAssumption ==
    \A c \in Conversations :
        /\ c \in Seq(Message) /\ c # <<>>
        /\ \A i \in DOMAIN c : c[i].excess + c[i].edge <= c[i].chars
ASSUME CatalogAssumption ==
    /\ Callable \subseteq Served /\ Served \subseteq Catalog /\ Catalog \subseteq Models
    /\ Window \in [Catalog -> Nat]
    /\ InputPrice \in [Catalog -> Nat] /\ OutputPrice \in [Catalog -> Nat]
ASSUME ApisAssumption == Apis \subseteq {"openai", "anthropic"}
ASSUME DowngradesAssumption == Downgrades \subseteq Models /\ NoEstimate \notin Models
ASSUME CountsAssumption == Counts \subseteq Nat

VARIABLES
    flags,       \* the ENABLE_ flags that are set
    sent,        \* the messages as the client sent them
    asked,       \* the model it asked for
    pc,          \* the stage that comes next
    messages,    \* request.messages, as places of sent
    compressed,  \* the places whose content was optimized
    model,       \* request.model
    original,    \* what it was before the budget exchanged it, or NoEstimate
    saved,       \* ctx.tokens_saved
    estimate,    \* ctx.estimated_cost, in thousandths
    payload,     \* the body of the POST to the provider
    reply        \* what the provider answered, once it was read

vars == <<flags, sent, asked, pc, messages, compressed, model, original, saved, estimate,
          payload, reply>>
client == <<flags, sent, asked>>
wire == <<payload, reply>>
prompt == <<messages, compressed>>

-----------------------------------------------------------------------------
(* Lengths and tokens.                                                     *)

\* The length of message i, whose content was optimized if it is in C.
CharsIn(i, C) == sent[i].chars - (IF i \in C THEN sent[i].excess + sent[i].edge ELSE 0)

\* The messages ms joined by newlines.
TextLength(ms, C) ==
    SumFunctionOnSet([k \in DOMAIN ms |-> CharsIn(ms[k], C)], DOMAIN ms) + Len(ms) - 1

Tokens(ms, C) == TextLength(ms, C) \div 4

AllPlaces == [i \in DOMAIN sent |-> i]

Init ==
    /\ flags \in SUBSET {"optimization", "routing", "budget"}
    /\ sent \in Conversations
    /\ asked \in Models
    /\ pc = "optimize"
    /\ messages = AllPlaces
    /\ compressed = {}
    /\ model = asked
    /\ original = NoEstimate
    /\ saved = 0
    /\ estimate = NoEstimate
    /\ payload = NoEstimate
    /\ reply = NoEstimate

-----------------------------------------------------------------------------
(* The optimizer.                                                          *)

\* Mutant: a fraction of a token counts as one.
SavedOfRoundedUp(i) == (sent[i].excess + 3) \div 4

\* The tokens that the optimizer claims for message i.
SavedOf(i) == sent[i].excess \div 4

\* The messages worth compressing; those of the assistant are left alone.
Compressible ==
    {i \in DOMAIN sent : sent[i].role \in {"user", "system"} /\ SavedOf(i) > 0}

Optimize ==
    /\ pc = "optimize"
    /\ IF "optimization" \in flags
       THEN /\ compressed' = Compressible
            /\ saved' = SumFunctionOnSet([i \in Compressible |-> SavedOf(i)], Compressible)
       ELSE UNCHANGED <<compressed, saved>>
    /\ pc' = "trim"
    /\ UNCHANGED <<client, wire, messages, model, original, estimate>>

-----------------------------------------------------------------------------
(* The trimmer.                                                            *)

HasSystem == sent[1].role = "system"
SystemPrompt == IF HasSystem THEN <<1>> ELSE <<>>
ChatHistory == SubSeq(messages, IF HasSystem THEN 2 ELSE 1, Len(messages))

\* s[-n:]
Latest(s, n) == SubSeq(s, IF Len(s) > n THEN Len(s) - n + 1 ELSE 1, Len(s))

\* Mutant: one message less is essential.
LastTwo(s) == Latest(s, 2)

EssentialTail(s) == Latest(s, 3)

Intermediate == {ChatHistory[k] : k \in 1..(Len(ChatHistory) - 3)}

\* 80% of the context window of the model, or the default ceiling.
TargetMax == LET w == (Window[model] * 8) \div 10 IN IF w < 4000 THEN w ELSE 4000

\* Whether trim_context gets beyond its early returns; process skips it for a model
\* of no catalog, or when its provider is not active.
TooLarge ==
    /\ model \in Served
    /\ Len(messages) > 4
    /\ Tokens(messages, compressed) > TargetMax
    /\ Intermediate # {}

LeaveContext ==
    /\ pc = "trim"
    /\ ~TooLarge
    /\ pc' = "route"
    /\ UNCHANGED <<client, wire, prompt, model, original, saved, estimate>>

\* The intermediate messages are about to be embedded, one call after the other.
StartTrim ==
    /\ pc = "trim"
    /\ TooLarge
    /\ pc' = "embed"
    /\ UNCHANGED <<client, wire, prompt, model, original, saved, estimate>>

\* Mutant: the least similar messages come first.
RanksBeforeReversed(j, i) == sent[j].sim < sent[i].sim \/ (sent[j].sim = sent[i].sim /\ j < i)

\* Whether j is before i in the order by similarity, which is stable.
RanksBefore(j, i) == sent[j].sim > sent[i].sim \/ (sent[j].sim = sent[i].sim /\ j < i)

KeepCount == IF Cardinality(Intermediate) < 2 THEN 1 ELSE Cardinality(Intermediate) \div 2

\* The better half of the intermediate messages.
Retained ==
    {i \in Intermediate : Cardinality({j \in Intermediate : RanksBefore(j, i)}) < KeepCount}

\* Messages are compared by what they are now, not by their places.
Content(i) == IF i \in compressed THEN sent[i].compact ELSE sent[i].text
Alike(i, j) == sent[i].role = sent[j].role /\ Content(i) = Content(j)

\* intermediate_history.index(x), where x is message i.
FirstEqual(i) == CHOOSE j \in Intermediate :
                    Alike(j, i) /\ \A h \in Intermediate : Alike(h, i) => j <= h

\* Mutant: they stay in the order of their similarity.
BySimilarity(S) == SetToSortSeq(S, RanksBefore)

\* Whether j is before i when they are sorted by that index; those that are alike stay in
\* the order they were in.
Precedes(j, i) ==
    FirstEqual(j) < FirstEqual(i) \/ (FirstEqual(j) = FirstEqual(i) /\ RanksBefore(j, i))

\* "Rebuild original ordering": before the k-th of them there are k - 1.
Rebuilt(S) ==
    [k \in 1..Cardinality(S) |-> CHOOSE i \in S : Cardinality({j \in S : Precedes(j, i)}) = k - 1]

\* Mutant: the difference is taken the wrong way round, and not looked at.
SparedUnchecked(before, after) == after - before

\* What process adds to the savings.
Spared(before, after) == IF before > after THEN before - after ELSE 0

\* All embeddings have come: the request is rewritten.
Prune ==
    /\ pc = "embed"
    /\ messages' = SystemPrompt \o Rebuilt(Retained) \o EssentialTail(ChatHistory)
    /\ saved' = saved + Spared(Tokens(messages, compressed), Tokens(messages', compressed))
    /\ pc' = "route"
    /\ UNCHANGED <<client, wire, compressed, model, original, estimate>>

\* No embedding provider, or one of the calls fails: the latest messages are left,
\* and nothing is claimed for the others.
PruneFails ==
    /\ pc = "embed"
    /\ messages' = SystemPrompt \o Latest(ChatHistory, 5)
    /\ pc' = "route"
    /\ UNCHANGED <<client, wire, compressed, model, original, saved, estimate>>

-----------------------------------------------------------------------------
(* The router, of which only the result matters here.                      *)

Route ==
    /\ pc = "route"
    /\ \E m \in Models :
        /\ IF "routing" \in flags THEN m \in Callable ELSE m = asked /\ m \in Catalog
        /\ model' = m
    /\ pc' = "predict"
    /\ UNCHANGED <<client, wire, prompt, original, saved, estimate>>

RouteFails ==
    /\ pc = "route"
    /\ IF "routing" \in flags THEN Callable = {} ELSE asked \notin Catalog
    /\ pc' = "refused"
    /\ UNCHANGED <<client, wire, prompt, model, original, saved, estimate>>

-----------------------------------------------------------------------------
(* The predictor and the estimate endpoint.  int(n * 0.7) is taken exactly; *)
(* in floating point it is one less for a few n from 90 on.                 *)

\* Mutant: the answer is taken to be as long as the prompt.
OutputAsLong(n) == IF n < 50 THEN 50 ELSE n

\* The length predict_cost expects of the answer to n tokens.
ExpectedOutput(n) == IF (n * 7) \div 10 < 50 THEN 50 ELSE (n * 7) \div 10

\* predict_cost, whose own count of the tokens is the same.
PredictedCost(ms, C, m) ==
    Tokens(ms, C) * InputPrice[m] + ExpectedOutput(Tokens(ms, C)) * OutputPrice[m]

Predict ==
    /\ pc = "predict"
    /\ estimate' = IF flags \cap {"routing", "budget"} # {}
                   THEN PredictedCost(messages, compressed, model) ELSE NoEstimate
    /\ pc' = "budget"
    /\ UNCHANGED <<client, wire, prompt, model, original, saved>>

\* What /chat/completions/estimate answers for the same request.
QuotedCost ==
    LET n == Tokens(AllPlaces, {})
        out == (n * 7) \div 10
    IN  n * InputPrice[asked] + (IF out < 50 THEN 50 ELSE out) * OutputPrice[asked]

-----------------------------------------------------------------------------
(* The budget manager, of which only the model matters here.               *)

Clear ==
    /\ pc = "budget"
    /\ pc' = "send"
    /\ UNCHANGED <<client, wire, prompt, model, original, saved, estimate>>

\* At the soft limit another model is called, whether or not it is in the catalog.  The
\* estimate stays.
Downgrade ==
    /\ pc = "budget"
    /\ "budget" \in flags
    /\ model' \in Downgrades
    /\ original' = model
    /\ pc' = "send"
    /\ UNCHANGED <<client, wire, prompt, saved, estimate>>

-----------------------------------------------------------------------------
(* The call of the provider.                                               *)

\* The APIs of openai_provider.py, and of all that inherit from it, take the messages
\* as they are.
model_dump(ms) ==
    [api |-> "openai", system |-> <<>>,
     messages |-> [k \in DOMAIN ms |-> [role |-> sent[ms[k]].role, content |-> ms[k]]]]

\* The elements of S in their order.
InOrder(S) ==
    [k \in 1..Cardinality(S) |-> CHOOSE i \in S : Cardinality({j \in S : j < i}) = k - 1]

\* The messages at some of the positions of ms.
At(ms, positions) == [l \in 1..Cardinality(positions) |-> ms[InOrder(positions)[l]]]

\* Mutant: the messages are sent as they are.
convert_keeping(ms) == [model_dump(ms) EXCEPT !.api = "anthropic"]

\* The API of anthropic_provider.py knows two roles and one system prompt, which is
\* not one of the messages: the last one wins.
convert_request(ms) ==
    LET systems == At(ms, {k \in DOMAIN ms : sent[ms[k]].role = "system"})
        others == At(ms, {k \in DOMAIN ms : sent[ms[k]].role # "system"})
    IN  [api |-> "anthropic",
         system |-> Latest(systems, 1),
         messages |-> [k \in DOMAIN others |->
                          [role |-> IF sent[others[k]].role = "assistant" THEN "assistant" ELSE "user",
                           content |-> others[k]]]]

\* The request is posted to the provider it was routed to, or that failover chose.
Send ==
    /\ pc = "send"
    /\ \E api \in Apis :
        payload' = IF api = "anthropic" THEN convert_request(messages) ELSE model_dump(messages)
    /\ pc' = "sent"
    /\ UNCHANGED <<client, prompt, model, original, saved, estimate, reply>>

\* What a provider may reply to n tokens: an error or a completion, without a content
\* (it was refused, or calls a tool) or with one, and with the counts of the provider
\* for both: none, those expected, or others.
Replies(n) ==
    [ok : BOOLEAN, content : BOOLEAN, prompt_tokens : {0, n} \cup Counts,
     completion_tokens : {0, ExpectedOutput(n)} \cup Counts]

\* openai_provider.py raises for a reply without a content, which is no string.
openai_reads(r) == r.ok /\ r.content

\* anthropic_provider.py joins what blocks of text there are.
anthropic_reads(r) == r.ok

Reads(r) == IF payload.api = "anthropic" THEN anthropic_reads(r) ELSE openai_reads(r)

\* complete returns.
Receive ==
    /\ pc = "sent"
    /\ \E r \in Replies(Tokens(messages, compressed)) :
        /\ Reads(r)
        /\ reply' = r
    /\ pc' = "done"
    /\ UNCHANGED <<client, prompt, model, original, saved, estimate, payload>>

\* It raises: no reply in time, an error, or one that is not understood, although the
\* provider has generated it.
ReceiveFails ==
    /\ pc = "sent"
    /\ pc' = "failed"
    /\ UNCHANGED <<client, wire, prompt, model, original, saved, estimate>>

\* The cost that the handler then computes, from the counts of the provider and the prices
\* of the model it asked for; one that is not in the catalog is free.
actual_cost(r) ==
    IF model \in Catalog
    THEN r.prompt_tokens * InputPrice[model] + r.completion_tokens * OutputPrice[model]
    ELSE 0

Finished == pc \in {"done", "failed", "refused"} /\ UNCHANGED vars

Next ==
    \/ Optimize \/ LeaveContext \/ StartTrim \/ Prune \/ PruneFails
    \/ Route \/ RouteFails \/ Predict \/ Clear \/ Downgrade \/ Send \/ Receive \/ ReceiveFails
    \/ Finished

Spec == Init /\ [][Next]_vars

-----------------------------------------------------------------------------
(* Properties.                                                             *)

\* Every variable has its type.
TypeOK ==
    /\ flags \subseteq {"optimization", "routing", "budget"}
    /\ sent \in Conversations
    /\ asked \in Models
    /\ pc \in {"optimize", "trim", "embed", "route", "predict", "budget", "send", "sent",
               "done", "failed", "refused"}
    /\ messages \in Seq(DOMAIN sent)
    /\ compressed \subseteq DOMAIN sent
    /\ model \in Models
    /\ original \in Models \cup {NoEstimate}
    /\ saved \in Nat
    /\ estimate \in Nat \cup {NoEstimate}
    /\ \/ payload = NoEstimate
       \/ /\ payload.api \in Apis /\ payload.system \in Seq(DOMAIN sent)
          /\ payload.messages \in Seq([role : {"system", "user", "assistant", "tool"},
                                       content : DOMAIN sent])
    /\ reply = NoEstimate \/ reply \in Replies(Tokens(messages, compressed))

Left == ToSet(messages)

\* Whatever is trimmed and whatever fails on the way, the system prompt stays first
\* and the last three messages of the chat, the question among them, stay last
\* (trim_context: "Always retain last 3 messages").
EndsKept ==
    LET chat == {i \in DOMAIN sent : i > 1 \/ ~HasSystem}
        n == IF Cardinality(chat) < 3 THEN Cardinality(chat) ELSE 3
    IN  /\ HasSystem => messages[1] = 1
        /\ Len(messages) >= n
        /\ \A k \in 0..(n - 1) : messages[Len(messages) - k] = Len(sent) - k

\* No message is left twice, and one is put before another only if it was before it in the
\* conversation, or repeats one that was: so without repetitions the order is that of the
\* conversation, though the trimmer sorts them by similarity and puts them together again
\* (trim_context: "Rebuild original ordering").
OrderKept ==
    \A k, l \in DOMAIN messages :
        k < l => /\ messages[k] # messages[l]
                 /\ \E i \in DOMAIN sent : i <= messages[l] /\ Alike(i, messages[k])

\* No message is given up for one that is less similar to the question, unless the
\* similarities could not be had and only the latest messages are left.
RelevantKept ==
    LET chat == {i \in Left : i > 1 \/ ~HasSystem}
        latest == {i \in DOMAIN sent : Len(sent) - i < 5}
    IN  \/ chat \subseteq latest
        \/ \A i \in DOMAIN sent \ Left, j \in chat :
            Len(sent) - j >= 3 => sent[j].sim >= sent[i].sim

\* Whatever API is spoken, all the messages that are left reach the provider in their
\* order, the system prompt and who said what included, and it knows the roles, if
\* there is one system message at most.
SentAsLeft ==
    payload # NoEstimate /\ Cardinality({i \in DOMAIN sent : sent[i].role = "system"}) <= 1 =>
        LET asked_for == payload.messages
            turns == {k \in DOMAIN asked_for : asked_for[k].role # "system"}
            systems == {i \in Left : sent[i].role = "system"}
        IN  /\ {asked_for[k].content : k \in turns} = Left \ systems
            /\ \A k, l \in turns : k < l =>
                \E p, q \in DOMAIN messages :
                    /\ p < q
                    /\ messages[p] = asked_for[k].content /\ messages[q] = asked_for[l].content
            /\ \A k \in turns :
                (asked_for[k].role = "assistant") = (sent[asked_for[k].content].role = "assistant")
            /\ systems = IF payload.api = "anthropic" THEN ToSet(payload.system)
                         ELSE {asked_for[k].content : k \in DOMAIN asked_for \ turns}
            /\ payload.api = "anthropic" => turns = DOMAIN asked_for

\* What the provider is asked is the client's conversation, but for messages in its
\* middle that matter less.
ConversationKept == EndsKept /\ OrderKept /\ RelevantKept /\ SentAsLeft

\* The tokens reported as saved, by both stages together, are not more than the
\* characters that are gone, up to the rounding of one count.
SavingsReal ==
    4 * saved <= TextLength(AllPlaces, {}) - TextLength(messages, compressed) + 3

\* The model whose cost was predicted.
Predicted == IF original = NoEstimate THEN model ELSE original

\* The estimate endpoint does not quote less than the pipeline then predicts for the
\* same request, unless the router takes another model: two copies of the formula
\* agree, and optimizing and trimming only make a request cheaper.  A call for which the
\* provider does not count more than was predicted, prompt and answer, does not cost more,
\* unless the budget exchanged the model for a dearer one: so far the quote holds to the end.
EstimateCovers ==
    estimate # NoEstimate =>
        /\ Predicted = asked => estimate <= QuotedCost
        /\ reply # NoEstimate =>
            LET n == Tokens(messages, compressed)
            IN  /\ reply.prompt_tokens <= n /\ reply.completion_tokens <= ExpectedOutput(n)
                /\ model \in Catalog => /\ InputPrice[model] <= InputPrice[Predicted]
                                        /\ OutputPrice[model] <= OutputPrice[Predicted]
                => actual_cost(reply) <= estimate
=============================================================================
