---------------------------- MODULE GatewayProofs ----------------------------
(***************************************************************************)
(* Proofs about Gateway, for every catalog, every number of requests and   *)
(* whatever they ask, every set of configured providers, and budgets that  *)
(* downgrade to any model.                                                 *)
(***************************************************************************)
EXTENDS Gateway, FiniteSums, TLAPS

-----------------------------------------------------------------------------
(* The inductive invariant, request by request but for the last two parts. *)

Answered == {"charging", "recording", "saving", "logging", "served", "failed"}

\* Behind the router a request has the model and the provider it was routed to, unless
\* it was downgraded, which changes the model only.
RoutedInv(r) ==
    pc[r] \notin {"new", "refused"} =>
        /\ Routable(r)
        /\ provider[r] = RoutedProvider(r)
        /\ original[r] = None => model[r] = Routed(r)

\* Nothing is downgraded before the budget stage, nor to another model than the budget's.
DowngradeInv(r) ==
    original[r] # None =>
        /\ pc[r] \notin {"new", "routed"}
        /\ ask[r].team \in Budgeted /\ model[r] = DowngradeTo[ask[r].team]

\* There is an answer from the call on, and one that was reused is returned at once.
AnswerInv(r) ==
    /\ answered[r] # None => pc[r] \in Answered
    /\ reused[r] # None => pc[r] = "served"
    /\ pc[r] \in {"charging", "recording", "saving", "logging"} => Own(r)
    /\ pc[r] = "recording" => Recorded(r)

\* Only a call with an answer of its own is charged, and only if its team has a row.
ChargeInv(r) ==
    charged[r] # 0 => Own(r) /\ ask[r].team \in rows /\ pc[r] \in {"saving", "logging", "served", "failed"}

\* As long as nothing fails, the model that answers is the one in the request if the
\* provider called is its own, and otherwise what the retry engine goes on with.
EngineInv(r) ==
    ~faulty /\ Own(r) =>
        IF Fits(r) THEN answered[r] = model[r] ELSE answered[r] \in Fallback(r, provider[r])

\* As long as nothing fails, a call that its provider can serve does not, and what has
\* been charged is the price of the model in the request, if there was a row to charge.
FaultlessInv(r) ==
    ~faulty =>
        /\ pc[r] = "failed" => ~Fits(r)
        /\ Own(r) /\ pc[r] \in Booked =>
            charged[r] = IF ask[r].team \in rows THEN Cost(r) ELSE 0

RequestInv(r) ==
    /\ RoutedInv(r) /\ DowngradeInv(r) /\ AnswerInv(r) /\ ChargeInv(r)
    /\ EngineInv(r) /\ FaultlessInv(r)

\* What is in the cache is the answer of a call that has it from a provider.
SavedInv == \A e \in saved : Own(e) /\ pc[e] \in {"logging", "served", "failed"}

IInv == TypeOK /\ (\A r \in Requests : RequestInv(r)) /\ SavedInv /\ ReusedOnce

-----------------------------------------------------------------------------
(* The catalog, the router and the retry engine.                           *)

\* A model of the catalog is one, with a provider and a price.
LEMMA CatalogTypes ==
    /\ CatalogModels \subseteq Models
    /\ \A i \in DOMAIN Catalog : i \in Nat /\ Catalog[i] \in Models
    /\ \A m \in Models : ProviderOf[m] \in Providers /\ Price[m] \in Nat
BY CatalogAssumption DEF CatalogModels

\* The key that the candidates are sorted by is a number.
LEMMA RankType ==
    ASSUME NEW m \in Models, NEW task, NEW strategy
    PROVE  Rank(m, task, strategy) \in Nat
<1>1. PremiumFirst(m) \in Nat /\ EconomyFirst(m) \in Nat
    BY DEF PremiumFirst, EconomyFirst
<1> QED BY <1>1, CatalogTypes DEF Rank

\* The router selects one of the candidates, able if there is an able one, that is
\* sorted before all the others.
LEMMA SelectedIsFirst ==
    ASSUME NEW task, NEW strategy, NEW providers, Candidates(providers) # {}
    PROVE  \E i \in Viable(task, providers) :
                /\ selected_model(task, strategy, providers) = Catalog[i]
                /\ \A j \in Viable(task, providers) : Before(i, j, task, strategy)
<1> DEFINE V == Viable(task, providers)
           Key(i) == Rank(Catalog[i], task, strategy)
           Keys == {Key(i) : i \in V}
<1>1. V \subseteq Candidates(providers) /\ V # {}
    BY DEF Viable
<1>2. \A i \in V : i \in Nat /\ Key(i) \in Nat
    BY <1>1, CatalogTypes, RankType DEF Candidates
<1> HIDE DEF Key
<1>3. PICK k \in Keys : \A x \in Keys : k <= x
    <2>1. Keys \in SUBSET Nat /\ Keys # {}
        BY <1>1, <1>2
    <2> QED BY <2>1, LeastNumber
<1> DEFINE Firsts == {i \in V : Key(i) = k}
<1>4. PICK i \in Firsts : \A j \in Firsts : i <= j
    <2>1. Firsts \in SUBSET Nat /\ Firsts # {}
        BY <1>2, <1>3
    <2> QED BY <2>1, LeastNumber
<1>5. ASSUME NEW j \in V PROVE Key(i) < Key(j) \/ (Key(i) = Key(j) /\ i <= j)
    <2>1. k <= Key(j) /\ Key(i) = k /\ i \in V
        BY <1>3, <1>4
    <2>2. CASE k = Key(j)
        BY <1>4, <2>1, <2>2
    <2>3. CASE k # Key(j)
        BY <1>2, <2>1, <2>3
    <2> QED BY <2>2, <2>3
<1>6. \E x \in V : \A j \in V : Before(x, j, task, strategy)
    BY <1>4, <1>5 DEF Before, Key
<1> QED BY <1>6 DEF selected_model

\* A call that can be routed is routed to a model of the catalog.
LEMMA RoutedType ==
    ASSUME NEW r \in Requests, Routable(r)
    PROVE  Routed(r) \in CatalogModels /\ Routed(r) \in Models /\ RoutedProvider(r) \in Providers
<1>1. Routed(r) \in CatalogModels
    <2>1. CASE "routing" \in flags
        <3>1. PICK i \in Viable(ask[r].task, active) : Routed(r) = Catalog[i]
            BY <2>1, SelectedIsFirst DEF Routable, Routed
        <3>2. i \in DOMAIN Catalog
            BY <3>1 DEF Viable, Candidates
        <3> QED BY <3>1, <3>2 DEF CatalogModels
    <2>2. CASE "routing" \notin flags
        BY <2>2 DEF Routable, Routed
    <2> QED BY <2>1, <2>2
<1> QED BY <1>1, CatalogTypes DEF RoutedProvider

\* What the retry engine goes on with is a model of the catalog.
LEMMA FallbackType ==
    ASSUME NEW r, NEW p
    PROVE  Fallback(r, p) \subseteq CatalogModels
<1> SUFFICES ASSUME NEW m \in Fallback(r, p) PROVE m \in CatalogModels
    OBVIOUS
<1>1. PICK j \in Engine(model[r])!Fallbacks(p) : m = Catalog[j]
    BY DEF Fallback
<1>2. j \in 1..Len(Catalog)
    BY <1>1 DEF Engine!Fallbacks, Engine!Position
<1> QED BY <1>1, <1>2, CatalogAssumption DEF CatalogModels

\* It depends on the model in the request and on what is configured.
LEMMA FallbackStable ==
    ASSUME NEW r, NEW p, model'[r] = model[r], active' = active
    PROVE  Fallback(r, p)' = Fallback(r, p)
BY DEF Fallback, Engine!Fallbacks, Engine!IsFirst, Engine!Suitable, Engine!Position,
       Engine!target_capabilities, Engine!CatalogModels

-----------------------------------------------------------------------------
(* A step of one handler.                                                  *)

\* Nothing that is said of request q changes.
Same(q) ==
    /\ pc'[q] = pc[q] /\ model'[q] = model[q] /\ provider'[q] = provider[q]
    /\ original'[q] = original[q] /\ answered'[q] = answered[q]
    /\ reused'[q] = reused[q] /\ charged'[q] = charged[q]

StepOf(r) == UNCHANGED config /\ \A q \in Requests \ {r} : Same(q)

\* What the router decides depends on the configuration and the request of the client.
LEMMA RoutingStable ==
    ASSUME NEW r, UNCHANGED config
    PROVE  /\ (Routable(r))' = Routable(r) /\ (Routed(r))' = Routed(r)
           /\ (RoutedProvider(r))' = RoutedProvider(r)
BY DEF config, Routable, Routed, RoutedProvider

\* A step of another handler does not disturb what is said of a request.
LEMMA RequestKept ==
    ASSUME NEW q, UNCHANGED config, Same(q), RequestInv(q)
    PROVE  (RequestInv(q))'
<1>1. /\ (Routable(q))' = Routable(q) /\ (Routed(q))' = Routed(q)
      /\ (RoutedProvider(q))' = RoutedProvider(q)
    BY RoutingStable
<1>2. (Fallback(q, provider[q]))' = Fallback(q, provider[q])
    BY FallbackStable DEF Same, config
<1>3. RoutedInv(q)' /\ DowngradeInv(q)' /\ AnswerInv(q)' /\ ChargeInv(q)'
    BY <1>1 DEF RequestInv, RoutedInv, DowngradeInv, AnswerInv, ChargeInv, Same, Own, Recorded, Cost,
           config
<1>4. EngineInv(q)'
    BY <1>2 DEF RequestInv, EngineInv, Same, Own, Fits, config
<1>5. FaultlessInv(q)'
    BY DEF RequestInv, FaultlessInv, Same, Own, Fits, Cost, config
<1> QED BY <1>3, <1>4, <1>5 DEF RequestInv

\* Nor is an answer that stays disturbed by what comes after it.
LEMMA AnswersKept ==
    ASSUME IInv, NEW r \in Requests, StepOf(r), saved' = saved,
           answered'[r] = answered[r], reused'[r] = reused[r], charged'[r] = charged[r],
           r \in saved => pc'[r] \in {"logging", "served", "failed"}
    PROVE  SavedInv' /\ ReusedOnce'
<1>1. \A q \in Requests :
        answered'[q] = answered[q] /\ reused'[q] = reused[q] /\ charged'[q] = charged[q]
    BY DEF StepOf, Same
<1>2. reused \in [Requests -> Requests \cup {None}] /\ saved \subseteq Requests
    BY DEF IInv, TypeOK
<1>3. SavedInv'
    BY <1>1, <1>2 DEF IInv, SavedInv, StepOf, Same, Own
<1>4. ReusedOnce'
    BY <1>1, <1>2 DEF IInv, ReusedOnce, StepOf, config, Own
<1> QED BY <1>3, <1>4

\* So only the request of the step is left to be looked at.
LEMMA OneRequest ==
    ASSUME IInv, NEW r \in Requests, StepOf(r),
           TypeOK', RequestInv(r)', SavedInv', ReusedOnce'
    PROVE  IInv'
<1>1. \A q \in Requests \ {r} : RequestInv(q)'
    BY RequestKept DEF IInv, StepOf
<1> QED BY <1>1 DEF IInv

\* A handler that moves on to stage l and changes nothing but the log.
LEMMA StageChanges ==
    ASSUME IInv, NEW r \in Requests,
           NEW l \in {"new", "routed", "cleared", "streaming", "calling",
                      "charging", "recording", "saving", "logging"} \cup Over,
           Goto(r, l), log' \in [Requests -> {"none", "hit", "success", "error"}],
           UNCHANGED <<config, model, provider, original, answered, reused, spend, saved,
                       dirty>>,
           pc[r] \in {"new", "routed"} \/ l \notin {"new", "routed"},
           pc[r] # "new" \/ l = "refused", pc[r] # "refused",
           pc[r] \in Answered => pc[r] = "logging" /\ l \in {"served", "failed"},
           l \in Answered /\ pc[r] \notin Answered => l = "failed" /\ (~faulty => ~Fits(r)),
           pc[r] = "logging" => l = "served" \/ faulty
    PROVE  IInv'
<1>1. pc' = [pc EXCEPT ![r] = l]
    BY DEF Goto
<1>2. TypeOK' /\ pc'[r] = l /\ StepOf(r)
    BY <1>1 DEF IInv, TypeOK, StepOf, Same, config, spend
<1>3. /\ (Routable(r))' = Routable(r) /\ (Routed(r))' = Routed(r)
      /\ (RoutedProvider(r))' = RoutedProvider(r)
    BY RoutingStable
<1>4. (Fallback(r, provider[r]))' = Fallback(r, provider[r])
    BY FallbackStable DEF config
<1>5. RequestInv(r)
    BY DEF IInv
<1>6. RoutedInv(r)'
    BY <1>2, <1>3, <1>5 DEF RequestInv, RoutedInv, Answered
<1>7. DowngradeInv(r)'
    BY <1>2, <1>5 DEF RequestInv, DowngradeInv, Answered, config
<1>8. AnswerInv(r)' /\ ChargeInv(r)'
    BY <1>2, <1>5 DEF RequestInv, AnswerInv, ChargeInv, Answered, Own, spend, config
<1>9. EngineInv(r)'
    BY <1>2, <1>4, <1>5 DEF RequestInv, EngineInv, Own, Fits, config
<1>10. FaultlessInv(r)'
    BY <1>2, <1>5
       DEF RequestInv, AnswerInv, FaultlessInv, Answered, Booked, Own, Fits, Cost, config,
           spend
<1>11. SavedInv' /\ ReusedOnce'
    BY <1>2, AnswersKept DEF IInv, SavedInv, Answered, spend
<1> QED BY <1>2, <1>6, <1>7, <1>8, <1>9, <1>10, <1>11, OneRequest DEF RequestInv

\* The router.
LEMMA RouteKeeps ==
    ASSUME IInv, NEW r \in Requests, Route(r)
    PROVE  IInv'
<1>1. /\ pc[r] = "new" /\ Routable(r)
      /\ model' = [model EXCEPT ![r] = Routed(r)]
      /\ provider' = [provider EXCEPT ![r] = RoutedProvider(r)]
      /\ pc' = [pc EXCEPT ![r] = "routed"]
      /\ UNCHANGED <<config, original, answered, reused, books>>
    BY DEF Route, Goto
<1>2. Routed(r) \in Models /\ RoutedProvider(r) \in Providers
    BY <1>1, RoutedType
<1>3. TypeOK' /\ StepOf(r) /\ pc'[r] = "routed" /\ model'[r] = Routed(r)
        /\ provider'[r] = RoutedProvider(r)
    BY <1>1, <1>2 DEF IInv, TypeOK, StepOf, Same, config, books, spend
<1>4. /\ (Routable(r))' = Routable(r) /\ (Routed(r))' = Routed(r)
      /\ (RoutedProvider(r))' = RoutedProvider(r)
    BY <1>1, RoutingStable
<1>5. RequestInv(r)
    BY DEF IInv
<1>6. answered[r] = None /\ reused[r] = None /\ charged[r] = 0 /\ original[r] = None
    BY <1>1, <1>5 DEF RequestInv, AnswerInv, ChargeInv, DowngradeInv, Answered
<1>7. RequestInv(r)'
    BY <1>1, <1>3, <1>4, <1>6
       DEF RequestInv, RoutedInv, DowngradeInv, AnswerInv, ChargeInv, EngineInv, FaultlessInv,
           Own, Booked, Answered, config, books, spend
<1>8. SavedInv' /\ ReusedOnce'
    BY <1>1, <1>3, AnswersKept DEF IInv, SavedInv, books, spend
<1> QED BY <1>3, <1>7, <1>8, OneRequest

\* The budget's other model.
LEMMA DowngradeKeeps ==
    ASSUME IInv, NEW r \in Requests, Downgrade(r)
    PROVE  IInv'
<1>1. /\ pc[r] = "routed" /\ Downgraded(r)
      /\ original' = [original EXCEPT ![r] = model[r]]
      /\ model' = [model EXCEPT ![r] = DowngradeTo[ask[r].team]]
      /\ pc' = [pc EXCEPT ![r] = "cleared"]
      /\ UNCHANGED <<config, provider, answered, reused, books>>
    BY DEF Downgrade, Goto
<1>2. DowngradeTo[ask[r].team] \in Models /\ model[r] \in Models /\ model[r] # None
    BY <1>1, GatewayAssumption DEF Downgraded, Checked, IInv, TypeOK
<1>3. TypeOK' /\ StepOf(r) /\ pc'[r] = "cleared" /\ original'[r] # None
        /\ model'[r] = DowngradeTo[ask[r].team] /\ ask[r].team \in Budgeted
    BY <1>1, <1>2 DEF IInv, TypeOK, StepOf, Same, Downgraded, Checked, config, books, spend
<1>4. /\ (Routable(r))' = Routable(r) /\ (Routed(r))' = Routed(r)
      /\ (RoutedProvider(r))' = RoutedProvider(r)
    BY <1>1, RoutingStable
<1>5. RequestInv(r)
    BY DEF IInv
<1>6. answered[r] = None /\ reused[r] = None /\ charged[r] = 0
    BY <1>1, <1>5 DEF RequestInv, AnswerInv, ChargeInv, Answered
<1>7. RequestInv(r)'
    BY <1>1, <1>3, <1>4, <1>5, <1>6
       DEF RequestInv, RoutedInv, DowngradeInv, AnswerInv, ChargeInv, EngineInv, FaultlessInv,
           Own, Booked, Answered, config, books, spend
<1>8. SavedInv' /\ ReusedOnce'
    BY <1>1, <1>3, AnswersKept DEF IInv, SavedInv, books, spend
<1> QED BY <1>3, <1>7, <1>8, OneRequest

\* A cached response is one of a call that was answered by a provider.
LEMMA HitKeeps ==
    ASSUME IInv, NEW r \in Requests, Hit(r)
    PROVE  IInv'
<1>1. /\ pc[r] = "cleared" /\ pc' = [pc EXCEPT ![r] = "served"]
      /\ log' \in {log, [log EXCEPT ![r] = "hit"]}
      /\ UNCHANGED <<config, model, provider, original, spend, saved, dirty>>
    BY DEF Hit, Goto
<1>2. PICK e \in saved :
        /\ ask[e].prompt = ask[r].prompt
        /\ reused' = [reused EXCEPT ![r] = e]
        /\ answered' = [answered EXCEPT ![r] = answered[e]]
    BY DEF Hit
<1>3. /\ e \in Requests /\ e # r /\ Own(e) /\ r \notin saved
      /\ answered[e] \in Models /\ answered[e] # None
    BY <1>1, <1>2 DEF IInv, TypeOK, SavedInv, Own
<1>4. TypeOK'
    BY <1>1, <1>2, <1>3 DEF IInv, TypeOK, config, spend, Over
<1>5. /\ StepOf(r) /\ pc'[r] = "served" /\ reused'[r] = e /\ answered'[r] = answered[e]
    BY <1>1, <1>2, <1>3 DEF IInv, TypeOK, StepOf, Same, spend
<1>6. e # None
    BY <1>3, GatewayAssumption
<1>7. /\ (Routable(r))' = Routable(r) /\ (Routed(r))' = Routed(r)
      /\ (RoutedProvider(r))' = RoutedProvider(r)
    BY <1>1, RoutingStable
<1>8. RequestInv(r)
    BY DEF IInv
<1>9. answered[r] = None /\ reused[r] = None /\ charged[r] = 0
    BY <1>1, <1>8 DEF RequestInv, AnswerInv, ChargeInv, Answered
<1>10. RequestInv(r)'
    BY <1>1, <1>5, <1>6, <1>7, <1>8, <1>9
       DEF RequestInv, RoutedInv, DowngradeInv, AnswerInv, ChargeInv, EngineInv, FaultlessInv,
           Own, Booked, Answered, config, spend
<1>11. SavedInv'
    BY <1>1, <1>3, <1>5 DEF IInv, TypeOK, SavedInv, StepOf, Same, Own
<1>12. ReusedOnce'
    <2>1. \A q \in Requests \ {r} :
            /\ reused'[q] = reused[q] /\ answered'[q] = answered[q] /\ charged'[q] = charged[q]
        BY <1>5 DEF StepOf, Same
    <2>2. ask' = ask /\ charged' = charged
        BY <1>1 DEF config, spend
    <2>3. ASSUME NEW q \in Requests, reused'[q] # None
          PROVE  /\ answered'[reused'[q]] # None /\ reused'[reused'[q]] = None
                 /\ charged'[q] = 0
                 /\ ask'[reused'[q]].prompt = ask'[q].prompt
                 /\ answered'[q] = answered'[reused'[q]]
        <3>1. CASE q = r
            BY <1>2, <1>3, <1>5, <1>9, <2>1, <2>2, <3>1 DEF Own
        <3>2. CASE q # r
            <4>1. reused'[q] = reused[q] /\ reused[q] \in Requests
                BY <2>1, <2>3, <3>2 DEF IInv, TypeOK
            <4>2. reused[q] # r
                BY <1>9, <2>3, <4>1 DEF IInv, ReusedOnce, Own
            <4> QED BY <2>1, <2>2, <2>3, <3>2, <4>1, <4>2 DEF IInv, ReusedOnce, Own
        <3> QED BY <3>1, <3>2
    <2> QED BY <2>3 DEF ReusedOnce, Own
<1> QED BY <1>4, <1>5, <1>10, <1>11, <1>12, OneRequest

\* The retry engine answers with the routed model or with a fallback.
LEMMA ExecuteKeeps ==
    ASSUME IInv, NEW r \in Requests, Execute(r)
    PROVE  IInv'
<1>1. /\ pc[r] = "calling" /\ pc' = [pc EXCEPT ![r] = "charging"]
      /\ UNCHANGED <<config, model, provider, original, reused, books>>
    BY DEF Execute, Goto
<1>2. PICK m \in Models :
        /\ \/ Fits(r) /\ m = model[r]
           \/ (faulty \/ ~Fits(r)) /\ m \in Fallbacks(r)
        /\ answered' = [answered EXCEPT ![r] = m]
    BY DEF Execute
<1>3. TypeOK' /\ StepOf(r) /\ pc'[r] = "charging" /\ answered'[r] = m /\ m # None
    BY <1>1, <1>2, GatewayAssumption DEF IInv, TypeOK, StepOf, Same, config, books, spend
<1>4. /\ (Routable(r))' = Routable(r) /\ (Routed(r))' = Routed(r)
      /\ (RoutedProvider(r))' = RoutedProvider(r)
      /\ (Fallback(r, provider[r]))' = Fallback(r, provider[r])
    BY <1>1, RoutingStable, FallbackStable DEF config
<1>5. RequestInv(r)
    BY DEF IInv
<1>6. answered[r] = None /\ reused[r] = None /\ charged[r] = 0 /\ r \notin saved
    BY <1>1, <1>5 DEF IInv, SavedInv, RequestInv, AnswerInv, ChargeInv, Answered
<1>7. EngineInv(r)'
    BY <1>1, <1>2, <1>3, <1>4 DEF EngineInv, Fallbacks, Own, Fits, config
<1>8. RequestInv(r)'
    BY <1>1, <1>3, <1>4, <1>5, <1>6, <1>7
       DEF RequestInv, RoutedInv, DowngradeInv, AnswerInv, ChargeInv, FaultlessInv,
           Own, Booked, Answered, config, books, spend
<1>9. SavedInv'
    BY <1>1, <1>3, <1>6 DEF IInv, TypeOK, SavedInv, StepOf, Same, Own, books, spend
<1>10. ReusedOnce'
    BY <1>1, <1>3, <1>6 DEF IInv, TypeOK, ReusedOnce, StepOf, Same, Own, config, books, spend
<1> QED BY <1>3, <1>8, <1>9, <1>10, OneRequest

\* The steps of record_actual_spend.
RecordStep(r) == LoadSpend(r) \/ LoadNothing(r) \/ Charge(r) \/ ChargeFails(r)

\* The price of the model in the request is booked if there is a row to book it in.
LEMMA RecordKeeps ==
    ASSUME IInv, NEW r \in Requests, RecordStep(r)
    PROVE  IInv'
<1>1. /\ pc[r] \in {"charging", "recording"}
      /\ \E l \in {"recording", "saving"} : pc' = [pc EXCEPT ![r] = l]
      /\ UNCHANGED <<config, model, provider, original, answered, reused, saved, log>>
    BY DEF RecordStep, LoadSpend, LoadNothing, Charge, ChargeFails, Goto, books, spend
<1>2. Cost(r) \in Nat
    BY CatalogTypes DEF Cost, IInv, TypeOK
<1>3. RequestInv(r) /\ charged \in [Requests -> Nat]
    BY DEF IInv, TypeOK
<1>4. charged[r] = 0 /\ (pc[r] = "recording" => Recorded(r))
    BY <1>1, <1>3 DEF RequestInv, ChargeInv, AnswerInv
<1>5. /\ charged' \in {charged, [charged EXCEPT ![r] = Cost(r)]}
      /\ pc'[r] = "recording" => Recorded(r) /\ charged' = charged
      /\ charged' # charged => ask[r].team \in rows
      /\ ~faulty /\ pc'[r] = "saving" =>
            charged'[r] = IF ask[r].team \in rows THEN Cost(r) ELSE 0
    <2>1. CASE LoadSpend(r)
        BY <2>1 DEF LoadSpend, Goto, IInv, TypeOK
    <2>2. CASE LoadNothing(r)
        BY <1>2, <1>4, <2>2 DEF LoadNothing, Recorded, Goto, IInv, TypeOK, books, spend
    <2>3. CASE Charge(r)
        BY <1>2, <1>3, <1>4, <2>3 DEF Charge, Recorded, Goto, IInv, TypeOK
    <2>4. CASE ChargeFails(r)
        BY <2>4 DEF ChargeFails, Goto, IInv, TypeOK
    <2> QED BY <2>1, <2>2, <2>3, <2>4 DEF RecordStep
<1>6. TypeOK'
    <2>1. ask[r].team \in rows => ask[r].team \in Budgeted
        BY DEF IInv, TypeOK
    <2>2. spent' \in [Budgeted -> Nat] /\ held' \in [Requests -> Nat]
        <3>1. CASE LoadSpend(r)
            BY <2>1, <3>1 DEF LoadSpend, Recorded, IInv, TypeOK
        <3>2. CASE LoadNothing(r)
            BY <3>2 DEF LoadNothing, books, spend, IInv, TypeOK
        <3>3. CASE Charge(r)
            <4>1. held[r] + Cost(r) \in Nat
                BY <1>2 DEF IInv, TypeOK
            <4> QED BY <3>3, <4>1 DEF Charge, IInv, TypeOK
        <3>4. CASE ChargeFails(r)
            BY <3>4 DEF ChargeFails, IInv, TypeOK
        <3> QED BY <3>1, <3>2, <3>3, <3>4 DEF RecordStep
    <2>3. overlapped' \subseteq Budgeted
        BY <2>1 DEF RecordStep, LoadSpend, Recorded, LoadNothing, Charge, ChargeFails, books, spend,
                    spend, IInv, TypeOK
    <2>4. dirty' \in [Requests -> BOOLEAN]
        BY DEF RecordStep, LoadSpend, LoadNothing, Charge, ChargeFails, books, IInv, TypeOK
    <2>5. charged' \in [Requests -> Nat]
        BY <1>2, <1>3, <1>5
    <2> QED BY <1>1, <2>2, <2>3, <2>4, <2>5 DEF IInv, TypeOK, config
<1>7. StepOf(r) /\ pc'[r] \in {"recording", "saving"}
    BY <1>1, <1>5 DEF IInv, TypeOK, StepOf, Same, config
<1>8. /\ (Routable(r))' = Routable(r) /\ (Routed(r))' = Routed(r)
      /\ (RoutedProvider(r))' = RoutedProvider(r)
      /\ (Fallback(r, provider[r]))' = Fallback(r, provider[r])
    BY <1>1, RoutingStable, FallbackStable DEF config
<1>9. Own(r) /\ r \notin saved
    BY <1>1, <1>3 DEF IInv, SavedInv, RequestInv, AnswerInv
<1>10. Cost(r)' = Cost(r) /\ Recorded(r)' = Recorded(r)
    BY <1>1 DEF Cost, Recorded, config
<1>11. RoutedInv(r)' /\ DowngradeInv(r)' /\ AnswerInv(r)'
    BY <1>1, <1>3, <1>5, <1>7, <1>8, <1>9, <1>10
       DEF RequestInv, RoutedInv, DowngradeInv, AnswerInv, Own, Answered, config
<1>12. ChargeInv(r)'
    <2>1. ask' = ask /\ rows' = rows /\ Own(r)'
        BY <1>1, <1>9 DEF Own, config
    <2>2. charged'[r] # 0 => ask[r].team \in rows /\ pc'[r] = "saving"
        BY <1>4, <1>5, <1>7
    <2> QED BY <2>1, <2>2 DEF ChargeInv
<1>13. EngineInv(r)'
    BY <1>1, <1>3, <1>8 DEF RequestInv, EngineInv, Own, Fits, config
<1>14. FaultlessInv(r)'
    BY <1>1, <1>5, <1>7, <1>10 DEF FaultlessInv, Booked, config
<1>15. SavedInv'
    BY <1>1, <1>7, <1>9 DEF IInv, TypeOK, SavedInv, StepOf, Same, Own
<1>16. ReusedOnce'
    <2>1. reused[r] = None
        BY <1>9 DEF Own
    <2> QED BY <1>1, <1>7, <2>1 DEF IInv, TypeOK, ReusedOnce, StepOf, Same, Own, config
<1> QED BY <1>6, <1>7, <1>11, <1>12, <1>13, <1>14, <1>15, <1>16, OneRequest DEF RequestInv

\* The answer is put into the cache, or is not.
LEMMA SaveKeeps ==
    ASSUME IInv, NEW r \in Requests, Save(r)
    PROVE  IInv'
<1>1. /\ pc[r] = "saving" /\ pc' = [pc EXCEPT ![r] = "logging"]
      /\ saved' \in {saved, saved \cup {r}}
      /\ dirty' \in {dirty, [dirty EXCEPT ![r] = TRUE]}
      /\ UNCHANGED <<config, model, provider, original, answered, reused, spend, log>>
    BY DEF Save, Goto
<1>2. TypeOK' /\ StepOf(r) /\ pc'[r] = "logging"
    BY <1>1 DEF IInv, TypeOK, StepOf, Same, config, spend
<1>3. /\ (Routable(r))' = Routable(r) /\ (Routed(r))' = Routed(r)
      /\ (RoutedProvider(r))' = RoutedProvider(r)
      /\ (Fallback(r, provider[r]))' = Fallback(r, provider[r])
    BY <1>1, RoutingStable, FallbackStable DEF config, spend
<1>4. RequestInv(r)
    BY DEF IInv
<1>5. Own(r)
    BY <1>1, <1>4 DEF RequestInv, AnswerInv
<1>6. RoutedInv(r)' /\ DowngradeInv(r)' /\ AnswerInv(r)' /\ ChargeInv(r)'
    BY <1>1, <1>2, <1>3, <1>4, <1>5
       DEF RequestInv, RoutedInv, DowngradeInv, AnswerInv, ChargeInv, Own, Answered, config, spend
<1>7. EngineInv(r)'
    BY <1>1, <1>3, <1>4 DEF RequestInv, EngineInv, Own, Fits, config, spend
<1>8. FaultlessInv(r)'
    BY <1>1, <1>2, <1>4 DEF RequestInv, FaultlessInv, Own, Fits, Cost, Booked, config, spend
<1>9. SavedInv'
    BY <1>1, <1>2, <1>5 DEF IInv, TypeOK, SavedInv, StepOf, Same, Own
<1>10. ReusedOnce'
    BY <1>1 DEF IInv, TypeOK, ReusedOnce, Own, config, spend
<1> QED BY <1>2, <1>6, <1>7, <1>8, <1>9, <1>10, OneRequest DEF RequestInv

\* Before any request is handled.
LEMMA InvInit ==
    ASSUME Init
    PROVE  IInv
<1>1. TypeOK
    <2>1. \A r \in Requests : ask[r].model \in Models
        BY GatewayAssumption DEF Init
    <2>2. rows \subseteq Budgeted
        BY GatewayAssumption DEF Init
    <2> QED BY <2>1, <2>2 DEF Init, TypeOK
<1>2. \A r \in Requests : RequestInv(r)
    BY DEF Init, RequestInv, RoutedInv, DowngradeInv, AnswerInv, ChargeInv, EngineInv,
           FaultlessInv, Own, Booked
<1>3. SavedInv /\ ReusedOnce
    BY DEF Init, SavedInv, ReusedOnce
<1> QED BY <1>1, <1>2, <1>3 DEF IInv

\* One step per action.
LEMMA InvStep ==
    ASSUME IInv, [Next]_vars
    PROVE  IInv'
<1> USE DEF Over, Answered
<1>1. log \in [Requests -> {"none", "hit", "success", "error"}]
    BY DEF IInv, TypeOK
<1>2. ASSUME NEW r \in Requests,
             Limit(r) \/ RouteFails(r) \/ Refuse(r) \/ Clear(r) \/ CheckFails(r) \/ Miss(r)
      PROVE  IInv'
    <2>1. PICK l \in {"refused", "cleared", "failed", "streaming", "calling"} :
            /\ Goto(r, l) /\ (l = "failed" => faulty)
            /\ pc[r] \in {"new", "routed", "cleared"} /\ (pc[r] = "new" => l = "refused")
        BY <1>2 DEF Limit, RouteFails, Refuse, Clear, CheckFails, Miss
    <2>2. UNCHANGED <<config, model, provider, original, answered, reused, books>>
        BY <1>2 DEF Limit, RouteFails, Refuse, Clear, CheckFails, Miss
    <2> QED BY <1>1, <2>1, <2>2, StageChanges DEF books, spend
<1>3. ASSUME NEW r \in Requests, Stream(r) \/ StreamFails(r)
      PROVE  IInv'
    <2>1. PICK l \in {"broken", "failed"} :
            Goto(r, l) /\ pc[r] = "streaming" /\ (l = "failed" => ~Fits(r))
        BY <1>3 DEF Stream, StreamFails, Fits
    <2>2. UNCHANGED <<config, model, provider, original, answered, reused, books>>
        BY <1>3 DEF Stream, StreamFails
    <2> QED BY <1>1, <2>1, <2>2, StageChanges DEF books, spend
<1>4. ASSUME NEW r \in Requests, Route(r)
      PROVE  IInv'
    BY <1>4, RouteKeeps
<1>5. ASSUME NEW r \in Requests, Downgrade(r)
      PROVE  IInv'
    BY <1>5, DowngradeKeeps
<1>6. ASSUME NEW r \in Requests, Hit(r)
      PROVE  IInv'
    BY <1>6, HitKeeps
<1>7. ASSUME NEW r \in Requests, Execute(r)
      PROVE  IInv'
    BY <1>7, ExecuteKeeps
<1>8. ASSUME NEW r \in Requests, ExecuteFails(r)
      PROVE  IInv'
    <2>1. /\ pc[r] = "calling" /\ Goto(r, "failed") /\ (~faulty => ~Fits(r))
          /\ log' \in [Requests -> {"none", "hit", "success", "error"}]
          /\ UNCHANGED <<config, model, provider, original, answered, reused, spend, saved,
                         dirty>>
        BY <1>1, <1>8 DEF ExecuteFails
    <2> QED BY <2>1, StageChanges
<1>9. ASSUME NEW r \in Requests, RecordStep(r)
      PROVE  IInv'
    BY <1>9, RecordKeeps
<1>10. ASSUME NEW r \in Requests, Save(r)
       PROVE  IInv'
    BY <1>10, SaveKeeps
<1>11. ASSUME NEW r \in Requests, Log(r) \/ LogFails(r)
       PROVE  IInv'
    <2>1. PICK l \in {"served", "failed"} :
            /\ pc[r] = "logging" /\ Goto(r, l) /\ (l = "failed" => faulty)
            /\ log' \in [Requests -> {"none", "hit", "success", "error"}]
            /\ UNCHANGED <<config, model, provider, original, answered, reused, spend,
                           saved, dirty>>
        BY <1>1, <1>11 DEF Log, LogFails
    <2> QED BY <2>1, StageChanges
<1>12. CASE UNCHANGED vars
    <2>1. UNCHANGED config /\ \A r \in Requests : Same(r)
        BY <1>12 DEF vars, config, Same
    <2>2. \A r \in Requests : RequestInv(r)'
        BY <2>1, RequestKept DEF IInv
    <2>3. TypeOK' /\ SavedInv' /\ ReusedOnce'
        BY <1>12 DEF vars, IInv, TypeOK, SavedInv, ReusedOnce, Own
    <2> QED BY <2>2, <2>3 DEF IInv
<1> QED
    BY <1>2, <1>3, <1>4, <1>5, <1>6, <1>7, <1>8, <1>9, <1>10, <1>11, <1>12
       DEF Next, Quiescent, RecordStep

\* The invariant of the pipeline.
LEMMA InvHolds == Spec => []IInv
<1>1. Init => IInv
    BY InvInit
<1>2. IInv /\ [Next]_vars => IInv'
    BY InvStep
<1> QED BY <1>1, <1>2, PTL DEF Spec

-----------------------------------------------------------------------------
(* What it says.                                                           *)

\* Every variable keeps its type, the model the router selects included, whatever the
\* catalog, the flags and the providers are.
THEOREM Typed == Spec => []TypeOK
<1>1. IInv => TypeOK
    BY DEF IInv
<1> QED BY <1>1, InvHolds, PTL

\* A cached answer came from a provider, was asked for with the same prompt and was paid
\* for by the call that got it from there; the cache is never filled from the cache.
THEOREM CacheIsPaidOnce == Spec => []ReusedOnce
<1>1. IInv => ReusedOnce
    BY DEF IInv
<1> QED BY <1>1, InvHolds, PTL

\* The model a routed call is answered by can do its task, if any configured one can.
LEMMA CapableStep == IInv => AnswerIsCapable
<1> SUFFICES ASSUME IInv, NEW r \in Requests,
                    "routing" \in flags, Own(r), original[r] = None, answered[r] = model[r],
                    \E i \in Candidates(active) :
                        {ask[r].task, General} \cap CapsOf[Catalog[i]] # {}
             PROVE  {ask[r].task, General} \cap CapsOf[answered[r]] # {}
    BY DEF AnswerIsCapable
<1>1. pc[r] \in Answered /\ RoutedInv(r)
    BY DEF IInv, RequestInv, AnswerInv, Own
<1>2. model[r] = selected_model(ask[r].task, ask[r].strategy, active)
    BY <1>1 DEF RoutedInv, Routed, Answered
<1>3. PICK i \in Viable(ask[r].task, active) : model[r] = Catalog[i]
    BY <1>2, SelectedIsFirst
<1>4. {ask[r].task, General} \cap CapsOf[Catalog[i]] # {}
    BY DEF Viable
<1> QED BY <1>3, <1>4

\* Whatever the catalog, ranking included, and whatever the budget and the cache do in
\* between, a routed call that is answered by its model is answered by a capable one.
THEOREM AnswersAreCapable == Spec => []AnswerIsCapable
BY CapableStep, InvHolds, PTL

\* A routed model can be called, so that it answers, and none of the others is sorted
\* before it.
LEMMA BestRankedStep == IInv => AnswerIsBestRanked
<1> SUFFICES ASSUME IInv, ~faulty, "routing" \in flags,
                    NEW r \in Requests, Own(r), original[r] = None,
                    NEW j \in Viable(ask[r].task, active)
             PROVE  Rank(answered[r], ask[r].task, ask[r].strategy)
                        <= Rank(Catalog[j], ask[r].task, ask[r].strategy)
    BY DEF AnswerIsBestRanked
<1>1. pc[r] \in Answered /\ RoutedInv(r) /\ EngineInv(r)
    BY DEF IInv, RequestInv, AnswerInv, Own
<1>2. /\ Candidates(active) # {} /\ provider[r] = ProviderOf[model[r]]
      /\ model[r] = selected_model(ask[r].task, ask[r].strategy, active)
    BY <1>1 DEF RoutedInv, Routable, Routed, RoutedProvider, Answered
<1>3. PICK i \in Viable(ask[r].task, active) :
            model[r] = Catalog[i] /\ Before(i, j, ask[r].task, ask[r].strategy)
    BY <1>2, SelectedIsFirst
<1>4. i \in Candidates(active) /\ j \in Candidates(active)
    BY DEF Viable
<1>5. answered[r] = Catalog[i]
    BY <1>1, <1>2, <1>3, <1>4 DEF EngineInv, Fits, Candidates
<1>6. /\ Rank(Catalog[i], ask[r].task, ask[r].strategy) \in Nat
      /\ Rank(Catalog[j], ask[r].task, ask[r].strategy) \in Nat
    BY <1>4, CatalogTypes, RankType DEF Candidates
<1> QED BY <1>3, <1>5, <1>6 DEF Before

\* Whatever the catalog, the strategy and the budget, with nothing failing the model that
\* answers a routed call is the best ranked of those that can do its task.
THEOREM AnswersAreBestRanked == Spec => []AnswerIsBestRanked
BY BestRankedStep, InvHolds, PTL

\* What is charged and recorded of a call that nothing disturbed.
LEMMA ChargedStep == IInv => ChargedAsAnswered
<1> SUFFICES ASSUME IInv, ~faulty, NEW r \in Requests, Own(r), pc[r] \in Booked,
                    original[r] = None, provider[r] \in active
             PROVE  /\ charged[r] = IF ask[r].team \in rows THEN Price[answered[r]] ELSE 0
                    /\ log[r] = "success" =>
                        /\ UsageRecord(r).routed_model = answered[r]
                        /\ UsageRecord(r).requested_model = answered[r]
                        /\ UsageRecord(r).provider = ProviderOf[answered[r]]
    BY DEF ChargedAsAnswered
<1>1. Routable(r) /\ provider[r] = RoutedProvider(r) /\ model[r] = Routed(r)
    BY DEF IInv, RequestInv, RoutedInv, Booked
<1>2. model[r] \in CatalogModels /\ provider[r] = ProviderOf[model[r]]
    BY <1>1, RoutedType DEF RoutedProvider
<1>3. Fits(r)
    BY <1>2 DEF Fits
<1>4. answered[r] = model[r]
    BY <1>3 DEF IInv, RequestInv, EngineInv
<1>5. charged[r] = IF ask[r].team \in rows THEN Cost(r) ELSE 0
    BY DEF IInv, RequestInv, FaultlessInv
<1>6. Cost(r) = Price[answered[r]]
    BY <1>2, <1>4 DEF Cost
<1>7. log[r] = "success" =>
        /\ UsageRecord(r).routed_model = model[r]
        /\ UsageRecord(r).requested_model = answered[r]
        /\ UsageRecord(r).provider = provider[r]
    BY DEF UsageRecord
<1> QED BY <1>2, <1>4, <1>5, <1>6, <1>7

\* With nothing failing, what is added to the figure of a team with a usage row is the
\* price of the model that answered, nothing is added without a row, and the usage record
\* names that model and its provider, for calls that were not downgraded and whose provider
\* is configured.  What another call may have written meanwhile is BooksKeepAgreeing's.
THEOREM ChargesFollowAnswers == Spec => []ChargedAsAnswered
BY ChargedStep, InvHolds, PTL

\* A listed model is of an active provider, so that nothing else is gone on with.
LEMMA ListedStep == IInv => ListedIsServed
<1> SUFFICES ASSUME IInv, ~faulty, NEW r \in Requests, "routing" \notin flags,
                    ask[r].model \in list_models(active), original[r] = None
             PROVE  pc[r] # "failed" /\ (Own(r) => answered[r] = ask[r].model)
    BY DEF ListedIsServed
<1>1. ProviderOf[ask[r].model] \in active
    BY DEF list_models
<1>2. ASSUME pc[r] \notin {"new", "refused"}
      PROVE  Fits(r) /\ model[r] = ask[r].model
    BY <1>1, <1>2 DEF IInv, RequestInv, RoutedInv, RoutedProvider, Routed, Fits
<1>3. pc[r] # "failed"
    BY <1>2 DEF IInv, RequestInv, FaultlessInv
<1>4. ASSUME Own(r) PROVE answered[r] = ask[r].model
    <2>1. pc[r] \in Answered
        BY <1>4 DEF IInv, RequestInv, AnswerInv, Own
    <2> QED BY <1>2, <1>4, <2>1 DEF IInv, RequestInv, EngineInv, Answered
<1> QED BY <1>3, <1>4

\* A model that GET /models lists can be called: without routing and faults a call that
\* names it does not fail, and no other model answers it.
THEOREM ListedModelsServe == Spec => []ListedIsServed
BY ListedStep, InvHolds, PTL

\* Failover takes the downgrade model if all models before it are of the provider that was
\* called in vain.
LEMMA FallbackIsFirst ==
    ASSUME NEW r \in Requests, NEW i \in Candidates(active), Catalog[i] = model[r],
           CapsOf[model[r]] # {}, ProviderOf[model[r]] # provider[r],
           \A j \in Candidates(active) : j < i => ProviderOf[Catalog[j]] = provider[r],
           NEW m \in Fallback(r, provider[r])
    PROVE  m = model[r]
<1> DEFINE F == Engine(model[r])!Fallbacks(provider[r])
<1>1. PICK j \in F : m = Catalog[j] /\ (\A k \in F : j <= k)
    BY DEF Fallback, Engine!IsFirst
<1>2. DOMAIN Catalog = 1..Len(Catalog) /\ Len(Catalog) \in Nat
    BY CatalogAssumption
<1>3. i \in DOMAIN Catalog /\ Catalog[i] \in Enabled /\ ProviderOf[Catalog[i]] \in active
    BY DEF Candidates
<1>4. i \in F
    <2>1. model[r] \in Engine(model[r])!CatalogModels
        BY <1>2, <1>3 DEF Engine!CatalogModels, Engine!Position
    <2>2. Engine(model[r])!target_capabilities = CapsOf[model[r]]
        BY <2>1 DEF Engine!target_capabilities
    <2>3. Engine(model[r])!Suitable(Catalog[i])
        BY <1>3, <2>2 DEF Engine!Suitable
    <2> QED BY <1>2, <1>3, <2>3 DEF Engine!Fallbacks, Engine!Position
<1>5. j \in Candidates(active) /\ ProviderOf[Catalog[j]] # provider[r]
    BY <1>1, <1>2 DEF Engine!Fallbacks, Engine!Position, Engine!Suitable, Candidates
<1>6. j <= i /\ ~(j < i) /\ i \in Nat /\ j \in Nat
    BY <1>1, <1>2, <1>3, <1>4, <1>5 DEF Candidates
<1>7. j = i
    BY <1>6
<1> QED BY <1>1, <1>7

\* The downgrade model is called at its own provider, or failed over to.
LEMMA DowngradeStep ==
    ASSUME IInv,
           \A t \in Budgeted : DowngradeTo[t] \in CatalogModels => CapsOf[DowngradeTo[t]] # {}
    PROVE  DowngradeTakesEffect
<1> SUFFICES ASSUME ~faulty, NEW r \in Requests, original[r] # None, Own(r),
                    NEW i \in Candidates(active), Catalog[i] = model[r],
                    \/ ProviderOf[model[r]] = provider[r]
                    \/ \A j \in Candidates(active) : j < i =>
                            ProviderOf[Catalog[j]] = provider[r]
             PROVE  answered[r] = model[r]
    BY DEF DowngradeTakesEffect
<1>1. model[r] \in CatalogModels /\ ProviderOf[model[r]] \in active /\ CapsOf[model[r]] # {}
    BY DEF Candidates, CatalogModels, IInv, RequestInv, DowngradeInv
<1>2. IF Fits(r) THEN answered[r] = model[r] ELSE answered[r] \in Fallback(r, provider[r])
    BY DEF IInv, RequestInv, EngineInv
<1>3. CASE ProviderOf[model[r]] = provider[r]
    BY <1>1, <1>2, <1>3 DEF Fits
<1>4. CASE ProviderOf[model[r]] # provider[r]
    BY <1>1, <1>2, <1>4, FallbackIsFirst DEF Fits
<1> QED BY <1>3, <1>4

\* With nothing failing, a downgraded call is answered by the downgrade model wherever the
\* catalog lets failover find it first, if the catalog gives the model a capability: one
\* without any is never failed over to, so that the hypothesis is needed.
THEOREM DowngradesTakeEffect ==
    ASSUME \A t \in Budgeted : DowngradeTo[t] \in CatalogModels => CapsOf[DowngradeTo[t]] # {}
    PROVE  Spec => []DowngradeTakesEffect
<1>1. IInv => DowngradeTakesEffect
    BY DowngradeStep
<1> QED BY <1>1, InvHolds, PTL

-----------------------------------------------------------------------------
(* The books.                                                              *)

\* A call is recorded where there is a row, and as long as no two calls of its team were
\* recorded at a time, it is the only one and what it has read is still there.
RecordingInv ==
    \A r \in Requests : pc[r] = "recording" =>
        /\ ask[r].team \in rows
        /\ ask[r].team \notin overlapped =>
            held[r] = spent[ask[r].team] /\ Recording(ask[r].team) = {r}

\* Neither the spend of a team nor what a call has read of it is more than what was
\* charged, and the spend is not less unless calls were recorded at a time.
SpentInv ==
    /\ \A t \in Budgeted :
        /\ spent[t] <= ChargedTo(t)
        /\ t \notin overlapped => spent[t] = ChargedTo(t)
    /\ \A r \in Requests : pc[r] = "recording" => held[r] <= ChargedTo(ask[r].team)

\* A call is recorded when it is over, as what it was; streams are never charged.
LogInv(r) ==
    /\ pc[r] \in {"calling", "charging", "recording", "saving", "logging"} => ~ask[r].stream
    /\ charged[r] # 0 => ~ask[r].stream
    /\ pc[r] = "served" =>
        IF reused[r] = None THEN log[r] = "success"
        ELSE log[r] \in {"hit", "none"} /\ (~faulty => log[r] = "hit")
    /\ log[r] = "error" => pc[r] = "failed"
    /\ log[r] \in {"hit", "success"} => pc[r] = "served"
    /\ log[r] = "success" => Own(r)
    /\ charged[r] # 0 /\ pc[r] = "failed" => faulty

BooksInv == RecordingInv /\ SpentInv /\ \A r \in Requests : LogInv(r)

LEMMA BooksInit ==
    ASSUME Init, IsFiniteSet(Requests)
    PROVE  BooksInv
<1>1. \A r \in Requests : LogInv(r)
    BY DEF Init, LogInv
<1>2. ASSUME NEW t \in Budgeted
      PROVE  spent[t] = 0 /\ ChargedTo(t) = 0
    <2> DEFINE S == {r \in Requests : ask[r].team = t}
    <2>1. IsFiniteSet(S) /\ {} \in SUBSET S
        BY FS_Subset
    <2>2. \A r \in S : charged[r] = 0
        BY DEF Init
    <2> HIDE DEF S
    <2>3. SumFunctionOnSet(charged, S) = SumFunctionOnSet(charged, {})
        BY <2>1, <2>2, SumOfSame
    <2> QED BY <2>3, SumEmpty DEF Init, ChargedTo, S
<1>3. \A r \in Requests : pc[r] # "recording"
    BY DEF Init
<1> QED BY <1>1, <1>2, <1>3 DEF BooksInv, RecordingInv, SpentInv

\* The records, request by request.
LEMMA LogStep ==
    ASSUME IInv, NEW r \in Requests, LogInv(r), [Next]_vars
    PROVE  LogInv(r)'
<1> USE DEF Goto
<1>1. TypeOK /\ RequestInv(r)
    BY DEF IInv
<1>2. ASSUME NEW q \in Requests,
             Limit(q) \/ Route(q) \/ RouteFails(q) \/ Refuse(q) \/ Downgrade(q) \/ Clear(q)
                \/ CheckFails(q)
      PROVE  LogInv(r)'
    <2>1. PICK l \in {"refused", "routed", "cleared", "failed"} :
            /\ pc' = [pc EXCEPT ![q] = l] /\ pc[q] \in {"new", "routed"}
            /\ l = "failed" => faulty
        BY <1>2 DEF Limit, Route, RouteFails, Refuse, Downgrade, Clear, CheckFails
    <2>2. UNCHANGED <<config, answered, reused, charged, log>>
        BY <1>2 DEF Limit, Route, RouteFails, Refuse, Downgrade, Clear, CheckFails, books, spend
    <2> QED BY <1>1, <2>1, <2>2 DEF LogInv, Own, TypeOK, config
<1>3. ASSUME NEW q \in Requests, Hit(q)
      PROVE  LogInv(r)'
    <2>1. /\ pc' = [pc EXCEPT ![q] = "served"] /\ pc[q] = "cleared"
          /\ UNCHANGED <<config, charged>>
          /\ log' = [log EXCEPT ![q] = "hit"] \/ (faulty /\ log' = log)
        BY <1>3 DEF Hit, spend
    <2>2. PICK e \in saved :
            /\ reused' = [reused EXCEPT ![q] = e] /\ answered' = [answered EXCEPT ![q] = answered[e]]
        BY <1>3 DEF Hit
    <2>3. e # None
        BY <1>1, GatewayAssumption DEF TypeOK
    <2>4. CASE q = r
        <3>1. pc'[r] = "served" /\ reused'[r] = e
                /\ (log'[r] = "hit" \/ (faulty /\ log'[r] = log[r]))
            BY <1>1, <2>1, <2>2, <2>4 DEF TypeOK
        <3>2. log[r] = "none" /\ charged[r] = 0
            BY <1>1, <2>1, <2>4 DEF LogInv, TypeOK, RequestInv, ChargeInv
        <3> QED BY <2>1, <2>3, <3>1, <3>2 DEF LogInv, config
    <2>5. CASE q # r
        <3>1. pc'[r] = pc[r] /\ reused'[r] = reused[r] /\ log'[r] = log[r]
                /\ answered'[r] = answered[r]
            BY <1>1, <2>1, <2>2, <2>5 DEF TypeOK
        <3> QED BY <2>1, <3>1 DEF LogInv, Own, config
    <2> QED BY <2>4, <2>5
<1>4. ASSUME NEW q \in Requests, Miss(q)
      PROVE  LogInv(r)'
    BY <1>1, <1>4 DEF Miss, LogInv, Own, TypeOK, config, books, spend
<1>5. ASSUME NEW q \in Requests, Stream(q) \/ StreamFails(q)
      PROVE  LogInv(r)'
    <2>1. PICK l \in {"broken", "failed"} :
            /\ pc' = [pc EXCEPT ![q] = l] /\ pc[q] = "streaming"
            /\ UNCHANGED <<config, answered, reused, charged, log>>
        BY <1>5 DEF Stream, StreamFails, books, spend
    <2>2. q = r => charged[r] = 0
        BY <1>1, <2>1 DEF RequestInv, ChargeInv
    <2> QED BY <1>1, <2>1, <2>2 DEF LogInv, Own, TypeOK, config
<1>6. ASSUME NEW q \in Requests, Execute(q)
      PROVE  LogInv(r)'
    <2>1. /\ pc' = [pc EXCEPT ![q] = "charging"] /\ pc[q] = "calling"
          /\ UNCHANGED <<config, reused, charged, log>>
        BY <1>6 DEF Execute, books, spend
    <2>2. q # r => answered'[r] = answered[r]
        BY <1>1, <1>6 DEF Execute, TypeOK
    <2> QED BY <1>1, <2>1, <2>2 DEF LogInv, Own, TypeOK, config
<1>7. ASSUME NEW q \in Requests, ExecuteFails(q)
      PROVE  LogInv(r)'
    <2>1. /\ pc' = [pc EXCEPT ![q] = "failed"] /\ pc[q] = "calling"
          /\ UNCHANGED <<config, answered, reused, charged>>
          /\ log' \in {log, [log EXCEPT ![q] = "error"]}
        BY <1>7 DEF ExecuteFails, spend
    <2>2. q = r => charged[r] = 0
        BY <1>1, <2>1 DEF RequestInv, ChargeInv
    <2> QED BY <1>1, <2>1, <2>2 DEF LogInv, Own, TypeOK, config
<1>8. ASSUME NEW q \in Requests, RecordStep(q)
      PROVE  LogInv(r)'
    <2>1. /\ \E l \in {"recording", "saving"} : pc' = [pc EXCEPT ![q] = l]
          /\ pc[q] \in {"charging", "recording"}
          /\ UNCHANGED <<config, answered, reused, log>>
        BY <1>8 DEF RecordStep, LoadSpend, LoadNothing, Charge, ChargeFails, books
    <2>2. q # r => charged'[r] = charged[r]
        BY <1>1, <1>8 DEF RecordStep, LoadSpend, LoadNothing, Charge, ChargeFails, TypeOK,
                          books, spend
    <2> QED BY <1>1, <2>1, <2>2 DEF LogInv, Own, TypeOK, config
<1>9. ASSUME NEW q \in Requests, Save(q)
      PROVE  LogInv(r)'
    BY <1>1, <1>9 DEF Save, LogInv, Own, TypeOK, config, spend
<1>10. ASSUME NEW q \in Requests, Log(q)
       PROVE  LogInv(r)'
    <2>1. /\ pc' = [pc EXCEPT ![q] = "served"] /\ pc[q] = "logging"
          /\ log' = [log EXCEPT ![q] = "success"]
          /\ UNCHANGED <<config, answered, reused, charged>>
        BY <1>10 DEF Log, spend
    <2>2. q = r => Own(r)
        BY <1>1, <2>1 DEF RequestInv, AnswerInv
    <2> QED BY <1>1, <2>1, <2>2 DEF LogInv, Own, TypeOK, config
<1>11. ASSUME NEW q \in Requests, LogFails(q)
       PROVE  LogInv(r)'
    <2>1. /\ pc' = [pc EXCEPT ![q] = "failed"] /\ pc[q] = "logging" /\ faulty
          /\ log' \in {log, [log EXCEPT ![q] = "error"]}
          /\ UNCHANGED <<config, answered, reused, charged>>
        BY <1>11 DEF LogFails, spend
    <2> QED BY <1>1, <2>1 DEF LogInv, Own, TypeOK, config
<1>12. CASE UNCHANGED vars
    BY <1>12 DEF LogInv, Own, vars, config
<1> QED
    BY <1>2, <1>3, <1>4, <1>5, <1>6, <1>7, <1>8, <1>9, <1>10, <1>11, <1>12
       DEF Next, Quiescent, RecordStep

\* The steps that do not record leave the figures, and who is recording, as they are.
LEMMA RecordingFrame ==
    ASSUME IInv, [Next]_vars
    PROVE  \/ \E r \in Requests : RecordStep(r)
           \/ /\ UNCHANGED <<ask, rows, spend>>
              /\ \A q \in Requests : pc'[q] = "recording" <=> pc[q] = "recording"
<1> USE DEF Goto, IInv, TypeOK
<1>1. CASE UNCHANGED vars
    BY <1>1 DEF vars, spend
<1>2. ASSUME NEW r \in Requests,
             \/ Limit(r) \/ Route(r) \/ RouteFails(r) \/ Refuse(r) \/ Downgrade(r) \/ Clear(r)
             \/ CheckFails(r) \/ Hit(r) \/ Miss(r) \/ Stream(r) \/ StreamFails(r)
             \/ Execute(r) \/ ExecuteFails(r) \/ Save(r) \/ Log(r) \/ LogFails(r)
      PROVE  /\ UNCHANGED <<ask, rows, spend>>
             /\ \A q \in Requests : pc'[q] = "recording" <=> pc[q] = "recording"
    <2>1. UNCHANGED <<config, spend>>
        BY <1>2 DEF Limit, Route, RouteFails, Refuse, Downgrade, Clear, CheckFails, Hit, Miss,
                    Stream, StreamFails, Execute, ExecuteFails, Save, Log, LogFails, books
    <2>2. \E l : l # "recording" /\ pc' = [pc EXCEPT ![r] = l]
        BY <1>2 DEF Limit, Route, RouteFails, Refuse, Downgrade, Clear, CheckFails, Hit, Miss,
                    Stream, StreamFails, Execute, ExecuteFails, Save, Log, LogFails
    <2>3. pc[r] # "recording"
        BY <1>2 DEF Limit, Route, RouteFails, Refuse, Downgrade, Clear, CheckFails, Hit, Miss,
                    Stream, StreamFails, Execute, ExecuteFails, Save, Log, LogFails
    <2> QED BY <2>1, <2>2, <2>3 DEF config
<1> QED BY <1>1, <1>2 DEF Next, Quiescent, RecordStep

\* A call that starts recording is noticed by the others of its team, and one that ends
\* changes the figure of its own team only.
LEMMA RecordingStep ==
    ASSUME IInv, RecordingInv, [Next]_vars
    PROVE  RecordingInv'
<1>1. CASE \E r \in Requests : RecordStep(r)
    <2>1. PICK r \in Requests : RecordStep(r)
        BY <1>1
    <2> DEFINE t == ask[r].team
    <2>2. /\ UNCHANGED <<ask, rows>> /\ DOMAIN pc = Requests
          /\ overlapped \subseteq overlapped'
        <3>1. UNCHANGED <<ask, rows>>
              /\ (overlapped' = overlapped \/ \E T : overlapped' = overlapped \cup T)
            BY <2>1 DEF RecordStep, LoadSpend, LoadNothing, Charge, ChargeFails, config, books,
                        spend
        <3>2. DOMAIN pc = Requests
            BY DEF IInv, TypeOK
        <3> QED BY <3>1, <3>2
    <2>3. PICK l \in {"recording", "saving"} : pc' = [pc EXCEPT ![r] = l]
        BY <2>1 DEF RecordStep, LoadSpend, LoadNothing, Charge, ChargeFails, Goto
    <2>4. /\ \A q \in Requests \ {r} : held'[q] = held[q] /\ pc'[q] = pc[q]
          /\ \A u \in Budgeted \ {t} : spent'[u] = spent[u]
        BY <2>1, <2>3 DEF RecordStep, LoadSpend, LoadNothing, Charge, ChargeFails, IInv,
                          TypeOK, books, spend
    <2>5. CASE LoadSpend(r)
        <3>1. /\ l = "recording" /\ pc'[r] = "recording" /\ t \in rows /\ t \in Budgeted
              /\ held'[r] = spent[t] /\ spent' = spent
              /\ t \notin overlapped' => Recording(t) = {}
            <4>1. /\ pc' = [pc EXCEPT ![r] = "recording"] /\ t \in rows
                  /\ held' = [held EXCEPT ![r] = spent[t]] /\ spent' = spent
                  /\ overlapped' = overlapped \cup {u \in {t} : Recording(u) # {}}
                BY <2>5 DEF LoadSpend, Recorded, Goto
            <4>2. pc'[r] = "recording" /\ pc'[r] = l /\ t \in Budgeted /\ held'[r] = spent[t]
                BY <2>2, <2>3, <4>1 DEF IInv, TypeOK
            <4> QED BY <4>1, <4>2
        <3>2. ASSUME NEW u
              PROVE  Recording(u)' = Recording(u) \cup {x \in {r} : t = u}
            BY <2>2, <2>3, <3>1 DEF Recording
        <3>3. ASSUME NEW q \in Requests, pc'[q] = "recording"
              PROVE  /\ ask[q].team \in rows
                     /\ ask[q].team \notin overlapped' =>
                            held'[q] = spent[ask[q].team] /\ Recording(ask[q].team)' = {q}
            <4>1. CASE q = r
                <5>1. PICK u : u = ask[q].team
                    OBVIOUS
                <5>2. Recording(u)' = Recording(u) \cup {x \in {r} : t = u} /\ ask' = ask
                    BY <2>2, <3>2
                <5>3. Recording(ask[q].team)' = Recording(ask[q].team) \cup {r}
                    BY <4>1, <5>1, <5>2 DEF Recording
                <5> QED BY <3>1, <4>1, <5>3
            <4>2. CASE q # r
                <5>1. pc[q] = "recording" /\ q \in Recording(ask[q].team)
                    BY <2>4, <3>3, <4>2 DEF Recording
                <5>2. ask[q].team \notin overlapped' => ask[q].team # t
                    BY <3>1, <5>1
                <5> QED BY <2>2, <2>4, <3>2, <4>2, <5>1, <5>2 DEF RecordingInv
            <4> QED BY <4>1, <4>2
        <3> QED BY <2>2, <3>1, <3>3 DEF RecordingInv
    <2>6. CASE ~LoadSpend(r)
        <3>1. l = "saving" /\ pc'[r] = "saving" /\ overlapped' = overlapped
            <4>1. l = "saving" /\ overlapped' = overlapped
                BY <2>1, <2>2, <2>3, <2>6
                   DEF RecordStep, LoadNothing, Charge, ChargeFails, Goto, books, spend
            <4> QED BY <2>2, <2>3, <4>1
        <3>2. ASSUME NEW u PROVE Recording(u)' = Recording(u) \ {r}
            BY <2>2, <2>3, <3>1 DEF Recording
        <3>3. ASSUME NEW q \in Requests, pc'[q] = "recording"
              PROVE  /\ ask[q].team \in rows
                     /\ ask[q].team \notin overlapped =>
                            held'[q] = spent'[ask[q].team] /\ Recording(ask[q].team)' = {q}
            <4>1. q # r /\ pc[q] = "recording" /\ ask[q].team \in rows
                BY <2>4, <3>1, <3>3 DEF RecordingInv
            <4>2. ASSUME ask[q].team \notin overlapped
                  PROVE  held'[q] = spent'[ask[q].team] /\ Recording(ask[q].team)' = {q}
                <5>1. held[q] = spent[ask[q].team] /\ Recording(ask[q].team) = {q}
                    BY <4>1, <4>2 DEF RecordingInv
                <5>2. spent'[ask[q].team] = spent[ask[q].team]
                    <6>1. CASE ask[q].team # t
                        BY <2>4, <4>1, <6>1 DEF IInv, TypeOK
                    <6>2. CASE ask[q].team = t
                        <7>1. pc[r] # "recording"
                            BY <4>1, <5>1, <6>2 DEF Recording
                        <7>2. spent' = spent
                            BY <2>1, <7>1
                               DEF RecordStep, LoadSpend, LoadNothing, Charge, ChargeFails,
                                   books, spend
                        <7> QED BY <7>2
                    <6> QED BY <6>1, <6>2
                <5>3. PICK u : u = ask[q].team
                    OBVIOUS
                <5>4. Recording(u)' = Recording(u) \ {r} /\ ask' = ask
                    BY <2>2, <3>2
                <5>5. Recording(ask[q].team)' = Recording(ask[q].team) \ {r}
                    BY <5>3, <5>4 DEF Recording
                <5> QED BY <2>4, <4>1, <5>1, <5>2, <5>5
            <4> QED BY <4>1, <4>2
        <3> QED BY <2>2, <3>1, <3>3 DEF RecordingInv
    <2> QED BY <2>5, <2>6
<1>2. CASE ~\E r \in Requests : RecordStep(r)
    <2>1. /\ UNCHANGED <<ask, rows, spend>>
          /\ \A q \in Requests : pc'[q] = "recording" <=> pc[q] = "recording"
        BY <1>2, RecordingFrame
    <2>2. ASSUME NEW u PROVE Recording(u)' = Recording(u)
        BY <2>1 DEF Recording
    <2> QED BY <2>1, <2>2 DEF RecordingInv, spend
<1> QED BY <1>1, <1>2

\* A commit charges one call, and writes no more than has been charged with it.
LEMMA ChargeBooked ==
    ASSUME IInv, IsFiniteSet(Requests), RecordingInv, SpentInv, NEW r \in Requests, Charge(r)
    PROVE  SpentInv'
<1> DEFINE t == ask[r].team
<1>1. /\ pc[r] = "recording" /\ pc' = [pc EXCEPT ![r] = "saving"]
      /\ spent' = [spent EXCEPT ![t] = held[r] + Cost(r)]
      /\ charged' = [charged EXCEPT ![r] = Cost(r)]
      /\ held' = [held EXCEPT ![r] = 0]
      /\ UNCHANGED <<ask, overlapped>>
    BY DEF Charge, Goto, config
<1>2. TypeOK /\ charged[r] = 0 /\ Cost(r) \in Nat /\ t \in Budgeted
    BY <1>1, CatalogTypes DEF IInv, RequestInv, ChargeInv, RecordingInv, TypeOK, Cost
<1>3. ASSUME NEW u \in Budgeted
      PROVE  ChargedTo(u)' = (IF u = t THEN ChargedTo(u) + Cost(r) ELSE ChargedTo(u))
             /\ ChargedTo(u) \in Nat
    <2> DEFINE S == {q \in Requests : ask[q].team = u}
    <2>1. IsFiniteSet(S) /\ (\A q \in S : q \in Requests) /\ (r \in S <=> u = t)
        BY FS_Subset
    <2>2. ChargedTo(u) = SumFunctionOnSet(charged, S) /\ ChargedTo(u)' = SumFunctionOnSet(charged', S)
        BY <1>1 DEF ChargedTo
    <2> HIDE DEF S
    <2>3. \A q \in S : charged[q] \in Nat /\ (q # r => charged'[q] = charged[q])
        BY <1>1, <1>2, <2>1 DEF TypeOK
    <2>4. charged'[r] = charged[r] + Cost(r)
        BY <1>1, <1>2 DEF TypeOK
    <2>5. SumFunctionOnSet(charged, S) \in Nat
        BY <2>1, <2>3, SumType
    <2>6. CASE u = t
        BY <1>2, <2>1, <2>2, <2>3, <2>4, <2>5, <2>6, SumPlus
    <2>7. CASE u # t
        <3>1. S \in SUBSET S /\ (\A q \in S : charged[q] \in Int /\ charged[q] = charged'[q])
            BY <2>1, <2>3, <2>7
        <3>2. SumFunctionOnSet(charged, S) = SumFunctionOnSet(charged', S)
            BY <2>1, <3>1, SumOfSame
        <3> QED BY <2>2, <2>5, <2>7, <3>2
    <2> QED BY <2>6, <2>7
<1>4. ASSUME NEW u \in Budgeted
      PROVE  /\ spent'[u] <= ChargedTo(u)'
             /\ u \notin overlapped' => spent'[u] = ChargedTo(u)'
    <2>1. spent[u] <= ChargedTo(u) /\ (u \notin overlapped => spent[u] = ChargedTo(u))
            /\ spent[u] \in Nat
        BY <1>2 DEF SpentInv, TypeOK
    <2>2. CASE u = t
        <3>1. spent'[u] = held[r] + Cost(r) /\ held[r] \in Nat /\ held[r] <= ChargedTo(u)
            BY <1>1, <1>2, <2>2 DEF TypeOK, SpentInv
        <3>2. u \notin overlapped => held[r] = spent[u]
            BY <1>1, <2>2 DEF RecordingInv
        <3> QED BY <1>1, <1>2, <1>3, <2>1, <2>2, <3>1, <3>2
    <2>3. CASE u # t
        BY <1>1, <1>2, <1>3, <2>1, <2>3 DEF TypeOK
    <2> QED BY <2>2, <2>3
<1>5. ASSUME NEW q \in Requests, pc'[q] = "recording"
      PROVE  held'[q] <= ChargedTo(ask[q].team)'
    <2>1. q # r /\ pc[q] = "recording" /\ held'[q] = held[q] /\ held[q] \in Nat
        BY <1>1, <1>2, <1>5 DEF TypeOK
    <2>2. ask[q].team \in Budgeted /\ held[q] <= ChargedTo(ask[q].team)
        BY <1>2, <2>1 DEF RecordingInv, SpentInv, TypeOK
    <2>3. PICK u \in Budgeted : u = ask[q].team
        BY <2>2
    <2>4. held'[q] <= ChargedTo(u)'
        BY <1>2, <1>3, <2>1, <2>2, <2>3
    <2>5. ChargedTo(u)' = ChargedTo(ask[q].team)'
        BY <1>1, <2>3 DEF ChargedTo
    <2> QED BY <2>4, <2>5
<1> QED BY <1>1, <1>4, <1>5 DEF SpentInv

LEMMA BooksStep ==
    ASSUME IInv, IsFiniteSet(Requests), BooksInv, [Next]_vars
    PROVE  BooksInv'
<1>1. \A r \in Requests : LogInv(r)'
    BY LogStep DEF BooksInv
<1>2. RecordingInv'
    BY RecordingStep DEF BooksInv
<1>3. SpentInv'
    <2>1. CASE \E r \in Requests : Charge(r)
        BY <2>1, ChargeBooked DEF BooksInv
    <2>2. ASSUME NEW r \in Requests, LoadSpend(r) PROVE SpentInv'
        <3>1. /\ pc' = [pc EXCEPT ![r] = "recording"] /\ ask[r].team \in Budgeted
              /\ held' = [held EXCEPT ![r] = spent[ask[r].team]]
              /\ overlapped \subseteq overlapped' /\ UNCHANGED <<ask, charged, spent>>
            BY <2>2 DEF LoadSpend, Recorded, Goto, config, IInv, TypeOK
        <3>2. ASSUME NEW u PROVE ChargedTo(u)' = ChargedTo(u)
            BY <3>1 DEF ChargedTo
        <3> QED BY <3>1, <3>2 DEF BooksInv, SpentInv, IInv, TypeOK
    <2>3. ASSUME NEW r \in Requests, LoadNothing(r) \/ ChargeFails(r) PROVE SpentInv'
        <3>1. /\ pc' = [pc EXCEPT ![r] = "saving"]
              /\ held' \in {held, [held EXCEPT ![r] = 0]}
              /\ UNCHANGED <<ask, charged, spent, overlapped>>
            BY <2>3 DEF LoadNothing, ChargeFails, Goto, config, books, spend
        <3>2. ASSUME NEW u PROVE ChargedTo(u)' = ChargedTo(u)
            BY <3>1 DEF ChargedTo
        <3>3. \A q \in Requests : pc'[q] = "recording" =>
                    pc[q] = "recording" /\ held'[q] = held[q]
            BY <3>1 DEF IInv, TypeOK
        <3> QED BY <3>1, <3>2, <3>3 DEF BooksInv, SpentInv
    <2>4. CASE ~\E r \in Requests : RecordStep(r)
        <3>1. /\ UNCHANGED <<ask, rows, spend>>
              /\ \A q \in Requests : pc'[q] = "recording" <=> pc[q] = "recording"
            BY <2>4, RecordingFrame
        <3>2. ASSUME NEW u PROVE ChargedTo(u)' = ChargedTo(u)
            BY <3>1 DEF ChargedTo, spend
        <3> QED BY <3>1, <3>2 DEF BooksInv, SpentInv, spend
    <2> QED BY <2>1, <2>2, <2>3, <2>4 DEF RecordStep
<1> QED BY <1>1, <1>2, <1>3 DEF BooksInv

\* The models add up to the total.
LEMMA ModelsAddUp ==
    ASSUME IInv, IsFiniteSet(Requests), IsFiniteSet(Models)
    PROVE  /\ SumFunctionOnSet([m \in Models |-> ModelBreakdown(m).spent], Models)
                = Overview.total_spent
           /\ SumFunctionOnSet([m \in Models |-> ModelBreakdown(m).calls], Models)
                = Overview.total_calls
<1> DEFINE L == Logged({"hit", "success", "error"})
           one == [r \in L |-> 1]
<1>1. L \in SUBSET Requests /\ IsFiniteSet(L)
    BY FS_Subset DEF Logged
<1>2. \A r \in L : model[r] \in Models /\ actual_cost[r] \in Nat /\ one[r] = 1
    BY <1>1, CatalogTypes DEF IInv, TypeOK, actual_cost, UsageRecord, Cost
<1> HIDE DEF L, one
<1>3. SumFunctionOnSet([m \in Models |->
            SumFunctionOnSet(actual_cost, {r \in L : model[r] = m})], Models)
                = SumFunctionOnSet(actual_cost, L)
    BY <1>1, <1>2, SumOfGroups
<1>4. SumFunctionOnSet([m \in Models |->
            SumFunctionOnSet(one, {r \in L : model[r] = m})], Models) = SumFunctionOnSet(one, L)
    BY <1>1, <1>2, SumOfGroups
<1>5. \A m \in Models :
        SumFunctionOnSet(one, {r \in L : model[r] = m}) = Cardinality({r \in L : model[r] = m})
    <2> SUFFICES ASSUME NEW m \in Models
                 PROVE  SumFunctionOnSet(one, {r \in L : model[r] = m})
                            = Cardinality({r \in L : model[r] = m})
        OBVIOUS
    <2>1. IsFiniteSet({r \in L : model[r] = m}) /\ \A r \in {q \in L : model[q] = m} : one[r] = 1
        BY <1>1, <1>2, FS_Subset
    <2> QED BY <2>1, SumOfOnes
<1>6. SumFunctionOnSet(one, L) = Cardinality(L)
    BY <1>1, <1>2, SumOfOnes
<1>7. \A m \in Models :
        /\ ModelBreakdown(m).spent = SumFunctionOnSet(actual_cost, {r \in L : model[r] = m})
        /\ ModelBreakdown(m).calls = Cardinality({r \in L : model[r] = m})
    BY DEF ModelBreakdown, L
<1>8. Overview.total_spent = SumFunctionOnSet(actual_cost, L)
        /\ Overview.total_calls = Cardinality(L)
    BY DEF Overview, L
<1>9. [m \in Models |-> ModelBreakdown(m).spent]
        = [m \in Models |-> SumFunctionOnSet(actual_cost, {r \in L : model[r] = m})]
    BY <1>7
<1>10. [m \in Models |-> ModelBreakdown(m).calls]
        = [m \in Models |-> SumFunctionOnSet(one, {r \in L : model[r] = m})]
    BY <1>5, <1>7
<1> QED BY <1>3, <1>4, <1>6, <1>8, <1>9, <1>10

\* Without faults a call that is over is recorded with what was charged for it, or with its
\* price if there was no row to charge.
LEMMA RecordIsCharge ==
    ASSUME IInv, BooksInv, ~faulty, NEW r \in Requests, pc[r] \in Over
    PROVE  /\ actual_cost[r] \in Nat /\ charged[r] \in Nat
           /\ log[r] \notin {"hit", "success", "error"} => charged[r] = 0
           /\ charged[r] <= actual_cost[r] \/ charged[r] = 0
           /\ ask[r].team \in rows /\ log[r] \in {"hit", "success", "error"}
                => charged[r] = actual_cost[r]
<1>1. TypeOK /\ RequestInv(r) /\ LogInv(r) /\ Cost(r) \in Nat
    BY CatalogTypes DEF IInv, BooksInv, TypeOK, Cost
<1>2. actual_cost[r] = IF log[r] \in {"hit", "error"} THEN 0 ELSE Cost(r)
    BY DEF actual_cost, UsageRecord
<1>3. CASE log[r] = "success"
    <2>1. pc[r] = "served" /\ Own(r)
        BY <1>1, <1>3 DEF LogInv
    <2> QED BY <1>1, <1>2, <1>3, <2>1 DEF RequestInv, FaultlessInv, Booked
<1>4. CASE log[r] # "success"
    <2>1. charged[r] = 0
        BY <1>1, <1>4 DEF RequestInv, ChargeInv, LogInv, Own, Over
    <2> QED BY <1>1, <1>2, <1>4, <2>1 DEF TypeOK
<1> QED BY <1>3, <1>4

\* What is charged to the teams is what is charged, if only teams with a row are.
LEMMA TeamsAreCharged ==
    ASSUME IInv, IsFiniteSet(Requests), IsFiniteSet(Budgeted)
    PROVE  /\ SumFunctionOnSet([t \in Budgeted |-> ChargedTo(t)], Budgeted)
                = SumFunctionOnSet(charged, {r \in Requests : ask[r].team \in rows})
           /\ \A t \in Budgeted : ChargedTo(t) \in Nat
<1> DEFINE team == [r \in Requests |-> ask[r].team]
           S == {r \in Requests : ask[r].team \in rows}
<1>1. /\ IsFiniteSet(S) /\ \A r \in Requests : charged[r] \in Nat
      /\ S \subseteq Requests /\ \A r \in S : team[r] \in Budgeted
    BY FS_Subset DEF IInv, TypeOK
<1>2. SumFunctionOnSet([t \in Budgeted |->
            SumFunctionOnSet(charged, {r \in S : team[r] = t})], Budgeted)
                = SumFunctionOnSet(charged, S)
    <2> HIDE DEF team, S
    <2> QED BY <1>1, SumOfGroups
<1>3. ASSUME NEW t \in Budgeted
      PROVE  /\ ChargedTo(t) = SumFunctionOnSet(charged, {r \in S : team[r] = t})
             /\ ChargedTo(t) \in Nat
    <2> DEFINE A == {r \in Requests : ask[r].team = t}
               B == {r \in S : team[r] = t}
    <2>1. IsFiniteSet(A) /\ B \in SUBSET A /\ \A r \in A : charged[r] \in Nat
        BY <1>1, FS_Subset
    <2>2. \A r \in A \ B : charged[r] = 0
        BY DEF IInv, RequestInv, ChargeInv
    <2>3. ChargedTo(t) = SumFunctionOnSet(charged, A)
        BY DEF ChargedTo
    <2> HIDE DEF A, B
    <2>4. \A r \in B : charged[r] = charged[r]
        OBVIOUS
    <2>5. SumFunctionOnSet(charged, A) = SumFunctionOnSet(charged, B)
        BY <2>1, <2>2, <2>4, SumOfSame
    <2> QED BY <2>1, <2>3, <2>5, SumType DEF B
<1>4. [t \in Budgeted |-> ChargedTo(t)]
        = [t \in Budgeted |-> SumFunctionOnSet(charged, {r \in S : team[r] = t})]
    BY <1>3
<1> QED BY <1>2, <1>3, <1>4

\* So the total of the records is not exceeded by that of the teams, and is the same where
\* nothing was lost.
LEMMA TeamsAddUp ==
    ASSUME IInv, BooksInv, ~faulty, IsFiniteSet(Requests), IsFiniteSet(Budgeted),
           \A r \in Requests : pc[r] \in Over
    PROVE  /\ TeamsSpent <= Overview.total_spent
           /\ overlapped = {} /\ (\A r \in Requests : ask[r].team \in rows)
                => TeamsSpent = Overview.total_spent
<1> DEFINE L == Logged({"hit", "success", "error"})
           S == {r \in Requests : ask[r].team \in rows}
           T == S \cap L
           Charges == [t \in Budgeted |-> ChargedTo(t)]
<1>1. /\ L \in SUBSET Requests /\ S \in SUBSET Requests /\ T \in SUBSET L /\ T \in SUBSET S
      /\ IsFiniteSet(L) /\ IsFiniteSet(S)
    BY FS_Subset DEF Logged
<1>2. \A r \in Requests : charged[r] \in Nat /\ actual_cost[r] \in Nat
    BY RecordIsCharge
<1>3. /\ \A r \in T : charged[r] = actual_cost[r]
      /\ \A r \in S \ T : charged[r] = 0
    BY RecordIsCharge DEF Logged
<1>4. SumFunctionOnSet(charged, S) = SumFunctionOnSet(actual_cost, T)
    <2> HIDE DEF L, S, T
    <2> QED BY <1>1, <1>2, <1>3, SumOfSame
<1>5. SumFunctionOnSet(actual_cost, T) <= SumFunctionOnSet(actual_cost, L)
    <2>1. /\ \A r \in L : actual_cost[r] \in Int /\ (r \notin T => actual_cost[r] >= 0)
          /\ \A r \in T : actual_cost[r] \in Int /\ actual_cost[r] <= actual_cost[r]
        BY <1>1, <1>2
    <2> HIDE DEF L, S, T
    <2> QED BY <1>1, <2>1, SumMonotone
<1>6. /\ SumFunctionOnSet(Charges, Budgeted) = SumFunctionOnSet(charged, S)
      /\ \A t \in Budgeted : ChargedTo(t) \in Nat
    BY TeamsAreCharged
<1>7. TeamsSpent <= SumFunctionOnSet(Charges, Budgeted)
    <2>1. \A t \in Budgeted : Charges[t] \in Nat /\ spent[t] \in Nat /\ spent[t] <= Charges[t]
        BY <1>6 DEF IInv, TypeOK, BooksInv, SpentInv
    <2> HIDE DEF Charges
    <2>2. /\ Budgeted \in SUBSET Budgeted
          /\ \A t \in Budgeted : Charges[t] \in Int /\ (t \notin Budgeted => Charges[t] >= 0)
          /\ \A t \in Budgeted : spent[t] \in Int /\ spent[t] <= Charges[t]
        BY <2>1
    <2> QED BY <2>2, SumMonotone DEF TeamsSpent
<1>8. TeamsSpent \in Int /\ SumFunctionOnSet(actual_cost, L) \in Int
        /\ SumFunctionOnSet(charged, S) \in Int
    <2>1. \A t \in Budgeted : spent[t] \in Int
        BY DEF IInv, TypeOK
    <2>2. \A r \in L : actual_cost[r] \in Int
        BY <1>1, <1>2
    <2>3. \A r \in S : charged[r] \in Int
        BY <1>1, <1>2
    <2> HIDE DEF L, S
    <2> QED BY <1>1, <2>1, <2>2, <2>3, SumIsInt DEF TeamsSpent
<1>9. Overview.total_spent = SumFunctionOnSet(actual_cost, L)
    BY DEF Overview
<1>10. TeamsSpent <= Overview.total_spent
    BY <1>4, <1>5, <1>6, <1>7, <1>8, <1>9
<1>11. ASSUME overlapped = {}, \A r \in Requests : ask[r].team \in rows
       PROVE  TeamsSpent = Overview.total_spent
    <2>1. S = Requests /\ T = L
        BY <1>1, <1>11
    <2>2. \A t \in Budgeted : spent[t] = ChargedTo(t)
        BY <1>11 DEF BooksInv, SpentInv
    <2>3. spent = Charges
        BY <2>2 DEF IInv, TypeOK
    <2> HIDE DEF Charges, L, S, T
    <2> QED BY <1>4, <1>6, <1>9, <2>1, <2>3 DEF TeamsSpent
<1> QED BY <1>10, <1>11

LEMMA BooksStated ==
    ASSUME IInv, BooksInv, IsFiniteSet(Requests), IsFiniteSet(Models), IsFiniteSet(Budgeted)
    PROVE  BooksAgree
<1>1. ASSUME NEW r \in Requests
      PROVE  /\ charged[r] > 0 => ask[r].team \in rows
             /\ charged[r] > 0 => Own(r) /\ ~ask[r].stream /\ pc[r] \in Booked \cup {"failed"}
             /\ charged[r] > 0 /\ pc[r] = "served" => log[r] = "success"
             /\ charged[r] > 0 /\ pc[r] = "failed" => faulty
    <2>1. RequestInv(r) /\ LogInv(r) /\ charged[r] \in Nat
        BY DEF IInv, TypeOK, BooksInv
    <2> QED BY <2>1 DEF RequestInv, ChargeInv, LogInv, Own, Booked
<1>2. ASSUME ~faulty, \A r \in Requests : pc[r] \in Over
      PROVE  Overview.total_calls =
                Cardinality({r \in Requests : pc[r] = "served" \/ log[r] = "error"})
    <2>1. \A r \in Requests :
            log[r] \in {"hit", "success", "error"} <=> pc[r] = "served" \/ log[r] = "error"
        BY <1>2 DEF BooksInv, LogInv
    <2>2. Logged({"hit", "success", "error"})
            = {r \in Requests : pc[r] = "served" \/ log[r] = "error"}
        BY <2>1 DEF Logged
    <2> QED BY <2>2 DEF Overview
<1>3. DashboardAgrees
    BY <1>2, ModelsAddUp, TeamsAddUp DEF DashboardAgrees
<1> QED BY <1>1, <1>3 DEF BooksAgree, BooksInv, SpentInv

\* For any number of calls that overlap as they like, the spend of a team never exceeds what
\* was charged for its answered calls, is exactly that as long as no two of them were
\* recorded at a time, and the pages of the dashboard, which add up different tables, agree
\* to the same extent; a team without a usage row is charged nothing.
THEOREM BooksKeepAgreeing ==
    ASSUME IsFiniteSet(Requests), IsFiniteSet(Models), IsFiniteSet(Budgeted)
    PROVE  Spec => []BooksAgree
<1>1. Init => BooksInv
    BY BooksInit
<1>2. IInv /\ BooksInv /\ [Next]_vars => BooksInv'
    BY BooksStep
<1>3. IInv /\ BooksInv => BooksAgree
    BY BooksStated
<1> QED BY <1>1, <1>2, <1>3, InvHolds, PTL DEF Spec

-----------------------------------------------------------------------------
(* The ledger.                                                             *)

\* Enforcement is switched on, so that every budget has its usage row, and nothing fails.
Calm == ~faulty /\ "budget" \in flags /\ rows = Budgeted

\* What the teams have spent fits the column.
Fitting == \A t \in Budgeted : spent[t] <= MaxSpent

\* No two calls of a team have been recorded at a time.
Apart == overlapped = {}

\* Nobody looks for a provider before the router does.
NewInv == \A r \in Requests : pc[r] = "new" => provider[r] = None

LedgerInv == IInv /\ NewInv /\ RecordingInv /\ Calm

\* What the ledger sees: where the calls are, what they cost, what the teams have spent.
Standing == [r \in Requests |-> StatusOf(r)]
BillOf(r) == IF Own(r) THEN Cost(r) ELSE 0
Bills == [r \in Requests |-> BillOf(r)]
Balances ==
    [t \in Budgeted \cup {None} |-> [m \in 1..1 |-> IF t \in Budgeted THEN spent[t] ELSE 0]]
Payers == [r \in Requests |-> ask[r].team]

\* The stages of a call as the ledger has them.
LEMMA StatusOfStage ==
    ASSUME LedgerInv, NEW r \in Requests
    PROVE  /\ pc[r] = "new" => StatusOf(r) = "new"
           /\ pc[r] \notin {"new", "refused"} => provider[r] # None
           /\ pc[r] = "routed" =>
                StatusOf(r) = IF ask[r].team \in Budgeted THEN "open" ELSE "granted"
           /\ pc[r] \in {"cleared", "streaming", "calling"} => StatusOf(r) = "granted"
           /\ pc[r] = "charging" =>
                StatusOf(r) = IF ask[r].team \in Budgeted /\ Cost(r) > 0 THEN "billed"
                              ELSE "closed"
           /\ pc[r] = "recording" => StatusOf(r) = "billed"
           /\ pc[r] \in {"saving", "logging"} => StatusOf(r) = "closed"
<1>1. pc[r] = "new" => provider[r] = None
    BY DEF LedgerInv, NewInv
<1>2. ASSUME pc[r] \notin {"new", "refused"} PROVE provider[r] # None
    <2>1. Routable(r) /\ provider[r] = RoutedProvider(r)
        BY <1>2 DEF LedgerInv, IInv, RequestInv, RoutedInv
    <2> QED BY <2>1, RoutedType, GatewayAssumption
<1> QED BY <1>1, <1>2 DEF StatusOf, Recorded, LedgerInv, Calm

\* An answer of one's own comes with the call, and its price is within the bound.
LEMMA PriceOfStage ==
    ASSUME LedgerInv, NEW r \in Requests
    PROVE  /\ pc[r] \notin Answered => ~Own(r)
           /\ pc[r] \in {"charging", "recording"} => Own(r)
           /\ pc[r] # "served" => reused[r] = None
           /\ Cost(r) \in 0..MaxCost
<1>1. AnswerInv(r) /\ model[r] \in Models
    BY DEF LedgerInv, IInv, RequestInv, TypeOK
<1>2. Cost(r) \in 0..MaxCost
    BY <1>1, GatewayAssumption, CatalogTypes DEF Cost
<1> QED BY <1>1, <1>2 DEF AnswerInv, Own

\* A step of one handler moves one call.
LEMMA OneCallMoves ==
    ASSUME NEW r \in Requests, StepOf(r)
    PROVE  /\ Standing' = [Standing EXCEPT ![r] = StatusOf(r)']
           /\ Bills' = [Bills EXCEPT ![r] = BillOf(r)']
           /\ Payers' = Payers
<1>1. ASSUME NEW q \in Requests \ {r}
      PROVE  StatusOf(q)' = StatusOf(q) /\ BillOf(q)' = BillOf(q)
    <2>1. /\ UNCHANGED config /\ Same(q) /\ Cost(q)' = Cost(q)
          /\ Recorded(q)' = Recorded(q)
        BY DEF StepOf, Same, config, Recorded, Cost
    <2>2. StatusOf(q)' = StatusOf(q)
        BY <2>1 DEF Same, config, StatusOf
    <2> QED BY <2>1, <2>2 DEF Same, BillOf, Own
<1>2. Payers' = Payers
    BY DEF StepOf, config, Payers
<1> QED BY <1>1, <1>2 DEF Standing, Bills

\* Before the call nothing is billed, whichever model the request names.
LEMMA UnansweredMoves ==
    ASSUME LedgerInv, NEW r \in Requests, StepOf(r), pc[r] \notin Answered,
           answered'[r] = answered[r], reused'[r] = reused[r], UNCHANGED spent
    PROVE  /\ Standing' = [Standing EXCEPT ![r] = StatusOf(r)']
           /\ UNCHANGED <<Balances, Payers, Bills>>
<1>1. BillOf(r) = 0 /\ BillOf(r)' = 0
    BY PriceOfStage DEF BillOf, Own
<1>2. Bills' = Bills
    BY <1>1, OneCallMoves DEF Bills
<1> QED BY <1>2, OneCallMoves DEF Balances

\* What changes nothing for the ledger.
LEMMA StaysPut ==
    ASSUME NEW r \in Requests, StepOf(r), UNCHANGED spent,
           StatusOf(r)' = StatusOf(r), BillOf(r)' = BillOf(r)
    PROVE  UNCHANGED Account!vars
<1>1. Standing' = Standing /\ Bills' = Bills /\ Payers' = Payers
    BY OneCallMoves DEF Standing, Bills
<1>2. Balances' = Balances
    BY DEF Balances
<1> QED BY <1>1, <1>2 DEF Account!vars, Standing, Bills, Balances, Payers, BillOf

\* A routed call is opened.
LEMMA RouteOpens ==
    ASSUME LedgerInv, NEW r \in Requests, Route(r)
    PROVE  Account!Open(r)
<1>1. /\ pc[r] = "new" /\ Routable(r) /\ pc' = [pc EXCEPT ![r] = "routed"]
      /\ model' = [model EXCEPT ![r] = Routed(r)]
      /\ provider' = [provider EXCEPT ![r] = RoutedProvider(r)]
      /\ UNCHANGED <<config, original, answered, reused, books>>
    BY DEF Route, Goto
<1>2. StepOf(r) /\ pc'[r] = "routed" /\ provider'[r] # None
    BY <1>1, RoutedType, GatewayAssumption
       DEF LedgerInv, IInv, TypeOK, StepOf, Same, config, books, spend
<1>3. StatusOf(r)' = IF ask[r].team \in Budgeted THEN "open" ELSE "granted"
    BY <1>1, <1>2 DEF StatusOf, config
<1>4. Standing[r] = "new"
    BY <1>1, StatusOfStage DEF Standing
<1>5. /\ Standing' = [Standing EXCEPT ![r] = IF Payers[r] \in Budgeted THEN "open" ELSE "granted"]
      /\ UNCHANGED <<Balances, Payers, Bills>>
    BY <1>1, <1>2, <1>3, UnansweredMoves DEF Answered, books, spend, Payers
<1> QED BY <1>4, <1>5
        DEF Account!Open, Account!Move, Standing, Balances, Payers, Bills, BillOf

\* The verdict on a call is that of its account.
LEMMA VerdictMoves ==
    ASSUME LedgerInv, NEW r \in Requests, Refuse(r) \/ Downgrade(r) \/ Clear(r)
    PROVE  Account!Grant(r) \/ Account!Refuse(r) \/ UNCHANGED Account!vars
<1>1. /\ pc[r] = "routed" /\ UNCHANGED <<config, provider, answered, reused, books>>
      /\ \/ pc' = [pc EXCEPT ![r] = "refused"] /\ OverAmount(r)
         \/ pc' = [pc EXCEPT ![r] = "cleared"] /\ ~OverAmount(r)
    BY DEF Refuse, Downgrade, Clear, Goto
<1>2. StepOf(r) /\ provider'[r] # None /\ pc'[r] \in {"refused", "cleared"}
    <2>1. UNCHANGED <<model, original>>
          \/ \E m, o : model' = [model EXCEPT ![r] = m] /\ original' = [original EXCEPT ![r] = o]
        BY DEF Refuse, Downgrade, Clear
    <2> QED BY <1>1, <2>1, StatusOfStage
            DEF LedgerInv, IInv, TypeOK, StepOf, Same, config, books, spend
<1>3. /\ Standing' = [Standing EXCEPT ![r] = StatusOf(r)']
      /\ UNCHANGED <<Balances, Payers, Bills>>
    BY <1>1, <1>2, UnansweredMoves DEF Answered, books, spend
<1>4. StatusOf(r)' = IF pc'[r] = "cleared" THEN "granted" ELSE "closed"
    BY <1>2 DEF StatusOf
<1>5. CASE ask[r].team \in Budgeted
    <2>1. Standing[r] = "open" /\ Balances[Payers[r]][1] = spent[Payers[r]]
        BY <1>1, <1>5, StatusOfStage DEF Standing, Balances, Payers
    <2>2. spent[Payers[r]] \in Nat /\ Amount[Payers[r]] \in Int
        BY <1>5, GatewayAssumption DEF LedgerInv, IInv, TypeOK, Payers
    <2>3. OverAmount(r) <=> spent[Payers[r]] >= Amount[Payers[r]]
        BY <1>5 DEF OverAmount, Checked, LedgerInv, Calm, Payers
    <2>4. CASE OverAmount(r)
        <3>1. pc'[r] = "refused"
            BY <1>1, <2>4 DEF LedgerInv, IInv, TypeOK
        <3>2. Standing' = [Standing EXCEPT ![r] = "closed"]
            BY <1>3, <1>4, <3>1
        <3> QED BY <1>3, <2>1, <2>3, <2>4, <3>2
                DEF Account!Refuse, Account!Move, Account!Balance, Standing, Balances, Payers,
                    Bills, BillOf
    <2>5. CASE ~OverAmount(r)
        <3>1. pc'[r] = "cleared"
            BY <1>1, <2>5 DEF LedgerInv, IInv, TypeOK
        <3>2. Standing' = [Standing EXCEPT ![r] = "granted"]
            BY <1>3, <1>4, <3>1
        <3>3. Balances[Payers[r]][1] < Amount[Payers[r]]
            BY <2>1, <2>2, <2>3, <2>5
        <3> QED BY <1>3, <2>1, <3>2, <3>3
                DEF Account!Grant, Account!Move, Account!Balance, Standing, Balances, Payers,
                    Bills, BillOf
    <2> QED BY <2>4, <2>5
<1>6. CASE ask[r].team \notin Budgeted
    <2>1. StatusOf(r) = "granted" /\ StatusOf(r)' = "granted"
        BY <1>1, <1>2, <1>4, <1>6, StatusOfStage DEF OverAmount, Checked, LedgerInv, IInv, TypeOK
    <2>2. BillOf(r)' = BillOf(r)
        BY <1>1, PriceOfStage DEF BillOf, Own, Answered
    <2> QED BY <1>1, <1>2, <2>1, <2>2, StaysPut DEF books, spend
<1> QED BY <1>5, <1>6

\* A call that ends without an answer of its own, from the cache, with a broken stream or
\* with no model to go on with, is not billed.
LEMMA UnbilledFails ==
    ASSUME LedgerInv, NEW r \in Requests,
           Hit(r) \/ Stream(r) \/ StreamFails(r) \/ ExecuteFails(r)
    PROVE  Account!Fail(r)
<1>1. /\ pc[r] \in {"cleared", "streaming", "calling"}
      /\ UNCHANGED <<config, model, provider, original, charged, spent>>
    BY DEF Hit, Stream, StreamFails, ExecuteFails, books, spend
<1>2. \E l \in {"served", "broken", "failed"} : pc' = [pc EXCEPT ![r] = l]
    BY DEF Hit, Stream, StreamFails, ExecuteFails, Goto
<1>3. \/ UNCHANGED <<answered, reused>>
      \/ \E e \in Requests : \E m : /\ reused' = [reused EXCEPT ![r] = e]
                                    /\ answered' = [answered EXCEPT ![r] = m]
    BY DEF Hit, Stream, StreamFails, ExecuteFails, LedgerInv, IInv, TypeOK
<1>4. /\ StepOf(r) /\ pc'[r] \in {"served", "broken", "failed"}
      /\ provider'[r] = provider[r]
      /\ (answered'[r] = answered[r] /\ reused'[r] = reused[r]) \/ reused'[r] \in Requests
    BY <1>1, <1>2, <1>3 DEF LedgerInv, IInv, TypeOK, StepOf, Same, config
<1>5. BillOf(r) = 0 /\ BillOf(r)' = 0
    BY <1>1, <1>4, PriceOfStage, GatewayAssumption DEF BillOf, Own, Answered
<1>6. StatusOf(r) = "granted" /\ StatusOf(r)' = "closed"
    BY <1>1, <1>4, StatusOfStage DEF StatusOf
<1>7. /\ Standing' = [Standing EXCEPT ![r] = "closed"] /\ Standing[r] = "granted"
      /\ UNCHANGED <<Balances, Payers, Bills>>
    BY <1>1, <1>4, <1>5, <1>6, OneCallMoves DEF Standing, Bills, Balances
<1> QED BY <1>7 DEF Account!Fail, Account!Move, Standing, Balances, Payers, Bills, BillOf

\* An answer is billed at the price of the model in the request.
LEMMA ExecuteBills ==
    ASSUME LedgerInv, NEW r \in Requests, Execute(r)
    PROVE  Account!Bill(r)
<1>1. PICK m \in Models : answered' = [answered EXCEPT ![r] = m]
    BY DEF Execute
<1>2. /\ pc[r] = "calling" /\ pc' = [pc EXCEPT ![r] = "charging"]
      /\ UNCHANGED <<config, model, provider, original, reused, charged, spent>>
    BY DEF Execute, Goto, books, spend
<1>3. /\ StepOf(r) /\ pc'[r] = "charging" /\ answered'[r] # None /\ reused'[r] = None
      /\ provider'[r] # None
    <2>1. m # None /\ reused[r] = None /\ provider[r] # None
        BY <1>2, StatusOfStage, PriceOfStage, GatewayAssumption
    <2> QED BY <1>1, <1>2, <2>1 DEF LedgerInv, IInv, TypeOK, StepOf, Same, config
<1>4. Cost(r)' = Cost(r) /\ Cost(r) \in 0..MaxCost
    BY <1>2, PriceOfStage DEF Cost
<1>5. BillOf(r)' = Cost(r)
    BY <1>3, <1>4 DEF BillOf, Own
<1>6. StatusOf(r)' = IF Cost(r) > 0 /\ ask[r].team \in Budgeted THEN "billed" ELSE "closed"
    BY <1>2, <1>3, <1>4 DEF StatusOf, Recorded, LedgerInv, Calm, config
<1>7. /\ Standing[r] = "granted" /\ Bills' = [Bills EXCEPT ![r] = Cost(r)]
      /\ Standing' = [Standing EXCEPT ![r] =
                        IF Cost(r) > 0 /\ Payers[r] \in Budgeted THEN "billed" ELSE "closed"]
      /\ UNCHANGED <<Balances, Payers>>
    BY <1>2, <1>3, <1>5, <1>6, OneCallMoves, StatusOfStage DEF Standing, Payers, Balances
<1>8. [q \in Requests |-> 1] = [[q \in Requests |-> 1] EXCEPT ![r] = 1]
    OBVIOUS
<1> QED BY <1>4, <1>7, <1>8
        DEF Account!Bill, Account!Move, Standing, Balances, Payers, Bills, BillOf

\* A commit posts the bill, as long as it fits and nothing was written since it read.
LEMMA ChargePosts ==
    ASSUME LedgerInv, Apart, Fitting', NEW r \in Requests, Charge(r)
    PROVE  Account!Post(r)
<1> DEFINE t == ask[r].team
<1>1. /\ pc[r] = "recording" /\ pc' = [pc EXCEPT ![r] = "saving"]
      /\ UNCHANGED <<config, model, provider, original, answered, reused>>
      /\ spent' = [spent EXCEPT ![t] = held[r] + Cost(r)]
      /\ charged' = [charged EXCEPT ![r] = Cost(r)]
    BY DEF Charge, Goto
<1>2. t \in Budgeted /\ held[r] = spent[t]
    BY <1>1 DEF LedgerInv, RecordingInv, Apart, Calm
<1>3. StepOf(r) /\ pc'[r] = "saving" /\ provider'[r] # None
    BY <1>1, StatusOfStage DEF LedgerInv, IInv, TypeOK, StepOf, Same, config
<1>4. StatusOf(r)' = "closed"
    BY <1>3 DEF StatusOf
<1>5. BillOf(r)' = Cost(r) /\ BillOf(r) = Cost(r) /\ Cost(r) \in Nat
    BY <1>1, PriceOfStage DEF BillOf, Own, Cost
<1>6. spent \in [Budgeted -> Nat]
    BY DEF LedgerInv, IInv, TypeOK
<1>7. /\ Standing[r] = "billed" /\ Standing' = [Standing EXCEPT ![r] = "closed"]
      /\ Bills[r] = Cost(r) /\ UNCHANGED <<Bills, Payers>>
    <2>1. StatusOf(r) = "billed"
        BY <1>1, StatusOfStage
    <2>2. /\ Standing' = [Standing EXCEPT ![r] = "closed"] /\ Payers' = Payers
          /\ Bills' = [Bills EXCEPT ![r] = BillOf(r)]
        BY <1>3, <1>4, <1>5, OneCallMoves
    <2> QED BY <1>5, <2>1, <2>2 DEF Standing, Bills
<1>8. spent'[Payers[r]] = spent[Payers[r]] + Cost(r) /\ spent'[Payers[r]] <= MaxSpent
    BY <1>1, <1>2, <1>6 DEF Fitting, Payers
<1>9. /\ Balances[Payers[r]][1] + Bills[r] <= MaxSpent
      /\ Balances' = [Balances EXCEPT ![Payers[r]][1] = @ + Bills[r]]
    <2>1. Balances[Payers[r]] = [m \in 1..1 |-> spent[Payers[r]]]
        BY <1>2 DEF Balances, Payers
    <2>2. ASSUME NEW u \in Budgeted \cup {None}
          PROVE  Balances'[u] = IF u = Payers[r] THEN [m \in 1..1 |-> spent[u] + Cost(r)]
                                ELSE Balances[u]
        BY <1>1, <1>2, <1>6 DEF Balances, Payers
    <2>3. Balances' = [u \in Budgeted \cup {None} |-> Balances'[u]]
        BY DEF Balances
    <2>4. [Balances[Payers[r]] EXCEPT ![1] = @ + Cost(r)]
            = [m \in 1..1 |-> spent[Payers[r]] + Cost(r)]
        BY <2>1
    <2>5. Balances' = [Balances EXCEPT ![Payers[r]] =
                            [Balances[Payers[r]] EXCEPT ![1] = @ + Cost(r)]]
        BY <2>2, <2>3, <2>4 DEF Balances
    <2> QED BY <1>7, <1>8, <2>1, <2>5
<1> QED BY <1>7, <1>9
        DEF Account!Post, Account!Move, Account!Balance, Standing, Balances, Payers,
            Bills, BillOf

\* The other steps are nothing to the ledger.
LEMMA OthersUnseen ==
    ASSUME LedgerInv, NEW r \in Requests,
           \/ Limit(r) \/ RouteFails(r) \/ Miss(r) \/ LoadSpend(r) \/ LoadNothing(r)
           \/ Save(r) \/ Log(r)
    PROVE  UNCHANGED Account!vars
<1>1. /\ UNCHANGED <<config, model, provider, original, answered, reused, charged, spent>>
      /\ \E l : /\ pc' = [pc EXCEPT ![r] = l]
                /\ \/ pc[r] = "new" /\ l = "refused"
                   \/ pc[r] = "cleared" /\ l \in {"streaming", "calling"}
                   \/ /\ pc[r] = "charging"
                      /\ l = IF ask[r].team \in Budgeted /\ Cost(r) > 0 THEN "recording"
                             ELSE "saving"
                   \/ pc[r] \in {"saving", "logging"} /\ l \in {"logging", "served"}
    BY DEF Limit, RouteFails, Miss, LoadSpend, LoadNothing, Recorded, Save, Log, Goto, books,
           spend, LedgerInv, Calm
<1>2. /\ StepOf(r)
      /\ \/ pc[r] = "new" /\ pc'[r] = "refused"
         \/ pc[r] = "cleared" /\ pc'[r] \in {"streaming", "calling"}
         \/ /\ pc[r] = "charging"
            /\ pc'[r] = IF ask[r].team \in Budgeted /\ Cost(r) > 0 THEN "recording" ELSE "saving"
         \/ pc[r] \in {"saving", "logging"} /\ pc'[r] \in {"logging", "served"}
    BY <1>1 DEF LedgerInv, IInv, TypeOK, StepOf, Same, config
<1>3. StatusOf(r)' = StatusOf(r)
    BY <1>1, <1>2, StatusOfStage DEF StatusOf, LedgerInv, NewInv
<1>4. BillOf(r)' = BillOf(r)
    BY <1>1 DEF BillOf, Own, Cost
<1> QED BY <1>1, <1>2, <1>3, <1>4, StaysPut

\* Every step is one of the ledger's, or nothing to it.
LEMMA LedgerStep ==
    LedgerInv /\ Apart /\ Fitting' /\ [Next]_vars => [Account!Next]_(Account!vars)
<1> SUFFICES ASSUME LedgerInv, Apart, Fitting', [Next]_vars PROVE [Account!Next]_(Account!vars)
    OBVIOUS
<1>1. ASSUME NEW r \in Requests, CheckFails(r) \/ ChargeFails(r) \/ LogFails(r) PROVE FALSE
    BY <1>1 DEF CheckFails, ChargeFails, LogFails, LedgerInv, Calm
<1>2. CASE UNCHANGED vars
    <2>1. /\ Standing' = Standing /\ Bills' = Bills
        BY <1>2 DEF vars, Standing, StatusOf, Recorded, Bills, BillOf, Own, Cost
    <2> QED BY <1>2, <2>1 DEF vars, Account!vars, Standing, Bills, BillOf
<1> QED
    BY <1>1, <1>2, RouteOpens, VerdictMoves, UnbilledFails, ExecuteBills, ChargePosts,
       OthersUnseen
       DEF Next, Quiescent, Account!Next

\* Nobody has called.
LEMMA LedgerInit == Init => Account!Init
<1> SUFFICES ASSUME Init PROVE Account!Init
    OBVIOUS
<1>1. Standing = [r \in Requests |-> "new"]
    BY DEF Init, Standing, StatusOf
<1>2. Bills = [r \in Requests |-> 0]
    BY DEF Init, Bills, BillOf, Own
<1>3. Balances = [t \in Budgeted \cup {None} |-> [m \in 1..1 |-> 0]]
    BY DEF Init, Balances
<1>4. Payers \in [Requests -> Budgeted \cup {None}]
    BY GatewayAssumption DEF Init, Payers
<1> QED BY <1>1, <1>2, <1>3, <1>4
        DEF Account!Init, Standing, Bills, Balances, Payers, BillOf

\* What makes the ledger's view of a call right is kept.
LEMMA LedgerInvStep == LedgerInv /\ [Next]_vars => LedgerInv'
<1> SUFFICES ASSUME LedgerInv, [Next]_vars PROVE LedgerInv'
    OBVIOUS
<1>1. IInv'
    BY InvStep DEF LedgerInv
<1>2. UNCHANGED config
    BY DEF Next, Quiescent, vars, config, Limit, Route, RouteFails, Refuse, Downgrade, Clear,
           CheckFails, Hit, Miss, Stream, StreamFails, Execute, ExecuteFails, LoadSpend,
           LoadNothing, Charge, ChargeFails, Save, Log, LogFails, spend, books
<1>3. NewInv'
    <2>1. ASSUME NEW r \in Requests, UNCHANGED provider,
                 NEW l, l # "new", pc' = [pc EXCEPT ![r] = l]
          PROVE  NewInv'
        BY <2>1 DEF LedgerInv, NewInv, IInv, TypeOK
    <2>2. ASSUME NEW r \in Requests, Route(r) PROVE NewInv'
        BY <2>2 DEF LedgerInv, NewInv, IInv, TypeOK, Route, Goto
    <2>3. CASE UNCHANGED vars
        BY <2>3 DEF LedgerInv, NewInv, vars
    <2>4. ASSUME NEW r \in Requests,
                 \/ Limit(r) \/ RouteFails(r) \/ Refuse(r) \/ Downgrade(r) \/ Clear(r)
                 \/ CheckFails(r) \/ Hit(r) \/ Miss(r) \/ Stream(r) \/ StreamFails(r)
                 \/ Execute(r) \/ ExecuteFails(r) \/ LoadSpend(r) \/ LoadNothing(r)
                 \/ Charge(r) \/ ChargeFails(r) \/ Save(r) \/ Log(r) \/ LogFails(r)
          PROVE  /\ UNCHANGED provider
                 /\ \E l : l # "new" /\ pc' = [pc EXCEPT ![r] = l]
        BY <2>4 DEF Goto, Limit, RouteFails, Refuse, Downgrade, Clear, CheckFails, Hit, Miss,
                    Stream, StreamFails, Execute, ExecuteFails, LoadSpend, LoadNothing,
                    Charge, ChargeFails, Save, Log, LogFails
    <2> QED BY <2>1, <2>2, <2>3, <2>4 DEF Next, Quiescent
<1>4. RecordingInv'
    BY RecordingStep DEF LedgerInv
<1> QED BY <1>1, <1>2, <1>3, <1>4 DEF LedgerInv, Calm, config

\* The whole handler, for any number of calls that overlap as they like, except that no two
\* calls of a team are recorded at a time: with enforcement switched on and nothing failing,
\* and as long as the figures fit, a call is let through exactly while its team has room, and
\* its bill, at the price of the model in the request, is posted once and as a whole; cached,
\* streamed, refused and failed calls are not billed.
THEOREM HandlerImplementsLedger ==
    /\ Spec /\ ~faulty /\ "budget" \in flags
    /\ [](\A t \in Budgeted : spent[t] <= MaxSpent)
    /\ [](overlapped = {})
    => ImplementsLedger
<1>1. Init /\ ~faulty /\ "budget" \in flags => LedgerInv
    <2>1. Init /\ "budget" \in flags => NewInv /\ RecordingInv /\ rows = Budgeted
        BY DEF Init, NewInv, RecordingInv
    <2> QED BY <2>1, InvInit DEF LedgerInv, Calm
<1>2. LedgerInv /\ [Next]_vars => LedgerInv'
    BY LedgerInvStep
<1>3. Spec /\ ~faulty /\ "budget" \in flags => []LedgerInv
    BY <1>1, <1>2, PTL DEF Spec
<1>4. Spec /\ ~faulty /\ "budget" \in flags /\ []Fitting /\ []Apart => Account!Spec
    BY <1>3, LedgerInit, LedgerStep, PTL DEF Spec, Account!Spec
<1> QED BY <1>4 DEF Fitting, Apart, ImplementsLedger
=============================================================================
