------------------------- MODULE SemanticCacheProofs -------------------------
(***************************************************************************)
(* Proofs about SemanticCache, for every number of requests, replicas and  *)
(* restarts, every prompt and every similarity of prompts.  Where a vector *)
(* stands for its row, and what follows from it, is proved for embedding   *)
(* models of one dimension: with two it is false.                          *)
(***************************************************************************)
EXTENDS SemanticCache, FiniteSetTheorems, SequenceTheorems, TLAPS

-----------------------------------------------------------------------------
(* The inductive invariant.                                                *)

\* A replica that keeps an index has an embedding model, and a handler that waits for
\* rows or saves one runs on such a replica.
ReplicaInv ==
    /\ \A p \in Replicas : initialized[p] => dim[p] # 0
    /\ \A r \in Requests :
        pc[r] \in {"preloading", "storing", "indexing"} => initialized[host[r]]

\* Every vector has an id, though not every id has a vector.
LengthInv == \A p \in Replicas : Len(index[p]) <= Len(db_ids[p])

\* What is cached under a key was generated for a call with that key.
RedisInv == \A k \in Keys : redis[k] # None => work[redis[k]] = k

\* A saved response, one about to be indexed included, has its row.
RowInv == \A r \in Requests : pc[r] \in {"indexing", "saved"} => r \in DOMAIN table

BaseInv == TypeOK /\ ReplicaInv /\ LengthInv /\ RedisInv /\ RowInv

\* The neighbour that is about to be loaded is alike.
FoundInv ==
    \A r \in Requests :
        pc[r] = "fetching" =>
            found[r] \in Requests /\ <<Prompt(r), Prompt(found[r])>> \in Alike

IInv == BaseInv /\ Aligned /\ FoundInv /\ HitIsRelevant /\ SavedIsFindable

\* The embedding models that get configured all have one dimension.
OneDimension == \A d, e \in Dims \ {0} : d = e

-----------------------------------------------------------------------------
(* The embedding provider of a replica.                                    *)

\* The search for an alternative when the configured embedding provider cannot be used
\* finds none, whatever is installed and whichever keys are set: a process has the one
\* that is configured or no second tier.
THEOREM FallbackFindsNothing ==
    \A env \in Environments :
        active_provider(env) =
            IF env.EMBEDDING_PROVIDER \in env.usable THEN env.EMBEDDING_PROVIDER
            ELSE NoProvider
<1> TAKE env \in Environments
<1> DEFINE configured ==
               {i \in HaveInstance(env) : EmbeddingProviders[i] = env.EMBEDDING_PROVIDER}
<1>1. configured = HaveInstance(env)
    BY DEF HaveInstance, from_env
<1>2. HaveInstance(env) # {} <=> env.EMBEDDING_PROVIDER \in env.usable
    <2>1. env.usable \subseteq {EmbeddingProviders[i] : i \in DOMAIN EmbeddingProviders}
        BY DEF Environments, ToSet
    <2> QED BY <2>1 DEF HaveInstance, from_env
<1> QED BY <1>1, <1>2 DEF active_provider

-----------------------------------------------------------------------------
(* Sequences of rows.                                                      *)

\* The rows arrive in some order, every one of them once.
LEMMA RowsArrive ==
    ASSUME NEW T, IsFiniteSet(T), NEW s \in RowsOf(T)
    PROVE  s \in Seq(T) /\ ToSet(s) = T
<1> DEFINE D == 1..Cardinality(T)
<1>1. Cardinality(T) \in Nat
    BY FS_CardinalityType
<1>2. s \in [D -> T] /\ \A i, j \in D : i # j => s[i] # s[j]
    BY DEF RowsOf, SetToSeqs
<1>3. IsFiniteSet(D) /\ Cardinality(D) = Cardinality(T)
    BY <1>1, FS_Interval
<1>4. s \in Injection(D, T)
    BY <1>2 DEF Injection, IsInjective
<1>5. s \in Surjection(D, T)
    BY <1>3, <1>4, FS_Injection
<1>6. \A t \in T : \E i \in D : s[i] = t
    BY <1>5 DEF Surjection
<1>7. s \in Seq(T)
    BY <1>1, <1>2, SeqDef
<1> QED BY <1>2, <1>6, <1>7 DEF ToSet

\* What follows another sequence is behind it and takes nothing from it.
LEMMA ConcatElements ==
    ASSUME NEW T, NEW s \in Seq(T), NEW t \in Seq(T)
    PROVE  /\ s \o t \in Seq(T)
           /\ ToSet(s \o t) = ToSet(s) \cup ToSet(t)
           /\ Len(s \o t) = Len(s) + Len(t)
<1>1. /\ s \o t \in Seq(T) /\ Len(s \o t) = Len(s) + Len(t)
      /\ \A i \in 1..(Len(s) + Len(t)) :
            (s \o t)[i] = IF i <= Len(s) THEN s[i] ELSE t[i - Len(s)]
    BY ConcatProperties
<1>2. Len(s) \in Nat /\ Len(t) \in Nat /\ DOMAIN s = 1..Len(s) /\ DOMAIN t = 1..Len(t)
        /\ DOMAIN (s \o t) = 1..(Len(s) + Len(t))
    BY <1>1, LenProperties
<1>3. ToSet(s \o t) \subseteq ToSet(s) \cup ToSet(t)
    BY <1>1, <1>2 DEF ToSet
<1>4. ToSet(s) \subseteq ToSet(s \o t)
    BY <1>1, <1>2 DEF ToSet
<1>5. \A i \in 1..Len(t) : t[i] = (s \o t)[Len(s) + i]
    BY <1>1, <1>2
<1>6. ToSet(t) \subseteq ToSet(s \o t)
    <2>1. \A i \in 1..Len(t) : Len(s) + i \in DOMAIN (s \o t)
        BY <1>2
    <2> QED BY <1>2, <1>5, <2>1 DEF ToSet
<1> QED BY <1>1, <1>3, <1>4, <1>6

\* An element appended is one more.
LEMMA AppendElements ==
    ASSUME NEW T, NEW s \in Seq(T), NEW t \in T
    PROVE  /\ Append(s, t) \in Seq(T)
           /\ ToSet(Append(s, t)) = ToSet(s) \cup {t}
           /\ Len(Append(s, t)) = Len(s) + 1
<1>1. /\ Append(s, t) \in Seq(T) /\ Len(Append(s, t)) = Len(s) + 1
      /\ DOMAIN s = 1..Len(s) /\ DOMAIN Append(s, t) = 1..(Len(s) + 1) /\ Len(s) \in Nat
      /\ \A i \in 1..Len(s) : Append(s, t)[i] = s[i]
      /\ Append(s, t)[Len(s) + 1] = t
    BY LenProperties
<1> QED BY <1>1 DEF ToSet

-----------------------------------------------------------------------------
(* The part of the invariant that holds for embeddings of any dimensions.  *)

\* A call has a prompt, and a key.
LEMMA WorkType ==
    ASSUME TypeOK, NEW r \in Requests
    PROVE  work[r] \in Keys /\ Prompt(r) \in Prompts /\ KeyOf(r) \in Keys
BY RequestsAssumption DEF TypeOK, Keys, Prompt, KeyOf

\* A lookup ends with the exact match, at the provider, or with a search to come.
LEMMA LookupEffect ==
    ASSUME TypeOK, RedisInv, NEW r \in Requests, NEW ix, Lookup(r, ix)
    PROVE  /\ pc' \in [Requests -> {"idle"} \cup InFlight \cup Over]
           /\ answer' \in [Requests -> Requests \cup {None}]
           /\ \A q \in Requests \ {r} : pc'[q] = pc[q] /\ answer'[q] = answer[q]
           /\ pc'[r] \in {"hit", "calling", "embedding"}
           /\ pc'[r] = "hit" => answer'[r] \in Requests /\ work[answer'[r]] = work[r]
<1> USE DEF InFlight, Over
<1>1. KeyOf(r) \in Keys /\ redis[KeyOf(r)] \in Requests \cup {None}
    BY WorkType DEF TypeOK
<1>2. CASE redis[KeyOf(r)] # None /\ Serve(r, redis[KeyOf(r)])
    BY <1>1, <1>2 DEF Serve, Goto, TypeOK, RedisInv, KeyOf
<1>3. CASE /\ Goto(r, IF ix = <<>> THEN "calling" ELSE "embedding")
           /\ UNCHANGED answer
    BY <1>3 DEF Goto, TypeOK
<1> QED BY <1>2, <1>3 DEF Lookup

\* Of the handlers' positions a step changes its own only.
LEMMA GotoEffect ==
    ASSUME TypeOK, NEW r \in Requests, NEW l \in {"idle"} \cup InFlight \cup Over, Goto(r, l)
    PROVE  /\ pc' \in [Requests -> {"idle"} \cup InFlight \cup Over]
           /\ pc'[r] = l
           /\ \A q \in Requests \ {r} : pc'[q] = pc[q]
BY DEF TypeOK, Goto

\* A handler that moves on, whatever else it has found or returned, leaves the first
\* part of the invariant as it was unless it starts a preload or saved something.
LEMMA HandlerMoves ==
    ASSUME BaseInv, NEW r \in Requests,
           UNCHANGED <<external, redis, table, initialized, index, db_ids>>,
           found' \in [Requests -> Requests \cup {None}],
           answer' \in [Requests -> Requests \cup {None}],
           pc' \in [Requests -> {"idle"} \cup InFlight \cup Over],
           \A q \in Requests \ {r} : pc'[q] = pc[q],
           pc'[r] \in {"embedding", "fetching", "calling", "hit", "done", "failed"}
    PROVE  BaseInv'
<1>1. TypeOK'
    BY DEF BaseInv, TypeOK, external
<1>2. ReplicaInv'
    BY DEF BaseInv, ReplicaInv, external
<1>3. LengthInv' /\ RedisInv' /\ RowInv'
    BY DEF BaseInv, LengthInv, RedisInv, RowInv, external
<1> QED BY <1>1, <1>2, <1>3 DEF BaseInv

\* The rows of the table, in the order they arrive.
LEMMA PreloadedRows ==
    ASSUME BaseInv, NEW s \in RowsOf(DOMAIN table)
    PROVE  s \in Seq(Requests) /\ ToSet(s) = DOMAIN table
<1>1. IsFiniteSet(DOMAIN table) /\ DOMAIN table \subseteq Requests
    BY RequestsAssumption, FS_Subset DEF BaseInv, TypeOK
<1>2. s \in Seq(DOMAIN table) /\ ToSet(s) = DOMAIN table
    BY <1>1, RowsArrive
<1>3. Seq(DOMAIN table) \subseteq Seq(Requests)
    BY <1>1
<1> QED BY <1>2, <1>3

\* Without any row or vector, and before any request.
LEMMA BaseInit ==
    ASSUME Init
    PROVE  BaseInv
<1>1. TypeOK
    BY ReplicasAssumption DEF Init, TypeOK
<1>2. ReplicaInv /\ LengthInv /\ RedisInv /\ RowInv
    BY DEF Init, ReplicaInv, LengthInv, RedisInv, RowInv
<1> QED BY <1>1, <1>2 DEF BaseInv

\* The rows that arrive lengthen the list, and the index if they fit it.
LEMMA PreloadKeepsBase ==
    ASSUME BaseInv, NEW r \in Requests, Preload(r)
    PROVE  BaseInv'
<1> DEFINE p == host[r]
<1>1. PICK s \in RowsOf(DOMAIN table) :
        /\ db_ids' = [db_ids EXCEPT ![p] = Listed(@, s)]
        /\ index' = [index EXCEPT ![p] = IF VectorsFit(p, s) THEN @ \o s ELSE @]
    BY DEF Preload
<1>2. /\ pc[r] = "preloading" /\ Lookup(r, index'[p])
      /\ UNCHANGED <<external, redis, table, initialized, found>>
    BY DEF Preload
<1>3. TypeOK /\ RedisInv /\ p \in Replicas /\ s \in Seq(Requests)
        /\ index \in [Replicas -> Seq(Requests)] /\ db_ids \in [Replicas -> Seq(Requests)]
    BY PreloadedRows DEF BaseInv, TypeOK
<1>4. /\ pc' \in [Requests -> {"idle"} \cup InFlight \cup Over]
      /\ answer' \in [Requests -> Requests \cup {None}]
      /\ \A q \in Requests \ {r} : pc'[q] = pc[q]
      /\ pc'[r] \in {"hit", "calling", "embedding"}
    BY <1>2, <1>3, LookupEffect
<1>5. /\ db_ids[p] \o s \in Seq(Requests) /\ index[p] \o s \in Seq(Requests)
      /\ Len(db_ids[p] \o s) = Len(db_ids[p]) + Len(s)
      /\ Len(index[p] \o s) = Len(index[p]) + Len(s)
    BY <1>3, ConcatElements
<1>6. index' \in [Replicas -> Seq(Requests)] /\ db_ids' \in [Replicas -> Seq(Requests)]
    BY <1>1, <1>3, <1>5 DEF Listed
<1>7. TypeOK'
    BY <1>2, <1>3, <1>4, <1>6 DEF TypeOK, external
<1>8. ReplicaInv' /\ RedisInv' /\ RowInv'
    BY <1>2, <1>4 DEF BaseInv, ReplicaInv, RedisInv, RowInv, external
<1>9. LengthInv'
    <2>1. \A q \in Replicas \ {p} : index'[q] = index[q] /\ db_ids'[q] = db_ids[q]
        BY <1>1, <1>3
    <2>2. db_ids'[p] = db_ids[p] \o s /\ index'[p] \in {index[p] \o s, index[p]}
        BY <1>1, <1>3 DEF Listed
    <2>3. Len(s) \in Nat /\ Len(index[p]) \in Nat /\ Len(db_ids[p]) \in Nat
        BY <1>3
    <2>4. Len(index'[p]) <= Len(db_ids'[p])
        BY <1>3, <1>5, <2>2, <2>3 DEF BaseInv, LengthInv
    <2> QED BY <2>1, <2>4 DEF BaseInv, LengthInv
<1> QED BY <1>7, <1>8, <1>9 DEF BaseInv

\* A vector and its id are appended together.
LEMMA IndexEntryKeepsBase ==
    ASSUME BaseInv, NEW r \in Requests, IndexEntry(r)
    PROVE  BaseInv'
<1> DEFINE p == host[r]
<1>1. /\ p \in Replicas /\ r \in DOMAIN table /\ TypeOK
      /\ index \in [Replicas -> Seq(Requests)] /\ db_ids \in [Replicas -> Seq(Requests)]
    BY DEF IndexEntry, BaseInv, TypeOK, RowInv
<1>2. /\ pc' \in [Requests -> {"idle"} \cup InFlight \cup Over]
      /\ pc'[r] = "saved"
      /\ \A q \in Requests \ {r} : pc'[q] = pc[q]
    BY <1>1, GotoEffect DEF IndexEntry, Over
<1>3. /\ Append(index[p], r) \in Seq(Requests) /\ Append(db_ids[p], r) \in Seq(Requests)
      /\ Len(Append(index[p], r)) = Len(index[p]) + 1
      /\ Len(Append(db_ids[p], r)) = Len(db_ids[p]) + 1
    BY <1>1, AppendElements
<1>4. TypeOK'
    BY <1>1, <1>2, <1>3 DEF IndexEntry, SavedId, TypeOK, external
<1>5. ReplicaInv' /\ RedisInv' /\ RowInv'
    BY <1>1, <1>2 DEF IndexEntry, BaseInv, ReplicaInv, RedisInv, RowInv, external
<1>6. LengthInv'
    <2>1. \A q \in Replicas \ {p} : index'[q] = index[q] /\ db_ids'[q] = db_ids[q]
        BY <1>1 DEF IndexEntry
    <2>2. index'[p] = Append(index[p], r) /\ db_ids'[p] = Append(db_ids[p], r)
        BY <1>1 DEF IndexEntry, SavedId
    <2>3. Len(index[p]) \in Nat /\ Len(db_ids[p]) \in Nat
        BY <1>1
    <2>4. Len(index'[p]) <= Len(db_ids'[p])
        BY <1>1, <1>3, <2>2, <2>3 DEF BaseInv, LengthInv
    <2> QED BY <2>1, <2>4 DEF BaseInv, LengthInv
<1> QED BY <1>4, <1>5, <1>6 DEF BaseInv

\* A restart empties the index and the list, and ends the handlers of the replica.
LEMMA RestartKeepsBase ==
    ASSUME BaseInv, NEW p \in Replicas, Restart(p)
    PROVE  BaseInv'
<1>1. PICK d \in Dims : dim' = [dim EXCEPT ![p] = d]
    BY DEF Restart
<1>2. /\ index' = [index EXCEPT ![p] = <<>>] /\ db_ids' = [db_ids EXCEPT ![p] = <<>>]
      /\ initialized' = [initialized EXCEPT ![p] = FALSE]
      /\ restarts < MaxRestarts /\ restarts' = restarts + 1
      /\ pc' = [r \in Requests |->
                    IF host[r] = p /\ pc[r] \in InFlight THEN "failed" ELSE pc[r]]
      /\ UNCHANGED <<faulty, work, host, redis, table, found, answer>>
    BY DEF Restart
<1>3. TypeOK
    BY DEF BaseInv
<1>4. TypeOK'
    <2>1. restarts' \in 0..MaxRestarts
        BY <1>2, <1>3, ReplicasAssumption DEF TypeOK
    <2>2. pc' \in [Requests -> {"idle"} \cup InFlight \cup Over]
        BY <1>2, <1>3 DEF TypeOK, Over
    <2>3. dim' \in [Replicas -> Dims] /\ initialized' \in [Replicas -> BOOLEAN]
        BY <1>1, <1>2, <1>3 DEF TypeOK
    <2>4. index' \in [Replicas -> Seq(Requests)] /\ db_ids' \in [Replicas -> Seq(Requests)]
        BY <1>2, <1>3 DEF TypeOK
    <2> QED BY <1>2, <1>3, <2>1, <2>2, <2>3, <2>4 DEF TypeOK
<1>5. ReplicaInv'
    BY <1>1, <1>2, <1>3 DEF BaseInv, ReplicaInv, TypeOK, InFlight
<1>6. LengthInv'
    BY <1>2, <1>3 DEF BaseInv, LengthInv, TypeOK
<1>7. RedisInv' /\ RowInv'
    BY <1>2 DEF BaseInv, RedisInv, RowInv
<1> QED BY <1>4, <1>5, <1>6, <1>7 DEF BaseInv

\* One step per action.
LEMMA BaseStep ==
    ASSUME BaseInv, [Next]_vars
    PROVE  BaseInv'
<1>1. TypeOK /\ ReplicaInv /\ RedisInv /\ RowInv
    BY DEF BaseInv
<1>2. ASSUME NEW r \in Requests, StartBypassing(r)
      PROVE  BaseInv'
    BY <1>1, <1>2, GotoEffect, HandlerMoves DEF StartBypassing, InFlight, TypeOK
<1>3. ASSUME NEW r \in Requests, StartLookup(r)
      PROVE  BaseInv'
    <2>1. /\ Lookup(r, index[host[r]])
          /\ UNCHANGED <<external, redis, table, initialized, index, db_ids, found>>
        BY <1>3 DEF StartLookup
    <2>2. /\ pc' \in [Requests -> {"idle"} \cup InFlight \cup Over]
          /\ answer' \in [Requests -> Requests \cup {None}]
          /\ \A q \in Requests \ {r} : pc'[q] = pc[q]
          /\ pc'[r] \in {"hit", "calling", "embedding"}
        BY <1>1, <2>1, LookupEffect
    <2>3. found' \in [Requests -> Requests \cup {None}]
        BY <1>1, <2>1 DEF TypeOK
    <2> QED BY <2>1, <2>2, <2>3, HandlerMoves
<1>4. ASSUME NEW r \in Requests, StartPreload(r)
      PROVE  BaseInv'
    <2>1. /\ pc' \in [Requests -> {"idle"} \cup InFlight \cup Over]
          /\ pc'[r] = "preloading"
          /\ \A q \in Requests \ {r} : pc'[q] = pc[q]
        BY <1>1, <1>4, GotoEffect DEF StartPreload, InFlight
    <2>2. /\ UNCHANGED <<external, redis, table, index, db_ids, found, answer>>
          /\ initialized' = [initialized EXCEPT ![host[r]] = TRUE]
          /\ dim[host[r]] # 0 /\ host[r] \in Replicas
        BY <1>1, <1>4 DEF StartPreload, TypeOK
    <2>3. TypeOK'
        BY <1>1, <2>1, <2>2 DEF TypeOK, external
    <2>4. ReplicaInv' /\ LengthInv' /\ RedisInv' /\ RowInv'
        BY <1>1, <2>1, <2>2
           DEF BaseInv, TypeOK, ReplicaInv, LengthInv, RedisInv, RowInv, external
    <2> QED BY <2>3, <2>4 DEF BaseInv
<1>5. ASSUME NEW r \in Requests, Preload(r)
      PROVE  BaseInv'
    BY <1>5, PreloadKeepsBase
<1>6. ASSUME NEW r \in Requests, PreloadFails(r)
      PROVE  BaseInv'
    <2>1. /\ Lookup(r, index[host[r]])
          /\ UNCHANGED <<external, redis, table, initialized, index, db_ids, found>>
        BY <1>6 DEF PreloadFails
    <2>2. /\ pc' \in [Requests -> {"idle"} \cup InFlight \cup Over]
          /\ answer' \in [Requests -> Requests \cup {None}]
          /\ \A q \in Requests \ {r} : pc'[q] = pc[q]
          /\ pc'[r] \in {"hit", "calling", "embedding"}
        BY <1>1, <2>1, LookupEffect
    <2>3. found' \in [Requests -> Requests \cup {None}]
        BY <1>1, <2>1 DEF TypeOK
    <2> QED BY <2>1, <2>2, <2>3, HandlerMoves
<1>7. ASSUME NEW r \in Requests, Search(r)
      PROVE  BaseInv'
    <2> DEFINE p == host[r]
    <2>1. UNCHANGED <<external, redis, table, initialized, index, db_ids, answer>>
        BY <1>7 DEF Search
    <2>2. answer' \in [Requests -> Requests \cup {None}]
        BY <1>1, <2>1 DEF TypeOK
    <2>3. CASE \E i \in Nearest(r, index[p]) :
                /\ found' = [found EXCEPT ![r] = db_ids[p][i]]
                /\ Goto(r, "fetching")
        <3>1. PICK i \in Nearest(r, index[p]) :
                /\ found' = [found EXCEPT ![r] = db_ids[p][i]]
                /\ Goto(r, "fetching")
            BY <2>3
        <3>2. /\ p \in Replicas /\ index[p] \in Seq(Requests) /\ db_ids[p] \in Seq(Requests)
              /\ Len(index[p]) <= Len(db_ids[p])
            BY <1>1 DEF TypeOK, BaseInv, LengthInv
        <3>3. i \in DOMAIN index[p]
            BY <3>1 DEF Nearest
        <3>4. db_ids[p][i] \in Requests
            BY <3>2, <3>3
        <3>5. found' \in [Requests -> Requests \cup {None}]
            BY <1>1, <3>1, <3>4 DEF TypeOK
        <3> QED BY <1>1, <2>1, <2>2, <3>1, <3>5, GotoEffect, HandlerMoves DEF InFlight
    <2>4. CASE Goto(r, "calling") /\ UNCHANGED found
        BY <1>1, <2>1, <2>2, <2>4, GotoEffect, HandlerMoves DEF InFlight, TypeOK
    <2> QED BY <1>7, <2>3, <2>4 DEF Search
<1>8. ASSUME NEW r \in Requests, Fetch(r)
      PROVE  BaseInv'
    <2>1. answer' \in [Requests -> Requests \cup {None}]
        BY <1>1, <1>8 DEF Fetch, Serve, TypeOK
    <2>2. found' \in [Requests -> Requests \cup {None}]
        BY <1>1, <1>8 DEF Fetch, TypeOK
    <2> QED BY <1>1, <1>8, <2>1, <2>2, GotoEffect, HandlerMoves DEF Fetch, Serve, Over
<1>9. ASSUME NEW r \in Requests, LookupFails(r)
      PROVE  BaseInv'
    BY <1>1, <1>9, GotoEffect, HandlerMoves DEF LookupFails, InFlight, TypeOK
<1>10. ASSUME NEW r \in Requests, Complete(r)
       PROVE  BaseInv'
    <2>1. /\ UNCHANGED <<external, table, initialized, index, db_ids, found, answer>>
          /\ redis' \in {redis, [redis EXCEPT ![KeyOf(r)] = r]}
        BY <1>10 DEF Complete
    <2>2. KeyOf(r) \in Keys
        BY <1>1, WorkType
    <2>3. /\ pc' \in [Requests -> {"idle"} \cup InFlight \cup Over]
          /\ pc'[r] \in {"storing", "done"}
          /\ pc'[r] = "storing" => initialized[host[r]]
          /\ \A q \in Requests \ {r} : pc'[q] = pc[q]
        BY <1>1, <1>10, GotoEffect DEF Complete, InFlight, Over
    <2>4. TypeOK'
        BY <1>1, <2>1, <2>2, <2>3 DEF TypeOK, external
    <2>5. RedisInv'
        <3>1. work' = work /\ work[r] = KeyOf(r)
            BY <2>1 DEF external, KeyOf
        <3>2. CASE redis' = redis
            BY <1>1, <3>1, <3>2 DEF RedisInv, Keys
        <3>3. CASE redis' = [redis EXCEPT ![KeyOf(r)] = r]
            <4>1. /\ redis'[KeyOf(r)] = r
                  /\ \A k \in Keys \ {KeyOf(r)} : redis'[k] = redis[k]
                BY <1>1, <2>2, <3>3 DEF TypeOK
            <4> QED BY <1>1, <3>1, <4>1 DEF RedisInv, Keys
        <3> QED BY <2>1, <3>2, <3>3
    <2>6. ReplicaInv' /\ LengthInv' /\ RowInv'
        BY <1>1, <2>1, <2>3 DEF BaseInv, ReplicaInv, LengthInv, RowInv, external
    <2> QED BY <2>4, <2>5, <2>6 DEF BaseInv
<1>11. ASSUME NEW r \in Requests, CallFails(r)
       PROVE  BaseInv'
    BY <1>1, <1>11, GotoEffect, HandlerMoves DEF CallFails, Over, TypeOK
<1>12. ASSUME NEW r \in Requests, Insert(r)
       PROVE  BaseInv'
    <2>1. /\ UNCHANGED <<external, redis, initialized, index, db_ids, found, answer>>
          /\ table' = [e \in DOMAIN table \cup {r} |->
                          IF e = r THEN dim[host[r]] ELSE table[e]]
          /\ dim[host[r]] \in Dims \ {0} /\ initialized[host[r]]
        BY <1>1, <1>12 DEF Insert, TypeOK, ReplicaInv
    <2>2. /\ pc' \in [Requests -> {"idle"} \cup InFlight \cup Over]
          /\ pc'[r] = "indexing"
          /\ \A q \in Requests \ {r} : pc'[q] = pc[q]
        BY <1>1, <1>12, GotoEffect DEF Insert, InFlight
    <2>3. TypeOK'
        BY <1>1, <2>1, <2>2 DEF TypeOK, external
    <2>4. ReplicaInv' /\ LengthInv' /\ RedisInv' /\ RowInv'
        BY <1>1, <2>1, <2>2 DEF BaseInv, ReplicaInv, LengthInv, RedisInv, RowInv, external
    <2> QED BY <2>3, <2>4 DEF BaseInv
<1>13. ASSUME NEW r \in Requests, IndexEntry(r)
       PROVE  BaseInv'
    BY <1>13, IndexEntryKeepsBase
<1>14. ASSUME NEW r \in Requests, SaveFails(r)
       PROVE  BaseInv'
    BY <1>1, <1>14, GotoEffect, HandlerMoves DEF SaveFails, Over, TypeOK
<1>15. ASSUME NEW k \in Keys, Expire(k)
       PROVE  BaseInv'
    <2>1. TypeOK'
        BY <1>1, <1>15 DEF Expire, TypeOK, external
    <2>2. ReplicaInv' /\ LengthInv' /\ RedisInv' /\ RowInv'
        BY <1>1, <1>15
           DEF Expire, BaseInv, TypeOK, ReplicaInv, LengthInv, RedisInv, RowInv, external
    <2> QED BY <2>1, <2>2 DEF BaseInv
<1>16. ASSUME NEW p \in Replicas, Restart(p)
       PROVE  BaseInv'
    BY <1>16, RestartKeepsBase
<1>17. CASE UNCHANGED vars
    BY <1>17
       DEF vars, BaseInv, TypeOK, ReplicaInv, LengthInv, RedisInv, RowInv, Keys
<1> QED
    BY <1>2, <1>3, <1>4, <1>5, <1>6, <1>7, <1>8, <1>9, <1>10, <1>11, <1>12, <1>13, <1>14,
       <1>15, <1>16, <1>17
       DEF Next, RequestStep, Quiescent

\* Whatever the dimensions of the embedding models, the state stays well formed, the
\* requests and the replicas being as many as they like.
THEOREM Typed == Spec => []TypeOK
<1>1. Init => BaseInv
    BY BaseInit
<1>2. BaseInv /\ [Next]_vars => BaseInv'
    BY BaseStep
<1>3. BaseInv => TypeOK
    BY DEF BaseInv
<1> QED BY <1>1, <1>2, <1>3, PTL DEF Spec

-----------------------------------------------------------------------------
(* With embedding models of one dimension.                                 *)

\* Nothing is alike or saved before any request.
LEMMA InvInit ==
    ASSUME Init
    PROVE  IInv
<1>1. BaseInv
    BY BaseInit
<1>2. Aligned /\ FoundInv /\ HitIsRelevant /\ SavedIsFindable
    BY DEF Init, Aligned, FoundInv, HitIsRelevant, SavedIsFindable
<1> QED BY <1>1, <1>2 DEF IInv

\* What was returned and what is about to be loaded stays alike while its handler waits.
LEMMA RelevantKept ==
    ASSUME FoundInv, HitIsRelevant, NEW r \in Requests, UNCHANGED external,
           \A q \in Requests \ {r} :
                pc'[q] = pc[q] /\ answer'[q] = answer[q] /\ found'[q] = found[q],
           pc'[r] \notin {"hit", "fetching"}
    PROVE  FoundInv' /\ HitIsRelevant'
<1>1. work' = work
    BY DEF external
<1>2. FoundInv'
    BY <1>1 DEF FoundInv, Prompt
<1>3. HitIsRelevant'
    BY <1>1 DEF HitIsRelevant, Prompt
<1> QED BY <1>2, <1>3

\* What was saved stays findable while no rows arrive and nothing is saved.
LEMMA FindableKept ==
    ASSUME SavedIsFindable, NEW r \in Requests, UNCHANGED <<external, initialized, index>>,
           \A q \in Requests \ {r} : pc'[q] = pc[q],
           pc'[r] # "saved",
           pc[r] = "preloading" => faulty
    PROVE  SavedIsFindable'
BY DEF SavedIsFindable, external

\* A step of a handler that waits neither for rows nor returns a cached response.
LEMMA QuietStep ==
    ASSUME IInv, BaseInv', NEW r \in Requests,
           NEW l \in {"idle"} \cup InFlight \cup Over, Goto(r, l),
           l \notin {"hit", "fetching", "saved"},
           pc[r] = "preloading" => faulty,
           UNCHANGED <<external, initialized, index, db_ids, found, answer>>
    PROVE  IInv'
<1>1. /\ pc'[r] = l
      /\ \A q \in Requests \ {r} : pc'[q] = pc[q]
    BY GotoEffect DEF IInv, BaseInv
<1>2. FoundInv' /\ HitIsRelevant'
    BY <1>1, RelevantKept DEF IInv
<1>3. SavedIsFindable'
    BY <1>1, FindableKept DEF IInv
<1> QED BY <1>2, <1>3 DEF IInv, Aligned

\* An exact match is one, and otherwise nothing is returned or found.
LEMMA LookupIsRelevant ==
    ASSUME IInv, NEW r \in Requests, NEW ix, Lookup(r, ix), UNCHANGED <<external, found>>
    PROVE  /\ FoundInv' /\ HitIsRelevant'
           /\ pc'[r] # "saved"
           /\ \A q \in Requests \ {r} : pc'[q] = pc[q]
<1>1. /\ \A q \in Requests \ {r} : pc'[q] = pc[q] /\ answer'[q] = answer[q]
      /\ pc'[r] \in {"hit", "calling", "embedding"}
      /\ pc'[r] = "hit" => answer'[r] \in Requests /\ work[answer'[r]] = work[r]
    BY LookupEffect DEF IInv, BaseInv
<1>2. work' = work /\ found' = found
    BY DEF external
<1>3. FoundInv'
    BY <1>1, <1>2 DEF IInv, FoundInv, Prompt
<1>4. HitIsRelevant'
    BY <1>1, <1>2, RequestsAssumption DEF IInv, HitIsRelevant, Prompt
<1> QED BY <1>1, <1>3, <1>4

\* The rows that arrive all have vectors that fit, and are all there is.
LEMMA PreloadAligns ==
    ASSUME IInv, BaseInv', OneDimension, NEW r \in Requests, Preload(r)
    PROVE  IInv'
<1> DEFINE p == host[r]
<1>1. PICK s \in RowsOf(DOMAIN table) :
        /\ db_ids' = [db_ids EXCEPT ![p] = Listed(@, s)]
        /\ index' = [index EXCEPT ![p] = IF VectorsFit(p, s) THEN @ \o s ELSE @]
    BY DEF Preload
<1>2. /\ pc[r] = "preloading" /\ Lookup(r, index'[p])
      /\ UNCHANGED <<external, redis, table, initialized, found>>
    BY DEF Preload
<1>3. /\ p \in Replicas /\ s \in Seq(Requests) /\ ToSet(s) = DOMAIN table
      /\ index \in [Replicas -> Seq(Requests)] /\ db_ids \in [Replicas -> Seq(Requests)]
    BY PreloadedRows DEF IInv, BaseInv, TypeOK
<1>4. VectorsFit(p, s)
    <2>1. \A i \in DOMAIN s : s[i] \in DOMAIN table
        BY <1>3 DEF ToSet
    <2>2. \A e \in DOMAIN table : table[e] \in Dims \ {0}
        BY DEF IInv, BaseInv, TypeOK
    <2>3. dim[p] \in Dims \ {0}
        BY <1>2, <1>3 DEF IInv, BaseInv, ReplicaInv, TypeOK
    <2> QED BY <2>1, <2>2, <2>3 DEF VectorsFit, OneDimension
<1>5. /\ index' = [index EXCEPT ![p] = @ \o s]
      /\ db_ids' = [db_ids EXCEPT ![p] = @ \o s]
    BY <1>1, <1>4 DEF Listed
<1>6. Aligned'
    BY <1>5 DEF IInv, Aligned
<1>7. FoundInv' /\ HitIsRelevant' /\ pc'[r] # "saved"
        /\ \A q \in Requests \ {r} : pc'[q] = pc[q]
    BY <1>2, LookupIsRelevant
<1>8. ToSet(index'[p]) = ToSet(index[p]) \cup DOMAIN table
    BY <1>3, <1>5, ConcatElements
<1>9. \A q \in Replicas \ {p} : index'[q] = index[q]
    BY <1>3, <1>5
<1>10. SavedIsFindable'
    <2> SUFFICES ASSUME NEW q \in Requests,
                        pc'[q] = "saved", ~faulty', initialized'[host'[q]],
                        \A t \in Requests : host'[t] = host'[q] => pc'[t] # "preloading"
                 PROVE  q \in ToSet(index'[host'[q]])
        BY DEF SavedIsFindable
    <2>1. q # r /\ pc[q] = "saved"
        BY <1>7
    <2>2. host' = host /\ faulty' = faulty /\ initialized' = initialized
        BY <1>2 DEF external
    <2>3. CASE host[q] = p
        BY <1>8, <2>1, <2>2, <2>3 DEF IInv, BaseInv, RowInv
    <2>4. CASE host[q] # p
        <3>1. \A t \in Requests : host[t] = host[q] => pc[t] # "preloading"
            BY <1>7, <2>2, <2>4
        <3>2. host[q] \in Replicas
            BY DEF IInv, BaseInv, TypeOK
        <3> QED BY <1>9, <2>1, <2>2, <2>4, <3>1, <3>2 DEF IInv, SavedIsFindable
    <2> QED BY <2>3, <2>4
<1> QED BY <1>6, <1>7, <1>10 DEF IInv

\* The neighbour the index finds is the row the list names.
LEMMA SearchFindsAlike ==
    ASSUME IInv, BaseInv', NEW r \in Requests, Search(r)
    PROVE  IInv'
<1> DEFINE p == host[r]
<1>1. pc[r] = "embedding"
        /\ UNCHANGED <<external, redis, table, initialized, index, db_ids, answer>>
    BY DEF Search
<1>2. CASE Goto(r, "calling") /\ UNCHANGED found
    BY <1>1, <1>2, QuietStep DEF InFlight
<1>3. CASE \E i \in Nearest(r, index[p]) :
            /\ found' = [found EXCEPT ![r] = db_ids[p][i]]
            /\ Goto(r, "fetching")
    <2>1. PICK i \in Nearest(r, index[p]) :
            /\ found' = [found EXCEPT ![r] = db_ids[p][i]]
            /\ Goto(r, "fetching")
        BY <1>3
    <2>2. /\ p \in Replicas /\ index[p] \in Seq(Requests) /\ db_ids[p] = index[p]
          /\ found \in [Requests -> Requests \cup {None}]
        BY DEF IInv, BaseInv, TypeOK, Aligned
    <2>3. /\ index[p][i] \in Requests
          /\ \/ Prompt(index[p][i]) = Prompt(r)
             \/ <<Prompt(r), Prompt(index[p][i])>> \in Alike
        BY <2>1, <2>2 DEF Nearest
    <2>4. <<Prompt(r), Prompt(index[p][i])>> \in Alike
        BY <2>3, WorkType, AlikeAssumption DEF IInv, BaseInv
    <2>5. found'[r] = index[p][i] /\ \A q \in Requests \ {r} : found'[q] = found[q]
        BY <2>1, <2>2
    <2>6. pc'[r] = "fetching" /\ \A q \in Requests \ {r} : pc'[q] = pc[q]
        BY <2>1, GotoEffect DEF IInv, BaseInv, InFlight
    <2>7. work' = work /\ answer' = answer
        BY <1>1 DEF external
    <2>8. FoundInv'
        BY <2>3, <2>4, <2>5, <2>6, <2>7 DEF IInv, FoundInv, Prompt
    <2>9. HitIsRelevant'
        BY <2>5, <2>6, <2>7 DEF IInv, HitIsRelevant, Prompt
    <2>10. SavedIsFindable'
        BY <1>1, <2>6, FindableKept DEF IInv
    <2> QED BY <1>1, <2>8, <2>9, <2>10 DEF IInv, Aligned
<1> QED BY <1>2, <1>3 DEF Search

\* A vector and its id are appended together, and the response is findable from then on.
LEMMA IndexEntryAligns ==
    ASSUME IInv, BaseInv', NEW r \in Requests, IndexEntry(r)
    PROVE  IInv'
<1> DEFINE p == host[r]
<1>1. /\ p \in Replicas
      /\ index \in [Replicas -> Seq(Requests)] /\ db_ids \in [Replicas -> Seq(Requests)]
    BY DEF IInv, BaseInv, TypeOK
<1>2. /\ pc[r] = "indexing"
      /\ index' = [index EXCEPT ![p] = Append(@, r)]
      /\ db_ids' = [db_ids EXCEPT ![p] = Append(@, r)]
      /\ UNCHANGED <<external, redis, table, initialized, found, answer>>
    BY DEF IndexEntry, SavedId
<1>3. pc'[r] = "saved" /\ \A q \in Requests \ {r} : pc'[q] = pc[q]
    BY GotoEffect DEF IndexEntry, IInv, BaseInv, Over
<1>4. Aligned'
    BY <1>2 DEF IInv, Aligned
<1>5. FoundInv' /\ HitIsRelevant'
    BY <1>2, <1>3, RelevantKept DEF IInv
<1>6. ToSet(index'[p]) = ToSet(index[p]) \cup {r}
    BY <1>1, <1>2, AppendElements
<1>7. \A q \in Replicas \ {p} : index'[q] = index[q]
    BY <1>1, <1>2
<1>8. SavedIsFindable'
    <2> SUFFICES ASSUME NEW q \in Requests,
                        pc'[q] = "saved", ~faulty', initialized'[host'[q]],
                        \A t \in Requests : host'[t] = host'[q] => pc'[t] # "preloading"
                 PROVE  q \in ToSet(index'[host'[q]])
        BY DEF SavedIsFindable
    <2>1. host' = host /\ faulty' = faulty /\ initialized' = initialized
        BY <1>2 DEF external
    <2>2. CASE q = r
        BY <1>6, <2>1, <2>2
    <2>3. CASE q # r
        <3>1. \A t \in Requests : host[t] = host[q] => pc[t] # "preloading"
            BY <1>2, <1>3, <2>1
        <3>2. q \in ToSet(index[host[q]])
            BY <1>3, <2>1, <2>3, <3>1 DEF IInv, SavedIsFindable
        <3>3. host[q] \in Replicas
            BY DEF IInv, BaseInv, TypeOK
        <3> QED BY <1>6, <1>7, <2>1, <3>2, <3>3
    <2> QED BY <2>2, <2>3
<1> QED BY <1>4, <1>5, <1>8 DEF IInv

\* A replica that restarts has nothing to find, and no handler that looks.
LEMMA RestartAligns ==
    ASSUME IInv, BaseInv', NEW p \in Replicas, Restart(p)
    PROVE  IInv'
<1>1. /\ index' = [index EXCEPT ![p] = <<>>] /\ db_ids' = [db_ids EXCEPT ![p] = <<>>]
      /\ initialized' = [initialized EXCEPT ![p] = FALSE]
      /\ pc' = [r \in Requests |->
                    IF host[r] = p /\ pc[r] \in InFlight THEN "failed" ELSE pc[r]]
      /\ UNCHANGED <<faulty, work, host, redis, table, found, answer>>
    BY DEF Restart
<1>2. Aligned'
    BY <1>1 DEF IInv, Aligned
<1>3. \A r \in Requests : pc'[r] \in {"failed", pc[r]}
    BY <1>1
<1>4. FoundInv' /\ HitIsRelevant'
    BY <1>1, <1>3 DEF IInv, FoundInv, HitIsRelevant, Prompt
<1>5. SavedIsFindable'
    <2> SUFFICES ASSUME NEW q \in Requests,
                        pc'[q] = "saved", ~faulty', initialized'[host'[q]],
                        \A t \in Requests : host'[t] = host'[q] => pc'[t] # "preloading"
                 PROVE  q \in ToSet(index'[host'[q]])
        BY DEF SavedIsFindable
    <2>1. host[q] \in Replicas /\ host[q] # p /\ initialized \in [Replicas -> BOOLEAN]
            /\ index \in [Replicas -> Seq(Requests)]
        BY <1>1 DEF IInv, BaseInv, TypeOK
    <2>2. initialized[host[q]] /\ index'[host[q]] = index[host[q]] /\ pc[q] = "saved"
        BY <1>1, <1>3, <2>1
    <2>3. \A t \in Requests : host[t] = host[q] => pc[t] # "preloading"
        BY <1>1, <2>1
    <2> QED BY <1>1, <2>2, <2>3 DEF IInv, SavedIsFindable
<1> QED BY <1>2, <1>4, <1>5 DEF IInv

\* One step per action.
LEMMA InvStep ==
    ASSUME OneDimension, IInv, [Next]_vars
    PROVE  IInv'
<1> USE DEF InFlight, Over
<1>1. BaseInv'
    BY BaseStep DEF IInv
<1>2. ASSUME NEW r \in Requests, StartBypassing(r)
      PROVE  IInv'
    BY <1>1, <1>2, QuietStep DEF StartBypassing
<1>3. ASSUME NEW r \in Requests, StartLookup(r) \/ PreloadFails(r)
      PROVE  IInv'
    <2>1. /\ Lookup(r, index[host[r]])
          /\ UNCHANGED <<external, redis, table, initialized, index, db_ids, found>>
          /\ pc[r] = "preloading" => faulty
        BY <1>3 DEF StartLookup, PreloadFails
    <2>2. /\ FoundInv' /\ HitIsRelevant' /\ pc'[r] # "saved"
          /\ \A q \in Requests \ {r} : pc'[q] = pc[q]
        BY <2>1, LookupIsRelevant
    <2>3. SavedIsFindable'
        BY <2>1, <2>2, FindableKept DEF IInv
    <2> QED BY <1>1, <2>1, <2>2, <2>3 DEF IInv, Aligned
<1>4. ASSUME NEW r \in Requests, StartPreload(r)
      PROVE  IInv'
    <2>1. /\ pc'[r] = "preloading"
          /\ \A q \in Requests \ {r} : pc'[q] = pc[q]
        BY <1>4, GotoEffect DEF StartPreload, IInv, BaseInv
    <2>2. /\ UNCHANGED <<external, redis, table, index, db_ids, found, answer>>
          /\ initialized' = [initialized EXCEPT ![host[r]] = TRUE]
        BY <1>4 DEF StartPreload
    <2>3. FoundInv' /\ HitIsRelevant'
        BY <2>1, <2>2, RelevantKept DEF IInv
    <2>4. SavedIsFindable'
        BY <2>1, <2>2 DEF IInv, BaseInv, TypeOK, SavedIsFindable, external
    <2> QED BY <1>1, <2>2, <2>3, <2>4 DEF IInv, Aligned
<1>5. ASSUME NEW r \in Requests, Preload(r)
      PROVE  IInv'
    BY <1>1, <1>5, PreloadAligns
<1>6. ASSUME NEW r \in Requests, Search(r)
      PROVE  IInv'
    BY <1>1, <1>6, SearchFindsAlike
<1>7. ASSUME NEW r \in Requests, Fetch(r)
      PROVE  IInv'
    <2>1. /\ pc[r] = "fetching" /\ answer' = [answer EXCEPT ![r] = found[r]]
          /\ UNCHANGED <<external, redis, table, initialized, index, db_ids, found>>
        BY <1>7 DEF Fetch, Serve
    <2>2. pc'[r] = "hit" /\ \A q \in Requests \ {r} : pc'[q] = pc[q]
        BY <1>7, GotoEffect DEF Fetch, Serve, IInv, BaseInv
    <2>3. found[r] \in Requests /\ <<Prompt(r), Prompt(found[r])>> \in Alike
        BY <2>1 DEF IInv, FoundInv
    <2>4. work' = work
        BY <2>1 DEF external
    <2>5. answer'[r] = found[r] /\ \A q \in Requests \ {r} : answer'[q] = answer[q]
        BY <2>1 DEF IInv, BaseInv, TypeOK
    <2>6. FoundInv'
        BY <2>1, <2>2, <2>4 DEF IInv, FoundInv, Prompt
    <2>7. HitIsRelevant'
        BY <2>1, <2>2, <2>3, <2>4, <2>5, RequestsAssumption DEF IInv, HitIsRelevant, Prompt
    <2>8. SavedIsFindable'
        BY <2>1, <2>2, FindableKept DEF IInv
    <2> QED BY <1>1, <2>1, <2>6, <2>7, <2>8 DEF IInv, Aligned
<1>8. ASSUME NEW r \in Requests, LookupFails(r)
      PROVE  IInv'
    BY <1>1, <1>8, QuietStep DEF LookupFails
<1>9. ASSUME NEW r \in Requests, Complete(r)
      PROVE  IInv'
    BY <1>1, <1>9, QuietStep DEF Complete
<1>10. ASSUME NEW r \in Requests, CallFails(r)
       PROVE  IInv'
    BY <1>1, <1>10, QuietStep DEF CallFails
<1>11. ASSUME NEW r \in Requests, Insert(r)
       PROVE  IInv'
    BY <1>1, <1>11, QuietStep DEF Insert
<1>12. ASSUME NEW r \in Requests, IndexEntry(r)
       PROVE  IInv'
    BY <1>1, <1>12, IndexEntryAligns
<1>13. ASSUME NEW r \in Requests, SaveFails(r)
       PROVE  IInv'
    BY <1>1, <1>13, QuietStep DEF SaveFails
<1>14. ASSUME NEW k \in Keys, Expire(k)
       PROVE  IInv'
    BY <1>1, <1>14
       DEF Expire, external, IInv, Aligned, FoundInv, HitIsRelevant, SavedIsFindable, Prompt
<1>15. ASSUME NEW p \in Replicas, Restart(p)
       PROVE  IInv'
    BY <1>1, <1>15, RestartAligns
<1>16. CASE UNCHANGED vars
    BY <1>1, <1>16
       DEF vars, IInv, Aligned, FoundInv, HitIsRelevant, SavedIsFindable, Prompt
<1> QED
    BY <1>2, <1>3, <1>4, <1>5, <1>6, <1>7, <1>8, <1>9, <1>10, <1>11, <1>12, <1>13, <1>14,
       <1>15, <1>16
       DEF Next, RequestStep, Quiescent

\* The invariant of a deployment whose embedding models have one dimension.
LEMMA InvHolds ==
    ASSUME OneDimension
    PROVE  Spec => []IInv
<1>1. Init => IInv
    BY InvInit
<1>2. IInv /\ [Next]_vars => IInv'
    BY InvStep
<1> QED BY <1>1, <1>2, PTL DEF Spec

\* With embedding models of one dimension the index and the list of ids agree at every
\* position, whatever preloads, saves, failures and restarts come between one another.
THEOREM IndexStaysAligned ==
    ASSUME \A d, e \in Dims \ {0} : d = e
    PROVE  Spec => []Aligned
<1>1. OneDimension
    BY DEF OneDimension
<1>2. Spec => []IInv
    BY <1>1, InvHolds
<1>3. IInv => Aligned
    BY DEF IInv
<1> QED BY <1>2, <1>3, PTL

\* Then a cached response that is returned was generated for a prompt that is alike, or
\* for the same prompt and model.
THEOREM HitsAreRelevant ==
    ASSUME \A d, e \in Dims \ {0} : d = e
    PROVE  Spec => []HitIsRelevant
<1>1. OneDimension
    BY DEF OneDimension
<1>2. Spec => []IInv
    BY <1>1, InvHolds
<1>3. IInv => HitIsRelevant
    BY DEF IInv
<1> QED BY <1>2, <1>3, PTL

\* And without faults what a replica saved it can find, restarts included.
THEOREM SavedResponsesAreFound ==
    ASSUME \A d, e \in Dims \ {0} : d = e
    PROVE  Spec => []SavedIsFindable
<1>1. OneDimension
    BY DEF OneDimension
<1>2. Spec => []IInv
    BY <1>1, InvHolds
<1>3. IInv => SavedIsFindable
    BY DEF IInv
<1> QED BY <1>2, <1>3, PTL
-----------------------------------------------------------------------------
(* The cache implements what it promises.                                  *)

\* What is in an index, or about to be loaded, is in the table.
TableInv ==
    /\ \A p \in Replicas : ToSet(index[p]) \subseteq DOMAIN table
    /\ \A r \in Requests : pc[r] = "fetching" => found[r] \in DOMAIN table

\* A request that bypasses the cache does not look into it.
BypassInv ==
    \A r \in Requests :
        pc[r] \in {"preloading", "embedding", "fetching", "hit"} => r \notin Bypassing

StoreInv == IInv /\ TableInv /\ BypassInv

\* Rows are never deleted, and a handler that goes elsewhere than to fetch a row leaves
\* the rest.
LEMMA TableKept ==
    ASSUME TableInv, NEW r \in Requests, DOMAIN table \subseteq DOMAIN table',
           UNCHANGED <<index, found>>, pc'[r] # "fetching",
           \A q \in Requests \ {r} : pc'[q] = pc[q]
    PROVE  TableInv'
BY DEF TableInv

LEMMA BypassKept ==
    ASSUME BypassInv, NEW r \in Requests, \A q \in Requests \ {r} : pc'[q] = pc[q],
           pc'[r] \in {"preloading", "embedding", "fetching", "hit"} => r \notin Bypassing
    PROVE  BypassInv'
BY DEF BypassInv

LEMMA StoreInit == Init => TableInv /\ BypassInv
<1> SUFFICES ASSUME Init PROVE TableInv /\ BypassInv
    OBVIOUS
<1>1. \A r \in Requests : pc[r] = "idle"
    BY DEF Init
<1>2. \A p \in Replicas : index[p] = <<>>
    BY DEF Init
<1> QED BY <1>1, <1>2 DEF TableInv, BypassInv, ToSet

\* A handler that only moves on.
LEMMA StoreMoves ==
    ASSUME StoreInv, NEW r \in Requests, NEW l \in {"idle"} \cup InFlight \cup Over, Goto(r, l),
           l # "fetching",
           l \in {"preloading", "embedding", "hit"} => r \notin Bypassing,
           DOMAIN table \subseteq DOMAIN table', UNCHANGED <<index, found>>
    PROVE  TableInv' /\ BypassInv'
<1>1. pc'[r] = l /\ \A q \in Requests \ {r} : pc'[q] = pc[q]
    BY GotoEffect DEF StoreInv, IInv, BaseInv
<1> QED BY <1>1, TableKept, BypassKept DEF StoreInv

LEMMA StoreStep ==
    ASSUME StoreInv, [Next]_vars
    PROVE  TableInv' /\ BypassInv'
<1> USE DEF InFlight, Over
<1>1. TypeOK /\ RedisInv
    BY DEF StoreInv, IInv, BaseInv
<1>2. ASSUME NEW r \in Requests, StartBypassing(r) \/ StartPreload(r) PROVE TableInv' /\ BypassInv'
    BY <1>2, StoreMoves DEF StartBypassing, StartPreload
<1>3. ASSUME NEW r \in Requests, StartLookup(r) \/ PreloadFails(r) PROVE TableInv' /\ BypassInv'
    <2>1. r \notin Bypassing
        BY <1>3 DEF StartLookup, PreloadFails, StoreInv, BypassInv
    <2>2. Lookup(r, index[host[r]]) /\ UNCHANGED <<table, index, found>>
        BY <1>3 DEF StartLookup, PreloadFails
    <2>3. /\ pc'[r] \in {"hit", "calling", "embedding"}
          /\ \A q \in Requests \ {r} : pc'[q] = pc[q]
        BY <1>1, <2>2, LookupEffect
    <2> QED BY <2>1, <2>2, <2>3, TableKept, BypassKept DEF StoreInv
<1>4. ASSUME NEW r \in Requests, Preload(r) PROVE TableInv' /\ BypassInv'
    <2> DEFINE p == host[r]
    <2>1. p \in Replicas /\ index \in [Replicas -> Seq(Requests)] /\ r \notin Bypassing
        BY <1>1, <1>4 DEF TypeOK, Preload, StoreInv, BypassInv
    <2>2. PICK s \in RowsOf(DOMAIN table) :
            index' = [index EXCEPT ![p] = IF VectorsFit(p, s) THEN @ \o s ELSE @]
        BY <1>4 DEF Preload
    <2>3. s \in Seq(Requests) /\ ToSet(s) = DOMAIN table
        BY <2>2, PreloadedRows DEF StoreInv, IInv
    <2>4. ToSet(index[p] \o s) = ToSet(index[p]) \cup ToSet(s)
        BY <2>1, <2>3, ConcatElements
    <2>5. index'[p] \in {index[p], index[p] \o s} /\ \A q \in Replicas \ {p} : index'[q] = index[q]
        BY <2>1, <2>2
    <2>6. UNCHANGED <<table, found>> /\ Lookup(r, index'[p])
        BY <1>4 DEF Preload
    <2>7. /\ pc'[r] \in {"hit", "calling", "embedding"}
          /\ \A q \in Requests \ {r} : pc'[q] = pc[q]
        BY <1>1, <2>6, LookupEffect
    <2>8. \A q \in Replicas : ToSet(index'[q]) \subseteq DOMAIN table'
        <3> SUFFICES ASSUME NEW q \in Replicas PROVE ToSet(index'[q]) \subseteq DOMAIN table
            BY <2>6
        <3>1. ToSet(index[q]) \subseteq DOMAIN table
            BY DEF StoreInv, TableInv
        <3>2. CASE q = p
            <4>1. ToSet(index[p] \o s) \subseteq DOMAIN table
                BY <2>3, <2>4, <3>1, <3>2
            <4> QED BY <2>5, <3>1, <3>2, <4>1
        <3>3. CASE q # p
            BY <2>5, <3>1, <3>3
        <3> QED BY <3>2, <3>3
    <2>9. TableInv'
        BY <2>6, <2>7, <2>8 DEF StoreInv, TableInv
    <2> QED BY <2>1, <2>7, <2>9, BypassKept DEF StoreInv
<1>5. ASSUME NEW r \in Requests, Search(r) PROVE TableInv' /\ BypassInv'
    <2> DEFINE p == host[r]
    <2>1. r \notin Bypassing /\ UNCHANGED <<table, index>>
        BY <1>5 DEF Search, StoreInv, BypassInv
    <2>2. CASE Goto(r, "calling") /\ UNCHANGED found
        BY <2>1, <2>2, StoreMoves
    <2>3. CASE \E i \in Nearest(r, index[p]) :
                /\ found' = [found EXCEPT ![r] = db_ids[p][i]]
                /\ Goto(r, "fetching")
        <3>1. PICK i \in Nearest(r, index[p]) :
                /\ found' = [found EXCEPT ![r] = db_ids[p][i]]
                /\ Goto(r, "fetching")
            BY <2>3
        <3>2. /\ p \in Replicas /\ db_ids[p] = index[p]
              /\ found \in [Requests -> Requests \cup {None}]
            BY <1>1 DEF TypeOK, StoreInv, IInv, Aligned
        <3>3. index[p][i] \in ToSet(index[p])
            BY <3>1 DEF Nearest, ToSet
        <3>4. found'[r] \in DOMAIN table /\ \A q \in Requests \ {r} : found'[q] = found[q]
            BY <3>1, <3>2, <3>3 DEF StoreInv, TableInv
        <3>5. \A q \in Requests \ {r} : pc'[q] = pc[q]
            BY <1>1, <3>1, GotoEffect
        <3>6. TableInv'
            BY <2>1, <3>4, <3>5 DEF StoreInv, TableInv
        <3> QED BY <2>1, <3>5, <3>6, BypassKept DEF StoreInv
    <2> QED BY <1>5, <2>2, <2>3 DEF Search
<1>6. ASSUME NEW r \in Requests, Fetch(r) PROVE TableInv' /\ BypassInv'
    <2>1. r \notin Bypassing
        BY <1>6 DEF Fetch, StoreInv, BypassInv
    <2> QED BY <1>6, <2>1, StoreMoves DEF Fetch, Serve
<1>7. ASSUME NEW r \in Requests,
             LookupFails(r) \/ Complete(r) \/ CallFails(r) \/ Insert(r) \/ SaveFails(r)
      PROVE  TableInv' /\ BypassInv'
    <2>1. DOMAIN table \subseteq DOMAIN table' /\ UNCHANGED <<index, found>>
        BY <1>7 DEF LookupFails, Complete, CallFails, Insert, SaveFails
    <2>2. PICK l \in {"calling", "storing", "done", "failed", "indexing"} : Goto(r, l)
        BY <1>7 DEF LookupFails, Complete, CallFails, Insert, SaveFails
    <2> QED BY <2>1, <2>2, StoreMoves
<1>8. ASSUME NEW r \in Requests, IndexEntry(r) PROVE TableInv' /\ BypassInv'
    <2> DEFINE p == host[r]
    <2>1. /\ p \in Replicas /\ index \in [Replicas -> Seq(Requests)]
          /\ index' = [index EXCEPT ![p] = Append(@, r)] /\ UNCHANGED <<table, found>>
          /\ Goto(r, "saved") /\ pc[r] = "indexing"
        BY <1>1, <1>8 DEF TypeOK, IndexEntry
    <2>2. r \in DOMAIN table
        BY <2>1 DEF StoreInv, IInv, BaseInv, RowInv
    <2>3. ToSet(index'[p]) = ToSet(index[p]) \cup {r}
        BY <2>1, AppendElements
    <2>4. \A q \in Replicas \ {p} : index'[q] = index[q]
        BY <2>1
    <2>5. pc'[r] = "saved" /\ \A q \in Requests \ {r} : pc'[q] = pc[q]
        BY <1>1, <2>1, GotoEffect
    <2>6. TableInv'
        BY <2>1, <2>2, <2>3, <2>4, <2>5 DEF StoreInv, TableInv
    <2> QED BY <2>5, <2>6, BypassKept DEF StoreInv
<1>9. ASSUME NEW k \in Keys, Expire(k) PROVE TableInv' /\ BypassInv'
    BY <1>9 DEF Expire, StoreInv, TableInv, BypassInv
<1>10. ASSUME NEW p \in Replicas, Restart(p) PROVE TableInv' /\ BypassInv'
    <2>1. /\ index' = [index EXCEPT ![p] = <<>>] /\ UNCHANGED <<table, found>>
          /\ pc' = [r \in Requests |->
                        IF host[r] = p /\ pc[r] \in InFlight THEN "failed" ELSE pc[r]]
        BY <1>10 DEF Restart
    <2>2. \A r \in Requests : pc'[r] \in {"failed", pc[r]}
        BY <2>1
    <2>3. \A q \in Replicas : index'[q] = index[q] \/ index'[q] = <<>>
        BY <1>1, <2>1 DEF TypeOK
    <2>4. TableInv'
        BY <2>1, <2>2, <2>3 DEF StoreInv, TableInv, ToSet
    <2> QED BY <2>2, <2>4 DEF StoreInv, BypassInv
<1>11. CASE UNCHANGED vars
    BY <1>11 DEF vars, StoreInv, TableInv, BypassInv
<1> QED
    BY <1>2, <1>3, <1>4, <1>5, <1>6, <1>7, <1>8, <1>9, <1>10, <1>11
       DEF Next, RequestStep, Quiescent

Stages == [r \in Requests |-> StateOf(pc[r])]

\* A handler that moves changes its own stage only.
LEMMA StageMoves ==
    ASSUME TypeOK, NEW r \in Requests, NEW l \in {"idle"} \cup InFlight \cup Over,
           pc' \in [Requests -> {"idle"} \cup InFlight \cup Over], pc'[r] = l,
           \A q \in Requests \ {r} : pc'[q] = pc[q]
    PROVE  Stages' = [Stages EXCEPT ![r] = StateOf(l)]
<1> DEFINE new == [Stages EXCEPT ![r] = StateOf(l)]
<1>1. \A q \in Requests : StateOf(pc'[q]) = IF q = r THEN StateOf(l) ELSE StateOf(pc[q])
    OBVIOUS
<1>2. Stages' = [q \in Requests |-> StateOf(pc'[q])]
    BY DEF Stages, StateOf
<1>3. new = [q \in Requests |-> IF q = r THEN StateOf(l) ELSE StateOf(pc[q])]
    BY DEF Stages
<1> QED BY <1>1, <1>2, <1>3

\* The stages by their names.
LEMMA StageNames ==
    /\ \A l \in {"idle", "preloading", "embedding", "fetching"} : StateOf(l) = "new"
    /\ StateOf("calling") = "asked" /\ StateOf("hit") = "hit"
    /\ \A l \in {"storing", "indexing"} : StateOf(l) = "generated"
    /\ \A l \in {"saved", "done", "failed"} : StateOf(l) = "over"
BY DEF StateOf

\* What is in Redis is a response to the call whose key it has.
LEMMA FreshType ==
    ASSUME TypeOK, RedisInv
    PROVE  /\ Fresh \subseteq Requests
           /\ \A e \in Fresh : work[e] \in Keys /\ redis[work[e]] = e
           /\ \A k \in Keys : redis[k] # None => redis[k] \in Fresh
<1>1. redis \in [Keys -> Requests \cup {None}]
    BY DEF TypeOK
<1>2. \A k \in Keys : redis[k] # None => redis[k] \in Fresh
    BY DEF Fresh
<1>3. ASSUME NEW e \in Fresh PROVE e \in Requests /\ work[e] \in Keys /\ redis[work[e]] = e
    <2>1. PICK k \in Keys : redis[k] = e /\ e # None
        BY <1>3 DEF Fresh
    <2> QED BY <1>1, <2>1 DEF RedisInv
<1> QED BY <1>2, <1>3

LEMMA CacheInit == Init => Cache!Init
<1> SUFFICES ASSUME Init PROVE Cache!Init
    OBVIOUS
<1>1. Stages = [r \in Requests |-> "new"]
    BY StageNames DEF Init, Stages
<1>2. Fresh = {}
    BY DEF Init, Fresh
<1>3. DOMAIN table = {}
    BY DEF Init
<1> QED BY <1>1, <1>2, <1>3 DEF Init, Cache!Init, Stages

\* An exact match is a hit of a fresh response, and no match is none.
LEMMA LookupHits ==
    ASSUME StoreInv, NEW r \in Requests, NEW ix, Lookup(r, ix), r \notin Bypassing,
           pc[r] \in {"idle", "preloading"}, UNCHANGED <<work, redis, table>>
    PROVE  Cache!Hit(r) \/ Cache!Ask(r) \/ UNCHANGED Cache!vars
<1> USE DEF InFlight, Over
<1>1. TypeOK /\ RedisInv
    BY DEF StoreInv, IInv, BaseInv
<1>2. Stages[r] = "new" /\ Fresh' = Fresh
    BY StageNames DEF Stages, Fresh
<1>3. CASE redis[KeyOf(r)] # None /\ Serve(r, redis[KeyOf(r)])
    <2>1. KeyOf(r) \in Keys /\ KeyOf(r) = work[r]
        BY <1>1, WorkType DEF KeyOf
    <2>2. redis[KeyOf(r)] \in Fresh /\ work[redis[KeyOf(r)]] = work[r]
        BY <1>1, <1>3, <2>1, FreshType DEF RedisInv
    <2>3. answer' = [answer EXCEPT ![r] = redis[KeyOf(r)]]
        BY <1>3 DEF Serve
    <2>4. Stages' = [Stages EXCEPT ![r] = "hit"]
        BY <1>1, <1>3, GotoEffect, StageMoves, StageNames DEF Serve
    <2>5. \E e \in Fresh \cup DOMAIN table :
            /\ \/ e \in Fresh /\ work[e] = work[r]
               \/ e \in DOMAIN table /\ <<work[r].prompt, work[e].prompt>> \in Alike
            /\ answer' = [answer EXCEPT ![r] = e]
        BY <2>2, <2>3
    <2>6. Cache!Hit(r)
        BY <1>2, <2>4, <2>5 DEF Cache!Hit, Cache!Move, Stages
    <2> QED BY <2>6
<1>4. CASE /\ Goto(r, IF ix = <<>> THEN "calling" ELSE "embedding")
           /\ UNCHANGED answer
    <2>1. CASE Goto(r, "calling")
        <3>1. Stages' = [Stages EXCEPT ![r] = "asked"]
            BY <1>1, <2>1, GotoEffect, StageMoves, StageNames
        <3>2. Cache!Ask(r)
            BY <1>2, <1>4, <3>1 DEF Cache!Ask, Cache!Move, Stages
        <3> QED BY <3>2
    <2>2. CASE Goto(r, "embedding")
        <3>1. Stages' = [Stages EXCEPT ![r] = "new"]
            BY <1>1, <2>2, GotoEffect, StageMoves, StageNames
        <3>2. Stages' = Stages
            BY <1>2, <3>1 DEF Stages
        <3> QED BY <1>2, <1>4, <3>2 DEF Cache!vars, Stages
    <2> QED BY <1>4, <2>1, <2>2
<1> QED BY <1>3, <1>4 DEF Lookup

\* The nearest neighbour is a hit of a lasting response.
LEMMA FetchHits ==
    ASSUME StoreInv, NEW r \in Requests, Fetch(r)
    PROVE  Cache!Hit(r)
<1> USE DEF InFlight, Over
<1>1. TypeOK /\ pc[r] = "fetching" /\ r \notin Bypassing
    BY DEF StoreInv, IInv, BaseInv, BypassInv, Fetch
<1>2. /\ answer' = [answer EXCEPT ![r] = found[r]] /\ Goto(r, "hit")
      /\ UNCHANGED <<work, redis, table>>
    BY DEF Fetch, Serve, external
<1>3. found[r] \in DOMAIN table /\ <<work[r].prompt, work[found[r]].prompt>> \in Alike
    BY <1>1 DEF StoreInv, IInv, FoundInv, TableInv, Prompt
<1>4. Stages[r] = "new" /\ Fresh' = Fresh
    BY <1>1, <1>2, StageNames DEF Stages, Fresh
<1>5. Stages' = [Stages EXCEPT ![r] = "hit"]
    BY <1>1, <1>2, GotoEffect, StageMoves, StageNames
<1> QED BY <1>1, <1>2, <1>3, <1>4, <1>5 DEF Cache!Hit, Cache!Move, Stages

\* A completed response takes the place under its key.
LEMMA CompleteGenerates ==
    ASSUME StoreInv, NEW r \in Requests, Complete(r)
    PROVE  Cache!Generate(r)
<1> USE DEF InFlight, Over
<1>1. TypeOK /\ RedisInv /\ pc[r] = "calling"
    BY DEF StoreInv, IInv, BaseInv, Complete
<1>2. UNCHANGED <<work, table, answer>>
    BY DEF Complete, external
<1>3. Stages[r] = "asked"
    BY <1>1, StageNames DEF Stages
<1>4. \E s \in {"generated", "over"} : Stages' = [Stages EXCEPT ![r] = s]
    <2>1. PICK l \in {"storing", "done"} : Goto(r, l)
        BY DEF Complete
    <2> QED BY <1>1, <2>1, GotoEffect, StageMoves, StageNames
<1>5. Fresh' \in {Fresh, {e \in Fresh : work[e] # work[r]} \cup {r}}
    <2>1. CASE redis' = redis
        BY <2>1 DEF Fresh
    <2>2. CASE redis' = [redis EXCEPT ![KeyOf(r)] = r]
        <3>1. KeyOf(r) \in Keys /\ KeyOf(r) = work[r] /\ redis \in [Keys -> Requests \cup {None}]
            BY <1>1, WorkType DEF KeyOf, TypeOK
        <3>2. redis'[KeyOf(r)] = r /\ \A k \in Keys \ {KeyOf(r)} : redis'[k] = redis[k]
            BY <2>2, <3>1
        <3>3. \A e \in Fresh' : e \in {d \in Fresh : work[d] # work[r]} \cup {r}
            <4> SUFFICES ASSUME NEW k \in Keys, redis'[k] # None, redis'[k] # r
                         PROVE  redis'[k] \in Fresh /\ work[redis'[k]] # work[r]
                BY DEF Fresh
            <4>1. k # KeyOf(r) /\ redis'[k] = redis[k]
                BY <3>2
            <4> QED BY <1>1, <3>1, <4>1, FreshType DEF RedisInv
        <3>4. r \in Fresh'
            BY <3>1, <3>2, RequestsAssumption DEF Fresh
        <3>5. \A e \in Fresh : work[e] # work[r] => e \in Fresh'
            <4> SUFFICES ASSUME NEW e \in Fresh, work[e] # work[r] PROVE e \in Fresh'
                OBVIOUS
            <4>1. work[e] \in Keys /\ redis[work[e]] = e /\ e # None
                BY <1>1, FreshType DEF Fresh
            <4>2. redis'[work[e]] = e
                BY <3>1, <3>2, <4>1
            <4> QED BY <4>1, <4>2 DEF Fresh
        <3> QED BY <3>3, <3>4, <3>5
    <2> QED BY <2>1, <2>2 DEF Complete
<1> QED BY <1>2, <1>3, <1>4, <1>5 DEF Cache!Generate, Cache!Move, Stages

\* Of a request that ends nothing is kept but what was.
LEMMA RequestEnds ==
    ASSUME StoreInv, NEW r \in Requests, NEW l \in {"done", "failed", "saved"}, Goto(r, l),
           pc[r] \in InFlight, UNCHANGED <<work, redis, table, answer>>
    PROVE  Cache!End
<1> USE DEF InFlight, Over
<1>1. TypeOK
    BY DEF StoreInv, IInv, BaseInv
<1>2. Stages[r] \in {"new", "asked", "generated"}
    BY StageNames DEF Stages
<1>3. Stages' = [Stages EXCEPT ![r] = "over"]
    BY <1>1, GotoEffect, StageMoves, StageNames
<1>4. Stages' = [q \in Requests |-> IF q \in {r} THEN "over" ELSE Stages[q]]
    BY <1>3 DEF Stages
<1>5. {r} \in SUBSET {q \in Requests : Stages[q] \in {"new", "asked", "generated"}}
    BY <1>2
<1>6. Fresh' = Fresh
    BY DEF Fresh
<1> QED BY <1>4, <1>5, <1>6 DEF Cache!End, Stages

\* A request that has not found anything yet asks the provider, or looks on.
LEMMA RequestLooks ==
    ASSUME StoreInv, NEW r \in Requests, pc[r] \in {"idle", "preloading", "embedding", "fetching"},
           UNCHANGED <<work, redis, table, answer>>
    PROVE  /\ Goto(r, "calling") => Cache!Ask(r)
           /\ \A l \in {"preloading", "fetching"} : Goto(r, l) => UNCHANGED Cache!vars
<1> USE DEF InFlight, Over
<1>1. TypeOK
    BY DEF StoreInv, IInv, BaseInv
<1>2. Stages[r] = "new" /\ Fresh' = Fresh
    BY StageNames DEF Stages, Fresh
<1>3. ASSUME Goto(r, "calling") PROVE Cache!Ask(r)
    <2>1. Stages' = [Stages EXCEPT ![r] = "asked"]
        BY <1>1, <1>3, GotoEffect, StageMoves, StageNames
    <2> QED BY <1>2, <2>1 DEF Cache!Ask, Cache!Move, Stages
<1>4. ASSUME NEW l \in {"preloading", "fetching"}, Goto(r, l) PROVE UNCHANGED Cache!vars
    <2>1. Stages' = [Stages EXCEPT ![r] = "new"]
        BY <1>1, <1>4, GotoEffect, StageMoves, StageNames
    <2>2. Stages' = Stages
        BY <1>2, <2>1 DEF Stages
    <2> QED BY <1>2, <2>2 DEF Cache!vars, Stages
<1> QED BY <1>3, <1>4

\* A row is a response that lasts.
LEMMA InsertKeeps ==
    ASSUME StoreInv, NEW r \in Requests, Insert(r)
    PROVE  Cache!Keep(r)
<1> USE DEF InFlight, Over
<1>1. /\ TypeOK /\ pc[r] = "storing" /\ Goto(r, "indexing")
      /\ UNCHANGED <<work, redis, answer>>
      /\ table' = [e \in DOMAIN table \cup {r} |-> IF e = r THEN dim[host[r]] ELSE table[e]]
    BY DEF StoreInv, IInv, BaseInv, Insert, external
<1>2. Stages[r] = "generated" /\ Fresh' = Fresh
    BY <1>1, StageNames DEF Stages, Fresh
<1>3. Stages' = [Stages EXCEPT ![r] = "generated"]
    BY <1>1, GotoEffect, StageMoves, StageNames
<1>4. Stages' = Stages
    BY <1>2, <1>3 DEF Stages
<1>5. (DOMAIN table)' = DOMAIN table \cup {r}
    BY <1>1
<1> QED BY <1>1, <1>2, <1>4, <1>5 DEF Cache!Keep, Stages

\* An entry that expires is forgotten, whatever else is in Redis.
LEMMA ExpiryForgets ==
    ASSUME StoreInv, NEW k \in Keys, Expire(k)
    PROVE  Cache!Forget
<1>1. /\ TypeOK /\ RedisInv /\ redis[k] # None /\ redis' = [redis EXCEPT ![k] = None]
      /\ UNCHANGED <<work, table, answer, pc>>
    BY DEF StoreInv, IInv, BaseInv, Expire, external
<1> DEFINE d == redis[k]
<1>2. d \in Fresh /\ work[d] = k /\ redis \in [Keys -> Requests \cup {None}]
    BY <1>1, FreshType DEF RedisInv, TypeOK
<1>3. redis'[k] = None /\ \A j \in Keys \ {k} : redis'[j] = redis[j]
    BY <1>1, <1>2
<1>4. \A e \in Fresh' : e \in Fresh \ {d}
    <2> SUFFICES ASSUME NEW j \in Keys, redis'[j] # None PROVE redis'[j] \in Fresh \ {d}
        BY DEF Fresh
    <2>1. j # k /\ redis'[j] = redis[j]
        BY <1>3
    <2>2. redis[j] \in Fresh /\ work[redis[j]] = j
        BY <1>1, <2>1, FreshType DEF RedisInv
    <2> QED BY <1>2, <2>1, <2>2
<1>5. \A e \in Fresh \ {d} : e \in Fresh'
    <2> SUFFICES ASSUME NEW e \in Fresh, e # d PROVE e \in Fresh'
        OBVIOUS
    <2>1. work[e] \in Keys /\ redis[work[e]] = e /\ e # None
        BY <1>1, FreshType DEF Fresh
    <2>2. work[e] # k
        BY <2>1
    <2>3. redis'[work[e]] = e
        BY <1>3, <2>1, <2>2
    <2> QED BY <2>1, <2>3 DEF Fresh
<1>6. Fresh' = Fresh \ {d}
    BY <1>4, <1>5
<1>7. Stages' = Stages
    BY <1>1 DEF Stages, StateOf
<1> HIDE DEF d
<1> QED BY <1>1, <1>2, <1>6, <1>7 DEF Cache!Forget, Stages

\* The requests of a replica that restarts end together, and nothing is lost but its index.
LEMMA RestartEnds ==
    ASSUME StoreInv, NEW p \in Replicas, Restart(p)
    PROVE  Cache!End
<1> USE DEF InFlight, Over
<1> DEFINE R == {r \in Requests : host[r] = p /\ pc[r] \in InFlight}
<1>1. /\ TypeOK /\ UNCHANGED <<work, redis, table, answer>>
      /\ pc' = [r \in Requests |->
                    IF host[r] = p /\ pc[r] \in InFlight THEN "failed" ELSE pc[r]]
    BY DEF StoreInv, IInv, BaseInv, Restart
<1>2. Fresh' = Fresh
    BY <1>1 DEF Fresh
<1>3. \A r \in Requests : StateOf(pc'[r]) = IF r \in R THEN "over" ELSE StateOf(pc[r])
    BY <1>1, StageNames
<1>4. Stages' = [r \in Requests |-> IF r \in R THEN "over" ELSE Stages[r]]
    <2>1. Stages' = [r \in Requests |-> StateOf(pc'[r])]
        BY DEF Stages, StateOf
    <2>2. \A r \in Requests : Stages[r] = StateOf(pc[r])
        BY DEF Stages
    <2> HIDE DEF R
    <2> QED BY <1>3, <2>1, <2>2
<1>5. R \in SUBSET {r \in Requests : Stages[r] \in {"new", "asked", "generated"}}
    <2>1. \A r \in R : r \in Requests /\ Stages[r] \in {"new", "asked", "generated"}
        BY StageNames DEF Stages
    <2> QED BY <2>1
<1> HIDE DEF R
<1> QED BY <1>1, <1>2, <1>4, <1>5 DEF Cache!End, Stages

\* One step of the tiers is one of the cache, or none.
LEMMA CacheStep ==
    ASSUME StoreInv, [Next]_vars
    PROVE  [Cache!Next]_(Cache!vars)
<1>1. ASSUME NEW r \in Requests,
             StartBypassing(r) \/ StartPreload(r) \/ Search(r) \/ LookupFails(r)
      PROVE  Cache!Ask(r) \/ UNCHANGED Cache!vars
    <2>1. /\ pc[r] \in {"idle", "preloading", "embedding", "fetching"}
          /\ UNCHANGED <<work, redis, table, answer>>
        BY <1>1 DEF StartBypassing, StartPreload, Search, LookupFails, external
    <2>2. Goto(r, "calling") \/ Goto(r, "preloading") \/ Goto(r, "fetching")
        BY <1>1 DEF StartBypassing, StartPreload, Search, LookupFails
    <2> QED BY <2>1, <2>2, RequestLooks
<1>2. ASSUME NEW r \in Requests, StartLookup(r) \/ Preload(r) \/ PreloadFails(r)
      PROVE  Cache!Hit(r) \/ Cache!Ask(r) \/ UNCHANGED Cache!vars
    <2>1. /\ pc[r] \in {"idle", "preloading"} /\ UNCHANGED <<work, redis, table>>
          /\ r \notin Bypassing
        BY <1>2 DEF StartLookup, Preload, PreloadFails, external, StoreInv, BypassInv
    <2>2. \E ix : Lookup(r, ix)
        BY <1>2 DEF StartLookup, Preload, PreloadFails
    <2> QED BY <2>1, <2>2, LookupHits
<1>3. ASSUME NEW r \in Requests, CallFails(r) \/ IndexEntry(r) \/ SaveFails(r)
      PROVE  Cache!End
    <2>1. /\ pc[r] \in InFlight /\ UNCHANGED <<work, redis, table, answer>>
        BY <1>3 DEF CallFails, IndexEntry, SaveFails, external, InFlight
    <2>2. \E l \in {"done", "failed", "saved"} : Goto(r, l)
        BY <1>3 DEF CallFails, IndexEntry, SaveFails
    <2> QED BY <2>1, <2>2, RequestEnds
<1>4. CASE UNCHANGED vars
    <2>1. UNCHANGED <<work, redis, table, answer, pc>>
        BY <1>4 DEF vars
    <2> QED BY <2>1 DEF Cache!vars, Fresh, StateOf
<1> QED
    BY <1>1, <1>2, <1>3, <1>4, FetchHits, CompleteGenerates, InsertKeeps, ExpiryForgets,
       RestartEnds
       DEF Next, RequestStep, Quiescent, Cache!Next

\* With embedding models of one dimension the two tiers on all replicas, with indexes that
\* are lost and rebuilt, steps that fail half-way and entries that expire, are one cache of
\* responses that a provider gave: a hit is of a response that was complete before and is
\* still remembered, of the same call from Redis and an alike prompt from the table, never
\* for a request that bypasses the cache; the table loses none.
THEOREM CacheImplemented ==
    ASSUME \A d, e \in Dims \ {0} : d = e
    PROVE  Spec => ImplementsCache
<1>1. OneDimension
    BY DEF OneDimension
<1>2. Init => StoreInv
    BY InvInit, StoreInit DEF StoreInv
<1>3. StoreInv /\ [Next]_vars => StoreInv'
    BY <1>1, InvStep, StoreStep DEF StoreInv
<1>4. Spec => []StoreInv
    BY <1>2, <1>3, PTL DEF Spec
<1>5. StoreInv /\ [Next]_vars => [Cache!Next]_(Cache!vars)
    BY CacheStep
<1> QED BY <1>4, <1>5, CacheInit, PTL DEF Spec, ImplementsCache, Cache!Spec
=============================================================================
