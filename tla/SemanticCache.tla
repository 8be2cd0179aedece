---------------------------- MODULE SemanticCache ----------------------------
(***************************************************************************)
(* The two-tier response cache, engine/semantic_cache.py, as it is used by *)
(* the requests of several replicas.                                       *)
(*                                                                         *)
(* Redis (L1) and the table cache_entries are shared.  The FAISS index and *)
(* the list db_ids, which says what row a vector of the index stands for,  *)
(* live in the memory of one replica: they are built by the first request  *)
(* that comes after a start, and lost when the replica stops.  A request   *)
(* is cut at every await; what stands between two awaits is one step.      *)
(*                                                                         *)
(* A cached response, its row and its vector are all named by the request  *)
(* whose completion they hold.  hit_count, which nothing reads, and the    *)
(* cost metadata of a hit are left out.                                    *)
(***************************************************************************)
EXTENDS EmbeddingRegistry

CONSTANTS
    Requests,     \* the calls of the clients
    Replicas,     \* the gateway processes
    Prompts,      \* the texts the messages of a request are joined to
    Models,       \* the models a request may be routed to
    Workloads,    \* what the clients may ask: a prompt and a model per request
    Alike,        \* the pairs of prompts whose similarity reaches the threshold
    Bypassing,    \* the requests with cache_policy "never"
    Settings,     \* the environments a replica may start in
    MaxRestarts,  \* bound: how many times a replica is restarted
    None          \* no request

ASSUME RequestsAssumption ==
    /\ IsFiniteSet(Requests) /\ None \notin Requests
    /\ Bypassing \subseteq Requests
    /\ Workloads \subseteq [Requests -> [prompt : Prompts, model : Models]]
ASSUME AlikeAssumption == \A p \in Prompts : <<p, p>> \in Alike
ASSUME ReplicasAssumption ==
    /\ Replicas # {} /\ MaxRestarts \in Nat
    /\ Settings \subseteq Environments /\ Settings # {}

VARIABLES
    faulty,       \* whether calls of other services may fail in this behaviour
    work,         \* work[r]: the prompt of r and its model, as routed
    host,         \* host[r]: the replica that serves r
    redis,        \* redis[k]: the response cached under the L1 key k
    table,        \* cache_entries: for each row, the dimension of its embedding
    dim,          \* dim[p]: the dimension of the embeddings of replica p, 0 for none
    initialized,  \* _initialized of each replica
    index,        \* faiss_index of each replica, as the rows embedded in it
    db_ids,       \* db_ids of each replica
    restarts,     \* how many restarts there were
    pc,           \* pc[r]: where the handler of r is
    found,        \* found[r]: db_id of the nearest neighbour
    answer        \* answer[r]: the cached response that was returned for r

vars == <<faulty, work, host, redis, table, dim, initialized, index, db_ids, restarts,
          pc, found, answer>>
external == <<faulty, work, host, dim, restarts>>

Prompt(r) == work[r].prompt

\* _get_exact_key, without collisions.
KeyOf(r) == work[r]

Keys == [prompt : Prompts, model : Models]

\* The dimensions of the embedding models that get configured.
Dims == {EmbeddingDim(env) : env \in Settings}

InFlight == {"preloading", "embedding", "fetching", "calling", "storing", "indexing"}
Over == {"hit", "saved", "done", "failed"}

Init ==
    /\ faulty \in BOOLEAN
    /\ work \in Workloads
    /\ host \in [Requests -> Replicas]
    /\ redis = [k \in Keys |-> None]
    /\ table = [e \in {} |-> 0]
    /\ dim \in [Replicas -> Dims]
    /\ initialized = [p \in Replicas |-> FALSE]
    /\ index = [p \in Replicas |-> <<>>]
    /\ db_ids = [p \in Replicas |-> <<>>]
    /\ restarts = 0
    /\ pc = [r \in Requests |-> "idle"]
    /\ found = [r \in Requests |-> None]
    /\ answer = [r \in Requests |-> None]

Goto(r, l) == pc' = [pc EXCEPT ![r] = l]

Serve(r, e) ==
    /\ answer' = [answer EXCEPT ![r] = e]
    /\ Goto(r, "hit")

\* get_cached_response up to its first await: the exact match in Redis, else the
\* search in the index ix, unless there is nothing in it.
Lookup(r, ix) ==
    \/ /\ redis[KeyOf(r)] # None
       /\ Serve(r, redis[KeyOf(r)])
    \/ /\ redis[KeyOf(r)] = None \/ faulty
       /\ Goto(r, IF ix = <<>> THEN "calling" ELSE "embedding")
       /\ UNCHANGED answer

\* process does not look at the cache.
StartBypassing(r) ==
    /\ pc[r] = "idle" /\ r \in Bypassing
    /\ Goto(r, "calling")
    /\ UNCHANGED <<external, redis, table, initialized, index, db_ids, found, answer>>

\* process of a request that finds the replica initialized, or without an active
\* embedding provider.
StartLookup(r) ==
    /\ pc[r] = "idle" /\ r \notin Bypassing
    /\ initialized[host[r]] \/ dim[host[r]] = 0
    /\ Lookup(r, index[host[r]])
    /\ UNCHANGED <<external, redis, table, initialized, index, db_ids, found>>

\* process of the first request: the index is created, its content is awaited.
StartPreload(r) ==
    /\ pc[r] = "idle" /\ r \notin Bypassing
    /\ ~initialized[host[r]] /\ dim[host[r]] # 0
    /\ initialized' = [initialized EXCEPT ![host[r]] = TRUE]
    /\ Goto(r, "preloading")
    /\ UNCHANGED <<external, redis, table, index, db_ids, found, answer>>

\* Mutant: the query for the rows has a limit.
RowsUpToOne(rows) == IF rows = {} THEN {<<>>} ELSE {<<e>> : e \in rows}

\* The rows in any order the database likes.
RowsOf(rows) == SetToSeqs(rows)

\* Mutant: the list is assigned, not extended.
ListedAlone(ids, s) == s

\* The ids of the rows join those of the entries saved since the index was created.
Listed(ids, s) == ids \o s

\* The vectors fit the index only when all have its dimension.
VectorsFit(p, s) == \A i \in DOMAIN s : table[s[i]] = dim[p]

\* The rows arrive.  Their ids are listed first: they stay listed when the
\* vectors do not fit and the error is swallowed.
Preload(r) ==
    LET p == host[r] IN
    /\ pc[r] = "preloading"
    /\ \E s \in RowsOf(DOMAIN table) :
        /\ db_ids' = [db_ids EXCEPT ![p] = Listed(@, s)]
        /\ index' = [index EXCEPT ![p] = IF VectorsFit(p, s) THEN @ \o s ELSE @]
    /\ Lookup(r, index'[p])
    /\ UNCHANGED <<external, redis, table, initialized, found>>

\* The query for the rows fails: the replica goes on with what it has.
PreloadFails(r) ==
    /\ faulty
    /\ pc[r] = "preloading"
    /\ Lookup(r, index[host[r]])
    /\ UNCHANGED <<external, redis, table, initialized, index, db_ids, found>>

\* Mutant: the similarity is not compared with the threshold.
NearestAtAll(r, ix) == DOMAIN ix

\* Where the nearest neighbour may be in the index ix, if it reaches the threshold:
\* nothing is nearer than the same prompt.
Nearest(r, ix) ==
    LET same == {i \in DOMAIN ix : Prompt(ix[i]) = Prompt(r)} IN
    IF same # {} THEN same
    ELSE {i \in DOMAIN ix : <<Prompt(r), Prompt(ix[i])>> \in Alike}

\* The prompt is embedded: search the index, translate the position to an id.
Search(r) ==
    LET p == host[r] IN
    /\ pc[r] = "embedding"
    /\ \/ \E i \in Nearest(r, index[p]) :
            /\ found' = [found EXCEPT ![r] = db_ids[p][i]]
            /\ Goto(r, "fetching")
       \/ /\ Nearest(r, index[p]) = {}
          /\ Goto(r, "calling")
          /\ UNCHANGED found
    /\ UNCHANGED <<external, redis, table, initialized, index, db_ids, answer>>

\* The row is loaded and its response returned.
Fetch(r) ==
    /\ pc[r] = "fetching"
    /\ Serve(r, found[r])
    /\ UNCHANGED <<external, redis, table, initialized, index, db_ids, found>>

\* The embedding, the load of the row or the update of hit_count fails: a miss.
LookupFails(r) ==
    /\ faulty
    /\ pc[r] \in {"embedding", "fetching"}
    /\ Goto(r, "calling")
    /\ UNCHANGED <<external, redis, table, initialized, index, db_ids, found, answer>>

\* The provider answers; save_to_cache writes to Redis, and goes on to the second
\* tier if the replica is initialized.  Every policy comes this way.
Complete(r) ==
    /\ pc[r] = "calling"
    /\ \/ redis' = [redis EXCEPT ![KeyOf(r)] = r]
       \/ faulty /\ UNCHANGED redis
    /\ Goto(r, IF initialized[host[r]] THEN "storing" ELSE "done")
    /\ UNCHANGED <<external, table, initialized, index, db_ids, found, answer>>

\* The provider fails.
CallFails(r) ==
    /\ pc[r] = "calling"
    /\ Goto(r, "failed")
    /\ UNCHANGED <<external, redis, table, initialized, index, db_ids, found, answer>>

\* The prompt is embedded and the row committed.
Insert(r) ==
    /\ pc[r] = "storing"
    /\ table' = [e \in DOMAIN table \cup {r} |-> IF e = r THEN dim[host[r]] ELSE table[e]]
    /\ Goto(r, "indexing")
    /\ UNCHANGED <<external, redis, initialized, index, db_ids, found, answer>>

\* Mutant: the id is read before the database has assigned it.
SavedIdUnset(r) == None

SavedId(r) == r

\* The row is refreshed: its vector and its id are appended without an await.
IndexEntry(r) ==
    LET p == host[r] IN
    /\ pc[r] = "indexing"
    /\ index' = [index EXCEPT ![p] = Append(@, r)]
    /\ db_ids' = [db_ids EXCEPT ![p] = Append(@, SavedId(r))]
    /\ Goto(r, "saved")
    /\ UNCHANGED <<external, redis, table, initialized, found, answer>>

\* The embedding, the INSERT or the refresh fails; the response is returned.
SaveFails(r) ==
    /\ faulty
    /\ pc[r] \in {"storing", "indexing"}
    /\ Goto(r, "done")
    /\ UNCHANGED <<external, redis, table, initialized, index, db_ids, found, answer>>

\* The time to live of an L1 entry is over.
Expire(k) ==
    /\ redis[k] # None
    /\ redis' = [redis EXCEPT ![k] = None]
    /\ UNCHANGED <<external, table, initialized, index, db_ids, pc, found, answer>>

\* A replica stops, with all its requests, and starts again, perhaps with another
\* embedding model or without one.
Restart(p) ==
    /\ restarts < MaxRestarts
    /\ restarts' = restarts + 1
    /\ \E d \in Dims : dim' = [dim EXCEPT ![p] = d]
    /\ initialized' = [initialized EXCEPT ![p] = FALSE]
    /\ index' = [index EXCEPT ![p] = <<>>]
    /\ db_ids' = [db_ids EXCEPT ![p] = <<>>]
    /\ pc' = [r \in Requests |->
                IF host[r] = p /\ pc[r] \in InFlight THEN "failed" ELSE pc[r]]
    /\ UNCHANGED <<faulty, work, host, redis, table, found, answer>>

\* All requests are over; entries may still expire and replicas restart.
Quiescent == (\A r \in Requests : pc[r] \in Over) /\ UNCHANGED vars

RequestStep(r) ==
    \/ StartBypassing(r) \/ StartLookup(r) \/ StartPreload(r)
    \/ Preload(r) \/ PreloadFails(r) \/ Search(r) \/ Fetch(r) \/ LookupFails(r)
    \/ Complete(r) \/ CallFails(r) \/ Insert(r) \/ IndexEntry(r) \/ SaveFails(r)

Next ==
    \/ \E r \in Requests : RequestStep(r)
    \/ \E k \in Keys : Expire(k)
    \/ \E p \in Replicas : Restart(p)
    \/ Quiescent

Spec == Init /\ [][Next]_vars

-----------------------------------------------------------------------------
(* Properties.                                                             *)

\* Every variable has its type.
TypeOK ==
    /\ faulty \in BOOLEAN
    /\ work \in Workloads
    /\ host \in [Requests -> Replicas]
    /\ redis \in [Keys -> Requests \cup {None}]
    /\ DOMAIN table \subseteq Requests /\ \A e \in DOMAIN table : table[e] \in Dims \ {0}
    /\ dim \in [Replicas -> Dims]
    /\ initialized \in [Replicas -> BOOLEAN]
    /\ index \in [Replicas -> Seq(Requests)]
    /\ db_ids \in [Replicas -> Seq(Requests)]
    /\ restarts \in 0..MaxRestarts
    /\ pc \in [Requests -> {"idle"} \cup InFlight \cup Over]
    /\ found \in [Requests -> Requests \cup {None}]
    /\ answer \in [Requests -> Requests \cup {None}]

\* The vector at a position of the index is that of the row at this position of
\* db_ids, although requests save while another one preloads, a replica restarts
\* between the steps of a save, and saves and loads fail.
Aligned == index = db_ids

\* A response from the cache was generated for a prompt that is alike, and an
\* exact match for the same model as well (get_cached_response).
HitIsRelevant ==
    \A r \in Requests :
        pc[r] = "hit" =>
            /\ answer[r] # None
            /\ \/ work[answer[r]] = work[r]
               \/ <<Prompt(r), Prompt(answer[r])>> \in Alike /\ found[r] = answer[r]

\* What save_to_cache saved can be found by the replica that saved it, even after
\* the replica was restarted, unless the rows are being loaded or could not be.
SavedIsFindable ==
    \A r \in Requests :
        /\ pc[r] = "saved" /\ ~faulty
        /\ initialized[host[r]]
        /\ \A q \in Requests : host[q] = host[r] => pc[q] # "preloading"
        => r \in ToSet(index[host[r]])

-----------------------------------------------------------------------------
(* What the two tiers promise together.                                    *)

\* What is in Redis, under some key.
Fresh == {redis[k] : k \in Keys} \ {None}

\* How far a request is, as its client sees it.
StateOf(l) ==
    CASE l \in {"idle", "preloading", "embedding", "fetching"} -> "new"
      [] l = "calling" -> "asked"
      [] l \in {"storing", "indexing"} -> "generated"
      [] l = "hit" -> "hit"
      [] OTHER -> "over"

Cache == INSTANCE ResponseCache WITH
    state <- [r \in Requests |-> StateOf(pc[r])],
    fresh <- Fresh,
    lasting <- DOMAIN table

\* However many replicas share it and whatever happens to their indexes, the cache is
\* one of responses that a provider gave, of which those in the table are never lost.
ImplementsCache == Cache!Spec
=============================================================================
