---------------------------- MODULE ResponseCache ----------------------------
(***************************************************************************)
(* What the response cache promises to a request, with no replicas, no     *)
(* index, no keys and no database in sight.  There are two collections of  *)
(* responses that a provider gave: fresh ones, which may be forgotten at   *)
(* any time and answer the same call again, the same prompt on the same    *)
(* model; and lasting ones, which are never forgotten and answer alike     *)
(* prompts.  A request that bypasses the cache is never answered from it.  *)
(* No request is promised a hit.                                           *)
(***************************************************************************)

CONSTANTS Requests, Workloads, Alike, Bypassing, None

VARIABLES
    work,      \* work[r]: the prompt of r and its model
    state,     \* state[r]: how far r is
    fresh,     \* the responses that answer the same call again
    lasting,   \* the responses that answer alike prompts
    answer     \* answer[r]: the response r was answered with from the cache

vars == <<work, state, fresh, lasting, answer>>

Init ==
    /\ work \in Workloads
    /\ state = [r \in Requests |-> "new"]
    /\ fresh = {}
    /\ lasting = {}
    /\ answer = [r \in Requests |-> None]

Move(r, s) == state' = [state EXCEPT ![r] = s]

\* From the cache.
Hit(r) ==
    /\ state[r] = "new" /\ r \notin Bypassing
    /\ \E e \in fresh \cup lasting :
        /\ \/ e \in fresh /\ work[e] = work[r]
           \/ e \in lasting /\ <<work[r].prompt, work[e].prompt>> \in Alike
        /\ answer' = [answer EXCEPT ![r] = e]
    /\ Move(r, "hit")
    /\ UNCHANGED <<work, fresh, lasting>>

Ask(r) ==
    /\ state[r] = "new"
    /\ Move(r, "asked")
    /\ UNCHANGED <<work, fresh, lasting, answer>>

\* The provider answers: the response takes the place of an older one to the same
\* call, or is not remembered.
Generate(r) ==
    /\ state[r] = "asked"
    /\ fresh' \in {fresh, {e \in fresh : work[e] # work[r]} \cup {r}}
    /\ \E s \in {"generated", "over"} : Move(r, s)
    /\ UNCHANGED <<work, lasting, answer>>

Keep(r) ==
    /\ state[r] = "generated"
    /\ lasting' = lasting \cup {r}
    /\ UNCHANGED <<work, state, fresh, answer>>

Forget ==
    /\ \E e \in fresh : fresh' = fresh \ {e}
    /\ UNCHANGED <<work, state, lasting, answer>>

\* Requests end, together when the process ends that serves them.
End ==
    /\ \E R \in SUBSET {r \in Requests : state[r] \in {"new", "asked", "generated"}} :
        state' = [r \in Requests |-> IF r \in R THEN "over" ELSE state[r]]
    /\ UNCHANGED <<work, fresh, lasting, answer>>

Next ==
    \/ \E r \in Requests : Hit(r) \/ Ask(r) \/ Generate(r) \/ Keep(r)
    \/ Forget
    \/ End

Spec == Init /\ [][Next]_vars
=============================================================================
