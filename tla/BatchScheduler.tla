--------------------------- MODULE BatchScheduler ---------------------------
(***************************************************************************)
(* The micro-batching queue, engine/batch_scheduler.py, on one event loop. *)
(*                                                                         *)
(* Coroutines interleave only where they suspend: on the asyncio.Lock, on  *)
(* the sleep of the window timer, on the gather of a batch, and on their   *)
(* future.  The lock is first come first served: a coroutine that finds it *)
(* taken, or others waiting, queues up in `waiters`.                       *)
(***************************************************************************)
EXTENDS Integers, SequencesExt

CONSTANTS
    Requests,   \* the calls of add_to_batch
    MaxBatch,   \* max_batch_size
    Timer,      \* the task _wait_and_flush
    None        \* no coroutine, no answer

ASSUME BatchAssumption ==
    /\ IsFiniteSet(Requests)
    /\ MaxBatch \in Nat \ {0}
    /\ Timer \notin Requests /\ None \notin Requests /\ Timer # None

VARIABLES
    cancelling,  \* whether callers may be cancelled in this behaviour
    pc,          \* pc[r]: where the call of r is
    queue,       \* _queue
    holder,      \* who holds _lock across a suspension
    waiters,     \* who waits for _lock
    timer,       \* the state of _running_task
    batch,       \* current_batch of the flush under way
    finished,    \* the executions of the batch that have ended, in that order
    started,     \* started[r]: how often execute_fn was called for r
    answer       \* answer[r]: whose result the future of r was given

vars == <<cancelling, pc, queue, holder, waiters, timer, batch, finished,
          started, answer>>

-----------------------------------------------------------------------------
Init ==
    /\ cancelling \in BOOLEAN
    /\ pc = [r \in Requests |-> "idle"]
    /\ queue = <<>>
    /\ holder = None
    /\ waiters = <<>>
    /\ timer = "none"
    /\ batch = <<>>
    /\ finished = <<>>
    /\ started = [r \in Requests |-> 0]
    /\ answer = [r \in Requests |-> None]

Goto(r, l) == pc' = [pc EXCEPT ![r] = l]

LockFree == holder = None /\ waiters = <<>>

\* Mutant: the flush forgets to empty the queue.
LeftInQueue(q) == q

\* What a flush leaves in the queue.
AfterFlush(q) == <<>>

\* _flush_batch up to the gather, by h who keeps the lock.
StartFlush(h, q) ==
    /\ holder' = h
    /\ batch' = q
    /\ queue' = AfterFlush(q)
    /\ finished' = <<>>
    /\ started' = [r \in Requests |-> IF r \in ToSet(q) THEN started[r] + 1 ELSE started[r]]

\* Mutant: only the very first request of all arms the timer.
ArmedOnce == IF timer = "none" THEN "sleeping" ELSE timer

\* A new timer is created unless one is still running.
Armed == IF timer \in {"none", "done"} THEN "sleeping" ELSE timer

SizeReached(q) == Len(q) >= MaxBatch

\* The body of add_to_batch under the lock.
Enqueue(r) ==
    LET q == Append(queue, r) IN
    IF SizeReached(q)
    THEN /\ StartFlush(r, q)
         /\ Goto(r, "flushing")
         /\ UNCHANGED timer
    ELSE /\ queue' = q
         /\ timer' = Armed
         /\ Goto(r, "awaiting")
         /\ UNCHANGED <<holder, batch, finished, started>>

\* A call arrives and gets the lock at once, or waits for it.
Call(r) ==
    /\ pc[r] = "idle"
    /\ \/ /\ LockFree
          /\ Enqueue(r)
          /\ UNCHANGED waiters
       \/ /\ ~LockFree
          /\ waiters' = Append(waiters, r)
          /\ Goto(r, "waiting")
          /\ UNCHANGED <<queue, holder, timer, batch, finished, started>>
    /\ UNCHANGED <<cancelling, answer>>

\* The timer has the lock: it flushes what it finds.
TimerFlush ==
    IF queue = <<>>
    THEN timer' = "done" /\ UNCHANGED <<queue, holder, batch, finished, started>>
    ELSE timer' = "flushing" /\ StartFlush(Timer, queue)

\* The batch window is over.
TimerExpires ==
    /\ timer = "sleeping"
    /\ \/ /\ LockFree
          /\ TimerFlush
          /\ UNCHANGED waiters
       \/ /\ ~LockFree
          /\ waiters' = Append(waiters, Timer)
          /\ timer' = "waiting"
          /\ UNCHANGED <<queue, holder, batch, finished, started>>
    /\ UNCHANGED <<cancelling, pc, answer>>

\* The lock is released: the first of the waiters goes on.
Acquire ==
    /\ holder = None
    /\ waiters # <<>>
    /\ waiters' = Tail(waiters)
    /\ \/ Head(waiters) = Timer /\ TimerFlush /\ UNCHANGED pc
       \/ Head(waiters) # Timer /\ Enqueue(Head(waiters))
    /\ UNCHANGED <<cancelling, answer>>

\* One execution of the batch ends, with a result or with an exception.
ExecutionEnds(r) ==
    /\ holder # None
    /\ r \in ToSet(batch) \ ToSet(finished)
    /\ finished' = Append(finished, r)
    /\ UNCHANGED <<cancelling, pc, queue, holder, waiters, timer, batch, started, answer>>

\* Mutant: results are taken in the order the executions ended.
ResultsAsCompleted == finished

\* asyncio.gather returns the results in the order of the batch.
Results == batch

\* Mutant: the loop over the results misses the last one.
SettledButLast ==
    {i \in 1..(Len(batch) - 1) : \A j \in 1..i : pc[batch[j]] # "cancelled"}

\* The positions of the batch that the loop over the results gets to: it stops at
\* a future that was cancelled, where set_result raises InvalidStateError.
Settled ==
    {i \in DOMAIN batch : \A j \in 1..i : pc[batch[j]] # "cancelled"}

\* All executions have ended: the futures are resolved and the lock released.
Resolve ==
    /\ holder # None
    /\ ToSet(batch) = ToSet(finished)
    /\ answer' = [r \in Requests |->
                    IF \E i \in Settled : batch[i] = r
                    THEN Results[CHOOSE i \in Settled : batch[i] = r] ELSE answer[r]]
    /\ IF holder = Timer
       THEN timer' = "done" /\ UNCHANGED pc
       ELSE /\ Goto(holder, IF Settled = DOMAIN batch THEN "returned" ELSE "failed")
            /\ UNCHANGED timer
    /\ holder' = None
    /\ batch' = <<>>
    /\ finished' = <<>>
    /\ UNCHANGED <<cancelling, queue, waiters, started>>

\* The future of r was resolved: add_to_batch returns.
Return(r) ==
    /\ pc[r] = "awaiting"
    /\ answer[r] # None
    /\ Goto(r, "returned")
    /\ UNCHANGED <<cancelling, queue, holder, waiters, timer, batch, finished,
                   started, answer>>

\* The caller is cancelled while it waits for the lock.
CancelWaiting(r) ==
    /\ cancelling
    /\ pc[r] = "waiting"
    /\ \E i \in DOMAIN waiters :
        waiters[i] = r /\ waiters' = RemoveAt(waiters, i)
    /\ Goto(r, "cancelled")
    /\ UNCHANGED <<cancelling, queue, holder, timer, batch, finished, started, answer>>

\* The caller is cancelled while it waits for its future; its request stays.
CancelAwaiting(r) ==
    /\ cancelling
    /\ pc[r] = "awaiting"
    /\ Goto(r, "cancelled")
    /\ UNCHANGED <<cancelling, queue, holder, waiters, timer, batch, finished,
                   started, answer>>

\* The caller that flushes is cancelled in the gather: the batch is dropped.
CancelFlush(r) ==
    /\ cancelling
    /\ pc[r] = "flushing"
    /\ Goto(r, "cancelled")
    /\ holder' = None
    /\ batch' = <<>>
    /\ finished' = <<>>
    /\ UNCHANGED <<cancelling, queue, waiters, timer, started, answer>>

Over(r) == pc[r] \in {"returned", "failed", "cancelled"}

\* Nothing is left to happen; calls that never return also end up here.
Quiescent ==
    /\ \A r \in Requests : Over(r) \/ (pc[r] = "awaiting" /\ answer[r] = None)
    /\ holder = None /\ waiters = <<>> /\ queue = <<>>
    /\ timer \in {"none", "done"}
    /\ UNCHANGED vars

LoopStep ==
    \/ TimerExpires \/ Acquire \/ Resolve
    \/ \E r \in Requests : ExecutionEnds(r) \/ Return(r)

Next ==
    \/ LoopStep
    \/ \E r \in Requests :
        Call(r) \/ CancelWaiting(r) \/ CancelAwaiting(r) \/ CancelFlush(r)
    \/ Quiescent

Spec == Init /\ [][Next]_vars

\* The event loop runs what is ready, sleeps end and executions end.
FairSpec ==
    /\ Spec
    /\ WF_vars(TimerExpires) /\ WF_vars(Acquire) /\ WF_vars(Resolve)
    /\ \A r \in Requests : WF_vars(ExecutionEnds(r)) /\ WF_vars(Return(r))

-----------------------------------------------------------------------------
(* Properties.                                                             *)

\* Every variable has its type.
TypeOK ==
    /\ cancelling \in BOOLEAN
    /\ pc \in [Requests -> {"idle", "waiting", "awaiting", "flushing",
                            "returned", "failed", "cancelled"}]
    /\ queue \in Seq(Requests)
    /\ holder \in Requests \cup {Timer, None}
    /\ waiters \in Seq(Requests \cup {Timer})
    /\ timer \in {"none", "sleeping", "waiting", "flushing", "done"}
    /\ batch \in Seq(Requests)
    /\ finished \in Seq(Requests)
    /\ started \in [Requests -> 0..1]
    /\ answer \in [Requests -> Requests \cup {None}]

\* Queued requests always have a timer that will flush them: it sleeps or is one
\* of those waiting for the lock.  Holds even when callers are cancelled and
\* batches are dropped (_running_task is rearmed by add_to_batch only).
QueueIsTimed ==
    queue # <<>> => timer = "sleeping" \/ (timer = "waiting" /\ Timer \in ToSet(waiters))

\* A batch never has more than max_batch_size requests, and between two steps the
\* queue never has that many.
BatchBounded == Len(batch) <= MaxBatch /\ Len(queue) < MaxBatch

\* A request is executed once at most (_flush_batch empties the queue before it
\* suspends), and a call returns the result of its own request, whatever the order
\* in which the executions of its batch end.
OwnResultOnce ==
    \A r \in Requests :
        /\ started[r] <= 1
        /\ answer[r] \in {r, None}
        /\ answer[r] = r => started[r] = 1
        /\ pc[r] = "returned" => answer[r] = r

Waits(r) == pc[r] \in {"waiting", "awaiting", "flushing"}

\* As long as no caller is cancelled, every call returns.
CallsReturn == ~cancelling => \A r \in Requests : Waits(r) ~> pc[r] = "returned"
=============================================================================
