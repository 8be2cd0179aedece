------------------------ MODULE BatchSchedulerProofs ------------------------
(***************************************************************************)
(* Proofs about BatchScheduler, for every set of calls, every batch size   *)
(* and whether or not callers are cancelled.                               *)
(***************************************************************************)
EXTENDS BatchScheduler, SequenceTheorems, TLAPS

-----------------------------------------------------------------------------
(* Sequences.                                                              *)

\* RemoveAt drops one position and keeps the order of the others.
LEMMA RemoveAtElements ==
    ASSUME NEW S, NEW s \in Seq(S), NEW i \in DOMAIN s
    PROVE  /\ RemoveAt(s, i) \in Seq(S)
           /\ Len(RemoveAt(s, i)) = Len(s) - 1
           /\ \A j \in 1..(Len(s) - 1) :
                RemoveAt(s, i)[j] = IF j < i THEN s[j] ELSE s[j + 1]
<1> DEFINE a == SubSeq(s, 1, i - 1)
           b == SubSeq(s, i + 1, Len(s))
<1>1. i \in 1..Len(s) /\ Len(s) \in Nat
    OBVIOUS
<1>2. a \in Seq(S) /\ Len(a) = i - 1 /\ \A j \in 1..(i - 1) : a[j] = s[j]
    BY <1>1
<1>3. b \in Seq(S) /\ Len(b) = Len(s) - i /\ \A j \in 1..(Len(s) - i) : b[j] = s[i + j]
    BY <1>1
<1>4. RemoveAt(s, i) = a \o b
    BY DEF RemoveAt
<1> HIDE DEF a, b
<1>5. a \o b \in Seq(S) /\ Len(a \o b) = Len(s) - 1
    BY <1>1, <1>2, <1>3
<1>6. \A j \in 1..(Len(s) - 1) : (a \o b)[j] = IF j < i THEN s[j] ELSE s[j + 1]
    BY <1>1, <1>2, <1>3
<1> QED BY <1>4, <1>5, <1>6

\* The members of a queue with one more at its end.
LEMMA AppendMembers ==
    ASSUME NEW S, NEW s \in Seq(S), NEW e \in S
    PROVE  /\ Append(s, e) \in Seq(S) /\ Append(s, e) # <<>>
           /\ Len(Append(s, e)) = Len(s) + 1
           /\ \A j \in DOMAIN Append(s, e) :
                \/ j \in DOMAIN s /\ Append(s, e)[j] = s[j]
                \/ Append(s, e)[j] = e
           /\ \A j \in DOMAIN s : j \in DOMAIN Append(s, e) /\ Append(s, e)[j] = s[j]
           /\ Len(s) + 1 \in DOMAIN Append(s, e) /\ Append(s, e)[Len(s) + 1] = e
OBVIOUS

\* A queue is its head followed by its tail.
LEMMA TailMembers ==
    ASSUME NEW S, NEW s \in Seq(S), s # <<>>
    PROVE  /\ Head(s) \in S /\ Tail(s) \in Seq(S) /\ Len(Tail(s)) = Len(s) - 1
           /\ 1 \in DOMAIN s /\ s[1] = Head(s)
           /\ \A j \in DOMAIN Tail(s) : j + 1 \in DOMAIN s /\ Tail(s)[j] = s[j + 1]
           /\ \A j \in DOMAIN s : j # 1 => j - 1 \in DOMAIN Tail(s) /\ Tail(s)[j - 1] = s[j]
OBVIOUS

-----------------------------------------------------------------------------
(* The inductive invariant.                                                *)

Coroutine == Requests \cup {Timer}

\* The lock is held by the flush that is under way.
LockInv ==
    /\ \A r \in Requests : pc[r] = "flushing" <=> holder = r
    /\ timer = "flushing" <=> holder = Timer

\* Nobody waits twice for the lock, and who waits knows it.
WaitersInv ==
    /\ timer = "waiting" => Timer \in ToSet(waiters)
    /\ \A i \in DOMAIN waiters :
        /\ waiters[i] = Timer => timer = "waiting"
        /\ waiters[i] # Timer => pc[waiters[i]] = "waiting"
    /\ \A i, j \in DOMAIN waiters : waiters[i] = waiters[j] => i = j

\* What was not flushed was not started.
QueueInv ==
    /\ \A i \in DOMAIN queue :
        started[queue[i]] = 0 /\ pc[queue[i]] \in {"awaiting", "cancelled"}
    /\ \A r \in Requests : pc[r] \in {"idle", "waiting"} => started[r] = 0

\* What is in a batch was started, and the caller that flushes is part of it.
BatchInv ==
    /\ \A i \in DOMAIN batch : started[batch[i]] = 1
    /\ holder \in Requests => \E i \in DOMAIN batch : batch[i] = holder

IInv ==
    /\ TypeOK /\ LockInv /\ WaitersInv /\ QueueInv /\ BatchInv
    /\ QueueIsTimed /\ BatchBounded /\ OwnResultOnce

\* The invariant holds when no call was made yet.
LEMMA IInvInit == Init => IInv
<1> SUFFICES ASSUME Init PROVE IInv
    OBVIOUS
<1>1. None \notin Requests /\ None # Timer /\ MaxBatch > 0
    BY BatchAssumption
<1>2. ToSet(waiters) = {} /\ Len(queue) = 0 /\ Len(batch) = 0
    BY DEF Init, ToSet
<1> QED BY <1>1, <1>2, BatchAssumption DEF Init, IInv, TypeOK, LockInv, WaitersInv,
        QueueInv, BatchInv, QueueIsTimed, BatchBounded, OwnResultOnce

\* Starting a flush of q, none of which was started, keeps what is known of it.
LEMMA FlushStarts ==
    ASSUME TypeOK, BatchInv, NEW h \in Coroutine, NEW q \in Seq(Requests),
           q # <<>>, Len(q) <= MaxBatch,
           \A i \in DOMAIN q : started[q[i]] = 0,
           h # Timer => \E i \in DOMAIN q : q[i] = h,
           StartFlush(h, q)
    PROVE  /\ holder' = h /\ queue' = <<>> /\ batch' = q /\ finished' = <<>>
           /\ started' \in [Requests -> 0..1]
           /\ \A r \in Requests : started[r] = 1 => started'[r] = 1
           /\ \A r \in Requests : (\A i \in DOMAIN q : q[i] # r) => started'[r] = started[r]
           /\ BatchInv' /\ BatchBounded'
<1>1. \A i \in DOMAIN q : q[i] \in Requests
    OBVIOUS
<1>2. \A r \in Requests : r \in ToSet(q) <=> \E i \in DOMAIN q : q[i] = r
    BY DEF ToSet
<1>3. started' = [r \in Requests |-> IF r \in ToSet(q) THEN started[r] + 1 ELSE started[r]]
    BY DEF StartFlush
<1>4. \A r \in Requests : r \in ToSet(q) => started[r] = 0
    BY <1>2
<1>5. started \in [Requests -> 0..1]
    BY DEF TypeOK
<1>6. started' \in [Requests -> 0..1]
    BY <1>3, <1>4, <1>5
<1>7. \A i \in DOMAIN q : started'[q[i]] = 1
    BY <1>1, <1>2, <1>3, <1>4
<1>8. \A r \in Requests : started[r] = 1 => started'[r] = 1
    BY <1>3, <1>4
<1>9. \A r \in Requests : (\A i \in DOMAIN q : q[i] # r) => started'[r] = started[r]
    BY <1>2, <1>3
<1>10. holder' = h /\ queue' = <<>> /\ batch' = q /\ finished' = <<>>
    BY DEF StartFlush, AfterFlush
<1>11. BatchInv'
    BY <1>7, <1>10, BatchAssumption DEF BatchInv, Coroutine
<1>12. BatchBounded'
    BY <1>10, BatchAssumption DEF BatchBounded
<1> QED BY <1>6, <1>8, <1>9, <1>10, <1>11, <1>12

-----------------------------------------------------------------------------
(* The steps.                                                              *)

\* A request is appended, and flushed with the others or put under the timer.
LEMMA EnqueueStep ==
    ASSUME IInv, NEW r \in Requests, pc[r] \in {"idle", "waiting"}, holder = None,
           Enqueue(r), UNCHANGED <<cancelling, answer>>,
           waiters' \in Seq(Coroutine), WaitersInv'
    PROVE  IInv'
<1> DEFINE q == Append(queue, r)
<1>1. queue \in Seq(Requests) /\ Len(queue) < MaxBatch /\ started[r] = 0
    BY DEF IInv, TypeOK, BatchBounded, QueueInv
<1>2. /\ q \in Seq(Requests) /\ q # <<>> /\ Len(q) <= MaxBatch
      /\ \A j \in DOMAIN q : q[j] = r \/ (j \in DOMAIN queue /\ q[j] = queue[j])
      /\ \E j \in DOMAIN q : q[j] = r
    BY <1>1, AppendMembers, BatchAssumption
<1>3. \A j \in DOMAIN q : started[q[j]] = 0
    BY <1>1, <1>2 DEF IInv, QueueInv
<1>4. r # None /\ r # Timer
    BY BatchAssumption
<1> HIDE DEF q
<1>5. CASE SizeReached(q)
    <2>1. StartFlush(r, q) /\ Goto(r, "flushing") /\ UNCHANGED timer
        BY <1>5 DEF Enqueue, q
    <2>2. /\ holder' = r /\ queue' = <<>> /\ batch' = q /\ finished' = <<>>
          /\ started' \in [Requests -> 0..1]
          /\ \A x \in Requests : started[x] = 1 => started'[x] = 1
          /\ \A x \in Requests : (\A i \in DOMAIN q : q[i] # x) => started'[x] = started[x]
          /\ BatchInv' /\ BatchBounded'
        BY <1>2, <1>3, <2>1, FlushStarts DEF IInv, Coroutine
    <2>3. pc' = [pc EXCEPT ![r] = "flushing"]
        BY <2>1 DEF Goto
    <2>4. TypeOK'
        BY <1>2, <2>1, <2>2, <2>3 DEF IInv, TypeOK, Coroutine
    <2>5. LockInv'
        BY <1>4, <2>1, <2>2, <2>3, BatchAssumption DEF IInv, TypeOK, LockInv
    <2>6. QueueInv'
        <3>1. \A x \in Requests : pc'[x] \in {"idle", "waiting"} =>
                x # r /\ started[x] = 0 /\ pc[x] \in {"idle", "waiting"}
            BY <2>3 DEF IInv, TypeOK, QueueInv
        <3>2. \A x \in Requests : pc'[x] \in {"idle", "waiting"} =>
                \A i \in DOMAIN q : q[i] # x
            BY <1>2, <3>1 DEF IInv, QueueInv
        <3> QED BY <2>2, <3>1, <3>2 DEF QueueInv
    <2>7. QueueIsTimed'
        BY <2>2 DEF QueueIsTimed
    <2>8. OwnResultOnce'
        BY <2>1, <2>2, <2>3, <2>4 DEF IInv, TypeOK, OwnResultOnce
    <2> QED BY <2>2, <2>4, <2>5, <2>6, <2>7, <2>8 DEF IInv
<1>6. CASE ~SizeReached(q)
    <2>1. /\ queue' = q /\ timer' = Armed /\ Goto(r, "awaiting")
          /\ UNCHANGED <<holder, batch, finished, started>>
        BY <1>6 DEF Enqueue, q
    <2>2. pc' = [pc EXCEPT ![r] = "awaiting"]
        BY <2>1 DEF Goto
    <2>3. timer # "flushing"
        BY BatchAssumption DEF IInv, LockInv
    <2>4. TypeOK'
        BY <1>2, <2>1, <2>2 DEF IInv, TypeOK, Coroutine, Armed
    <2>5. LockInv'
        BY <1>4, <2>1, <2>2, <2>3, BatchAssumption DEF IInv, TypeOK, LockInv, Armed
    <2>6. QueueInv'
        BY <1>1, <1>2, <2>1, <2>2 DEF IInv, TypeOK, QueueInv
    <2>7. BatchInv'
        BY <2>1 DEF IInv, BatchInv
    <2>8. QueueIsTimed'
        <3>1. timer \in {"none", "done", "sleeping"} => timer' = "sleeping"
            BY <2>1 DEF Armed
        <3>2. timer = "waiting" => timer' = "waiting"
            BY <2>1 DEF Armed
        <3>3. timer' = "waiting" => Timer \in ToSet(waiters)'
            BY DEF WaitersInv
        <3> QED BY <2>3, <3>1, <3>2, <3>3 DEF IInv, TypeOK, QueueIsTimed
    <2>9. BatchBounded'
        BY <1>2, <1>6, <2>1, BatchAssumption DEF IInv, TypeOK, BatchBounded, SizeReached
    <2>10. OwnResultOnce'
        BY <2>1, <2>2 DEF IInv, TypeOK, OwnResultOnce
    <2> QED BY <2>4, <2>5, <2>6, <2>7, <2>8, <2>9, <2>10 DEF IInv
<1> QED BY <1>5, <1>6

\* The timer flushes what it finds, or is done when it finds nothing.
LEMMA TimerFlushStep ==
    ASSUME IInv, timer \in {"sleeping", "waiting"}, holder = None,
           TimerFlush, UNCHANGED <<cancelling, pc, answer>>,
           waiters' \in Seq(Coroutine), WaitersInv'
    PROVE  IInv'
<1>1. /\ queue \in Seq(Requests) /\ Len(queue) < MaxBatch
      /\ \A j \in DOMAIN queue : started[queue[j]] = 0
    BY DEF IInv, TypeOK, BatchBounded, QueueInv
<1>2. CASE queue = <<>>
    <2>1. timer' = "done" /\ UNCHANGED <<queue, holder, batch, finished, started>>
        BY <1>2 DEF TimerFlush
    <2> QED BY <1>2, <2>1, BatchAssumption DEF IInv, TypeOK, LockInv, QueueInv, BatchInv,
            QueueIsTimed, BatchBounded, OwnResultOnce, Coroutine
<1>3. CASE queue # <<>>
    <2>1. timer' = "flushing" /\ StartFlush(Timer, queue)
        BY <1>3 DEF TimerFlush
    <2>2. Len(queue) <= MaxBatch
        BY <1>1, BatchAssumption
    <2>3. /\ holder' = Timer /\ queue' = <<>> /\ batch' = queue /\ finished' = <<>>
          /\ started' \in [Requests -> 0..1]
          /\ \A x \in Requests : started[x] = 1 => started'[x] = 1
          /\ \A x \in Requests :
                (\A i \in DOMAIN queue : queue[i] # x) => started'[x] = started[x]
          /\ BatchInv' /\ BatchBounded'
        BY <1>1, <1>3, <2>1, <2>2, FlushStarts DEF IInv, Coroutine
    <2>4. TypeOK'
        BY <2>1, <2>3 DEF IInv, TypeOK, Coroutine
    <2>5. LockInv'
        BY <2>1, <2>3, BatchAssumption DEF IInv, LockInv
    <2>6. QueueInv'
        BY <2>3 DEF IInv, QueueInv
    <2>7. QueueIsTimed' /\ OwnResultOnce'
        BY <2>3, <2>4 DEF IInv, TypeOK, QueueIsTimed, OwnResultOnce
    <2> QED BY <2>3, <2>4, <2>5, <2>6, <2>7 DEF IInv
<1> QED BY <1>2, <1>3

\* Nobody else waits for the lock when it is free.
LEMMA NoWaiters ==
    ASSUME waiters = <<>>, waiters' = waiters, timer' # "waiting"
    PROVE  waiters' \in Seq(Coroutine) /\ WaitersInv'
BY DEF WaitersInv

\* A call that arrives is queued under the lock or waits for the lock.
LEMMA CallStep ==
    ASSUME IInv, NEW r \in Requests, Call(r)
    PROVE  IInv'
<1>1. pc[r] = "idle" /\ UNCHANGED <<cancelling, answer>>
    BY DEF Call
<1>2. CASE LockFree /\ Enqueue(r) /\ UNCHANGED waiters
    <2>1. waiters = <<>> /\ holder = None
        BY <1>2 DEF LockFree
    <2>2. timer # "waiting"
        BY <2>1 DEF IInv, WaitersInv, ToSet
    <2>3. timer' # "waiting"
        BY <1>2, <2>2 DEF Enqueue, Armed
    <2> QED BY <1>1, <1>2, <2>1, <2>3, NoWaiters, EnqueueStep
<1>3. CASE /\ ~LockFree
           /\ waiters' = Append(waiters, r)
           /\ Goto(r, "waiting")
           /\ UNCHANGED <<queue, holder, timer, batch, finished, started>>
    <2>1. pc' = [pc EXCEPT ![r] = "waiting"]
        BY <1>3 DEF Goto
    <2>2. waiters \in Seq(Coroutine) /\ r \in Coroutine /\ r # Timer
        BY BatchAssumption DEF IInv, TypeOK, Coroutine
    <2>3. /\ waiters' \in Seq(Coroutine)
          /\ \A j \in DOMAIN waiters' :
                (j \in DOMAIN waiters /\ waiters'[j] = waiters[j]) \/ waiters'[j] = r
          /\ \A j \in DOMAIN waiters : j \in DOMAIN waiters' /\ waiters'[j] = waiters[j]
        BY <1>3, <2>2, AppendMembers
    <2>4. \A i \in DOMAIN waiters : waiters[i] # r
        BY <1>1, <2>2 DEF IInv, WaitersInv
    <2>5. WaitersInv'
        <3>1. \A i, j \in DOMAIN waiters' : waiters'[i] = waiters'[j] => i = j
            BY <1>3, <2>2, <2>4 DEF IInv, WaitersInv
        <3>2. timer' = "waiting" => Timer \in ToSet(waiters')
            BY <1>3, <2>3 DEF IInv, WaitersInv, ToSet
        <3>3. \A i \in DOMAIN waiters' :
                /\ waiters'[i] = Timer => timer' = "waiting"
                /\ waiters'[i] # Timer => pc'[waiters'[i]] = "waiting"
            <4> SUFFICES ASSUME NEW i \in DOMAIN waiters'
                         PROVE  /\ waiters'[i] = Timer => timer' = "waiting"
                                /\ waiters'[i] # Timer => pc'[waiters'[i]] = "waiting"
                OBVIOUS
            <4>1. CASE waiters'[i] = r
                BY <4>1, <2>1, <2>2 DEF IInv, TypeOK
            <4>2. CASE waiters'[i] # r
                <5>1. i \in DOMAIN waiters /\ waiters'[i] = waiters[i]
                    BY <4>2, <2>3
                <5>2. waiters[i] \in Coroutine
                    BY <2>2, <5>1
                <5> QED BY <1>3, <2>1, <4>2, <5>1, <5>2 DEF IInv, TypeOK, WaitersInv, Coroutine
            <4> QED BY <4>1, <4>2
        <3> QED BY <3>1, <3>2, <3>3 DEF WaitersInv
    <2>6. TypeOK' /\ LockInv' /\ QueueInv'
        BY <1>1, <1>3, <2>1, <2>3 DEF IInv, TypeOK, LockInv, QueueInv, Coroutine
    <2>7. BatchInv' /\ BatchBounded'
        BY <1>3 DEF IInv, BatchInv, BatchBounded
    <2>8. QueueIsTimed'
        BY <1>3, <2>5 DEF IInv, QueueIsTimed, WaitersInv
    <2>9. OwnResultOnce'
        BY <1>1, <1>3, <2>1 DEF IInv, TypeOK, OwnResultOnce
    <2> QED BY <2>5, <2>6, <2>7, <2>8, <2>9 DEF IInv
<1> QED BY <1>2, <1>3 DEF Call

\* The window ends: the timer flushes, or waits for the lock.
LEMMA TimerExpiresStep ==
    ASSUME IInv, TimerExpires
    PROVE  IInv'
<1>1. timer = "sleeping" /\ UNCHANGED <<cancelling, pc, answer>>
    BY DEF TimerExpires
<1>2. CASE LockFree /\ TimerFlush /\ UNCHANGED waiters
    <2>1. waiters = <<>> /\ holder = None
        BY <1>2 DEF LockFree
    <2>2. timer' # "waiting"
        BY <1>2 DEF TimerFlush
    <2> QED BY <1>1, <1>2, <2>1, <2>2, NoWaiters, TimerFlushStep
<1>3. CASE /\ ~LockFree
           /\ waiters' = Append(waiters, Timer)
           /\ timer' = "waiting"
           /\ UNCHANGED <<queue, holder, batch, finished, started>>
    <2>1. waiters \in Seq(Coroutine) /\ Timer \in Coroutine
        BY DEF IInv, TypeOK, Coroutine
    <2>2. /\ waiters' \in Seq(Coroutine)
          /\ \A j \in DOMAIN waiters' :
                (j \in DOMAIN waiters /\ waiters'[j] = waiters[j]) \/ waiters'[j] = Timer
          /\ \E j \in DOMAIN waiters' : waiters'[j] = Timer
        BY <1>3, <2>1, AppendMembers
    <2>3. \A i \in DOMAIN waiters : waiters[i] # Timer
        BY <1>1 DEF IInv, WaitersInv
    <2>4. \A i, j \in DOMAIN waiters' : waiters'[i] = waiters'[j] => i = j
        BY <1>3, <2>1, <2>3 DEF IInv, WaitersInv
    <2>5. Timer \in ToSet(waiters')
        BY <2>2 DEF ToSet
    <2>6. \A j \in DOMAIN waiters' : waiters'[j] # Timer => pc[waiters'[j]] = "waiting"
        BY <2>2 DEF IInv, WaitersInv
    <2>7. WaitersInv'
        BY <1>1, <1>3, <2>4, <2>5, <2>6 DEF WaitersInv
    <2>8. TypeOK' /\ LockInv' /\ QueueInv' /\ BatchInv' /\ BatchBounded' /\ OwnResultOnce'
        BY <1>1, <1>3, <2>2 DEF IInv, TypeOK, LockInv, QueueInv, BatchInv, BatchBounded,
            OwnResultOnce, Coroutine
    <2>9. QueueIsTimed'
        BY <1>3, <2>5 DEF QueueIsTimed
    <2> QED BY <2>7, <2>8, <2>9 DEF IInv
<1> QED BY <1>2, <1>3 DEF TimerExpires

\* The first of the waiters goes on under the lock.
LEMMA AcquireStep ==
    ASSUME IInv, Acquire
    PROVE  IInv'
<1> DEFINE h == Head(waiters)
<1>1. /\ holder = None /\ waiters # <<>> /\ waiters' = Tail(waiters)
      /\ UNCHANGED <<cancelling, answer>>
    BY DEF Acquire
<1>2. waiters \in Seq(Coroutine)
    BY DEF IInv, TypeOK, Coroutine
<1>3. /\ h \in Coroutine /\ waiters' \in Seq(Coroutine)
      /\ 1 \in DOMAIN waiters /\ waiters[1] = h
      /\ \A j \in DOMAIN waiters' : j + 1 \in DOMAIN waiters /\ waiters'[j] = waiters[j + 1]
      /\ \A j \in DOMAIN waiters : j # 1 =>
            j - 1 \in DOMAIN waiters' /\ waiters'[j - 1] = waiters[j]
    BY <1>1, <1>2, TailMembers
<1>4. /\ \A j \in DOMAIN waiters' : j \in Nat /\ j # 0
      /\ \A j \in DOMAIN waiters : j \in Nat
    BY <1>2, <1>3
<1>5. \A j \in DOMAIN waiters' : waiters'[j] # h
    BY <1>3, <1>4 DEF IInv, WaitersInv
<1>6. \A i, j \in DOMAIN waiters' : waiters'[i] = waiters'[j] => i = j
    <2> TAKE i, j \in DOMAIN waiters'
    <2> HAVE waiters'[i] = waiters'[j]
    <2>1. waiters[i + 1] = waiters[j + 1] /\ i + 1 \in DOMAIN waiters /\ j + 1 \in DOMAIN waiters
        BY <1>3
    <2>2. i + 1 = j + 1
        BY <2>1 DEF IInv, WaitersInv
    <2> QED BY <1>4, <2>2
<1>7. \A j \in DOMAIN waiters' :
        /\ waiters'[j] = Timer => timer = "waiting"
        /\ waiters'[j] # Timer => pc[waiters'[j]] = "waiting"
    BY <1>3 DEF IInv, WaitersInv
<1> HIDE DEF h
<1>8. CASE h = Timer /\ TimerFlush /\ UNCHANGED pc
    <2>1. timer = "waiting"
        BY <1>3, <1>8 DEF IInv, WaitersInv
    <2>2. timer' # "waiting"
        BY <1>8 DEF TimerFlush
    <2>3. WaitersInv'
        BY <1>5, <1>6, <1>7, <1>8, <2>2 DEF WaitersInv
    <2> QED BY <1>1, <1>3, <1>8, <2>1, <2>3, TimerFlushStep
<1>9. CASE h # Timer /\ Enqueue(h)
    <2>1. h \in Requests /\ pc[h] = "waiting"
        BY <1>3, <1>9 DEF IInv, WaitersInv, Coroutine
    <2>2. \A x \in Requests : x # h => pc'[x] = pc[x]
        BY <1>9 DEF Enqueue, Goto, IInv, TypeOK
    <2>3. timer = "waiting" => timer' = "waiting"
        BY <1>9 DEF Enqueue, Armed
    <2>4. timer' = "waiting" => timer = "waiting"
        BY <1>9 DEF Enqueue, Armed
    <2>5. timer = "waiting" => Timer \in ToSet(waiters')
        <3> HAVE timer = "waiting"
        <3>1. PICK j \in DOMAIN waiters : waiters[j] = Timer
            BY DEF IInv, WaitersInv, ToSet
        <3>2. j # 1
            BY <1>3, <1>9, <3>1
        <3> QED BY <1>3, <3>1, <3>2 DEF ToSet
    <2>6. \A j \in DOMAIN waiters' : waiters'[j] # Timer => pc'[waiters'[j]] = "waiting"
        <3> TAKE j \in DOMAIN waiters'
        <3> HAVE waiters'[j] # Timer
        <3>1. waiters'[j] \in Requests /\ waiters'[j] # h
            BY <1>3, <1>5 DEF Coroutine
        <3> QED BY <1>7, <2>2, <3>1
    <2>7. WaitersInv'
        BY <1>6, <1>7, <2>3, <2>4, <2>5, <2>6 DEF WaitersInv
    <2> QED BY <1>1, <1>3, <1>9, <2>1, <2>7, EnqueueStep
<1> QED BY <1>8, <1>9 DEF Acquire, h

\* The batch is over: each caller is given the result at its own position.
LEMMA ResolveStep ==
    ASSUME IInv, Resolve
    PROVE  IInv'
<1>1. /\ holder # None /\ holder' = None /\ batch' = <<>> /\ finished' = <<>>
      /\ UNCHANGED <<cancelling, queue, waiters, started>>
    BY DEF Resolve
<1>2. answer' = [r \in Requests |->
                    IF \E i \in Settled : batch[i] = r
                    THEN batch[CHOOSE i \in Settled : batch[i] = r] ELSE answer[r]]
    BY DEF Resolve, Results
<1>3. \A i \in Settled : i \in DOMAIN batch
    BY DEF Settled
<1>4. \A r \in Requests :
        \/ /\ answer'[r] = r
           /\ \E i \in Settled : batch[i] = r
        \/ /\ answer'[r] = answer[r]
           /\ ~\E i \in Settled : batch[i] = r
    BY <1>2
<1>5. answer' \in [Requests -> Requests \cup {None}]
    <2>1. \A r \in Requests : answer'[r] \in Requests \cup {None}
        BY <1>4 DEF IInv, TypeOK
    <2>2. DOMAIN answer' = Requests /\ answer' = [r \in Requests |-> answer'[r]]
        BY <1>2
    <2> QED BY <2>1, <2>2
<1>6. \A r \in Requests :
        /\ answer'[r] \in {r, None}
        /\ answer'[r] = r => started[r] = 1
    BY <1>3, <1>4 DEF IInv, OwnResultOnce, BatchInv
<1>7. \A r \in Requests : answer[r] = r => answer'[r] = r
    BY <1>4
<1>8. CASE holder = Timer
    <2>1. timer' = "done" /\ UNCHANGED pc
        BY <1>8 DEF Resolve
    <2>2. timer = "flushing"
        BY <1>8 DEF IInv, LockInv
    <2>3. TypeOK'
        BY <1>1, <1>5, <2>1 DEF IInv, TypeOK
    <2>4. LockInv'
        BY <1>1, <1>8, <2>1, BatchAssumption DEF IInv, LockInv
    <2>5. WaitersInv'
        BY <1>1, <2>1, <2>2 DEF IInv, WaitersInv
    <2>6. QueueInv' /\ BatchInv'
        BY <1>1, <2>1, BatchAssumption DEF IInv, QueueInv, BatchInv
    <2>7. QueueIsTimed'
        BY <1>1, <2>2 DEF IInv, QueueIsTimed
    <2>8. BatchBounded'
        BY <1>1, BatchAssumption DEF IInv, BatchBounded
    <2>9. OwnResultOnce'
        BY <1>1, <1>6, <1>7, <2>1 DEF IInv, OwnResultOnce
    <2> QED BY <2>3, <2>4, <2>5, <2>6, <2>7, <2>8, <2>9 DEF IInv
<1>9. CASE holder # Timer
    <2>1. holder \in Requests /\ pc[holder] = "flushing"
        BY <1>1, <1>9 DEF IInv, TypeOK, LockInv
    <2>2. /\ pc' = [pc EXCEPT ![holder] =
                        IF Settled = DOMAIN batch THEN "returned" ELSE "failed"]
          /\ UNCHANGED timer
        BY <1>9 DEF Resolve, Goto
    <2>3. TypeOK'
        BY <1>1, <1>5, <2>1, <2>2 DEF IInv, TypeOK
    <2>4. LockInv'
        BY <1>1, <1>9, <2>1, <2>2, BatchAssumption DEF IInv, TypeOK, LockInv
    <2>5. \A r \in Requests : pc[r] # "flushing" => pc'[r] = pc[r]
        BY <2>1, <2>2 DEF IInv, TypeOK
    <2>6. \A r \in Requests : pc'[r] \in {"idle", "waiting"} => pc'[r] = pc[r]
        BY <2>1, <2>2 DEF IInv, TypeOK
    <2>7. WaitersInv'
        <3>1. \A i \in DOMAIN waiters : waiters[i] # Timer => waiters[i] \in Requests
            BY DEF IInv, TypeOK
        <3> QED BY <1>1, <2>2, <2>5, <3>1 DEF IInv, WaitersInv
    <2>8. QueueInv'
        <3>1. \A i \in DOMAIN queue : queue[i] \in Requests
            BY DEF IInv, TypeOK
        <3> QED BY <1>1, <2>5, <2>6, <3>1 DEF IInv, QueueInv
    <2>9. BatchInv' /\ BatchBounded'
        BY <1>1, BatchAssumption DEF IInv, BatchInv, BatchBounded
    <2>10. QueueIsTimed'
        BY <1>1, <2>2 DEF IInv, QueueIsTimed
    <2>11. OwnResultOnce'
        <3>1. pc'[holder] = "returned" => answer'[holder] = holder
            <4> HAVE pc'[holder] = "returned"
            <4>1. Settled = DOMAIN batch
                BY <2>1, <2>2 DEF IInv, TypeOK
            <4> QED BY <1>4, <2>1, <4>1 DEF IInv, BatchInv
        <3>2. \A r \in Requests \ {holder} : pc'[r] = pc[r]
            BY <2>1, <2>2 DEF IInv, TypeOK
        <3> QED BY <1>1, <1>6, <1>7, <3>1, <3>2 DEF IInv, OwnResultOnce
    <2> QED BY <2>3, <2>4, <2>7, <2>8, <2>9, <2>10, <2>11 DEF IInv
<1> QED BY <1>8, <1>9

\* A caller that is cancelled leaves the lock's queue, the others keep their order.
LEMMA CancelWaitingStep ==
    ASSUME IInv, NEW r \in Requests, CancelWaiting(r)
    PROVE  IInv'
<1>1. /\ pc[r] = "waiting" /\ pc' = [pc EXCEPT ![r] = "cancelled"]
      /\ UNCHANGED <<cancelling, queue, holder, timer, batch, finished, started, answer>>
    BY DEF CancelWaiting, Goto
<1>2. waiters \in Seq(Coroutine)
    BY DEF IInv, TypeOK, Coroutine
<1>3. PICK k \in DOMAIN waiters : waiters[k] = r /\ waiters' = RemoveAt(waiters, k)
    BY DEF CancelWaiting
<1>4. /\ waiters' \in Seq(Coroutine) /\ Len(waiters') = Len(waiters) - 1
      /\ \A j \in 1..(Len(waiters) - 1) :
            waiters'[j] = IF j < k THEN waiters[j] ELSE waiters[j + 1]
    BY <1>2, <1>3, RemoveAtElements
<1>5. /\ DOMAIN waiters = 1..Len(waiters) /\ Len(waiters) \in Nat
      /\ DOMAIN waiters' = 1..(Len(waiters) - 1)
    BY <1>2, <1>4
<1>6. \A j \in DOMAIN waiters' : \E i \in DOMAIN waiters :
        i # k /\ i = (IF j < k THEN j ELSE j + 1) /\ waiters'[j] = waiters[i]
    BY <1>3, <1>4, <1>5
<1>7. \A i \in DOMAIN waiters : i # k =>
        \E j \in DOMAIN waiters' : waiters'[j] = waiters[i]
    <2> TAKE i \in DOMAIN waiters
    <2> HAVE i # k
    <2>1. CASE i < k
        BY <1>3, <1>4, <1>5, <2>1
    <2>2. CASE i > k
        <3>1. i - 1 \in DOMAIN waiters' /\ waiters'[i - 1] = waiters[i]
            BY <1>3, <1>4, <1>5, <2>2
        <3> QED BY <3>1
    <2> QED BY <1>3, <1>5, <2>1, <2>2
<1>8. \A j \in DOMAIN waiters' : waiters'[j] # r
    BY <1>3, <1>6 DEF IInv, WaitersInv
<1>9. WaitersInv'
    <2>1. timer' = "waiting" => Timer \in ToSet(waiters')
        <3> HAVE timer' = "waiting"
        <3>1. PICK i \in DOMAIN waiters : waiters[i] = Timer
            BY <1>1 DEF IInv, WaitersInv, ToSet
        <3>2. i # k
            BY <1>3, <3>1, BatchAssumption
        <3> QED BY <1>7, <3>1, <3>2 DEF ToSet
    <2>2. \A j \in DOMAIN waiters' : waiters'[j] = Timer => timer' = "waiting"
        BY <1>1, <1>6 DEF IInv, WaitersInv
    <2>3. \A j \in DOMAIN waiters' : waiters'[j] # Timer => pc'[waiters'[j]] = "waiting"
        <3> TAKE j \in DOMAIN waiters'
        <3> HAVE waiters'[j] # Timer
        <3>1. waiters'[j] \in Requests /\ waiters'[j] # r
            BY <1>4, <1>8 DEF Coroutine
        <3>2. pc[waiters'[j]] = "waiting"
            BY <1>6 DEF IInv, WaitersInv
        <3> QED BY <1>1, <3>1, <3>2 DEF IInv, TypeOK
    <2>4. \A i, j \in DOMAIN waiters' : waiters'[i] = waiters'[j] => i = j
        <3> TAKE i, j \in DOMAIN waiters'
        <3> HAVE waiters'[i] = waiters'[j]
        <3>1. (IF i < k THEN i ELSE i + 1) = (IF j < k THEN j ELSE j + 1)
            BY <1>6 DEF IInv, WaitersInv
        <3> QED BY <1>3, <1>5, <3>1
    <2> QED BY <2>1, <2>2, <2>3, <2>4 DEF WaitersInv
<1>10. TypeOK' /\ LockInv' /\ QueueInv' /\ BatchInv' /\ BatchBounded' /\ OwnResultOnce'
    BY <1>1, <1>4 DEF IInv, TypeOK, LockInv, QueueInv, BatchInv, BatchBounded,
        OwnResultOnce, Coroutine
<1>11. QueueIsTimed'
    BY <1>1, <1>9 DEF IInv, QueueIsTimed, WaitersInv
<1> QED BY <1>9, <1>10, <1>11 DEF IInv

\* A caller that is cancelled in its batch drops the batch and frees the lock.
LEMMA CancelFlushStep ==
    ASSUME IInv, NEW r \in Requests, CancelFlush(r)
    PROVE  IInv'
<1>1. /\ pc[r] = "flushing" /\ pc' = [pc EXCEPT ![r] = "cancelled"]
      /\ holder' = None /\ batch' = <<>> /\ finished' = <<>>
      /\ UNCHANGED <<cancelling, queue, waiters, timer, started, answer>>
    BY DEF CancelFlush, Goto
<1>2. holder = r /\ r # Timer /\ r # None
    BY <1>1, BatchAssumption DEF IInv, LockInv
<1>3. \A x \in Requests : pc[x] # "flushing" => pc'[x] = pc[x]
    BY <1>1 DEF IInv, TypeOK
<1>4. \A x \in Requests : pc'[x] # "cancelled" => pc'[x] = pc[x]
    BY <1>1 DEF IInv, TypeOK
<1>5. TypeOK' /\ LockInv'
    BY <1>1, <1>2, BatchAssumption DEF IInv, TypeOK, LockInv
<1>6. WaitersInv'
    <2>1. \A i \in DOMAIN waiters : waiters[i] # Timer => waiters[i] \in Requests
        BY DEF IInv, TypeOK
    <2> QED BY <1>1, <1>3, <2>1 DEF IInv, WaitersInv
<1>7. QueueInv'
    <2>1. \A i \in DOMAIN queue : queue[i] \in Requests
        BY DEF IInv, TypeOK
    <2> QED BY <1>1, <1>3, <1>4, <2>1 DEF IInv, QueueInv
<1>8. BatchInv' /\ BatchBounded'
    BY <1>1, BatchAssumption DEF IInv, BatchInv, BatchBounded
<1>9. QueueIsTimed' /\ OwnResultOnce'
    BY <1>1, <1>4 DEF IInv, QueueIsTimed, OwnResultOnce
<1> QED BY <1>5, <1>6, <1>7, <1>8, <1>9 DEF IInv

\* The steps that change nothing but where one caller is, or what has ended.
LEMMA QuietStep ==
    ASSUME IInv, NEW r \in Requests,
           ExecutionEnds(r) \/ Return(r) \/ CancelAwaiting(r)
    PROVE  IInv'
<1>1. CASE ExecutionEnds(r)
    <2>1. finished' \in Seq(Requests)
        BY <1>1, AppendMembers DEF ExecutionEnds, IInv, TypeOK
    <2>2. UNCHANGED <<cancelling, pc, queue, holder, waiters, timer, batch, started, answer>>
        BY <1>1 DEF ExecutionEnds
    <2> QED BY <2>1, <2>2 DEF IInv, TypeOK, LockInv, WaitersInv, QueueInv, BatchInv,
            QueueIsTimed, BatchBounded, OwnResultOnce
<1>2. CASE Return(r) \/ CancelAwaiting(r)
    <2>1. /\ pc[r] = "awaiting" /\ pc' \in [Requests -> {"idle", "waiting", "awaiting",
                                "flushing", "returned", "failed", "cancelled"}]
          /\ pc'[r] \in {"returned", "cancelled"}
          /\ pc'[r] = "returned" => answer[r] # None
          /\ \A x \in Requests \ {r} : pc'[x] = pc[x]
          /\ UNCHANGED <<cancelling, queue, holder, waiters, timer, batch, finished,
                         started, answer>>
        BY <1>2 DEF Return, CancelAwaiting, Goto, IInv, TypeOK
    <2>2. TypeOK' /\ LockInv'
        BY <2>1 DEF IInv, TypeOK, LockInv
    <2>3. WaitersInv'
        <3>1. \A i \in DOMAIN waiters : waiters[i] # Timer => waiters[i] \in Requests
            BY DEF IInv, TypeOK
        <3> QED BY <2>1, <3>1 DEF IInv, WaitersInv
    <2>4. QueueInv'
        <3>1. \A x \in Requests : pc'[x] \in {"idle", "waiting"} => pc'[x] = pc[x]
            BY <2>1
        <3>2. \A i \in DOMAIN queue : queue[i] \in Requests
            BY DEF IInv, TypeOK
        <3>3. CASE pc'[r] = "cancelled"
            BY <2>1, <3>1, <3>2, <3>3 DEF IInv, QueueInv
        <3>4. CASE pc'[r] = "returned"
            <4>1. started[r] = 1
                BY <2>1, <3>4 DEF IInv, OwnResultOnce
            <4> QED BY <2>1, <3>1, <3>2, <4>1 DEF IInv, QueueInv
        <3> QED BY <2>1, <3>3, <3>4
    <2>5. BatchInv' /\ BatchBounded' /\ QueueIsTimed'
        BY <2>1 DEF IInv, BatchInv, BatchBounded, QueueIsTimed
    <2>6. OwnResultOnce'
        BY <2>1 DEF IInv, OwnResultOnce
    <2> QED BY <2>2, <2>3, <2>4, <2>5, <2>6 DEF IInv
<1> QED BY <1>1, <1>2

\* Nothing changes when nothing happens.
LEMMA StutterStep ==
    ASSUME IInv, UNCHANGED vars
    PROVE  IInv'
BY DEF vars, IInv, TypeOK, LockInv, WaitersInv, QueueInv, BatchInv,
    QueueIsTimed, BatchBounded, OwnResultOnce

\* Every step keeps the invariant.
LEMMA IInvStep == IInv /\ [Next]_vars => IInv'
<1> SUFFICES ASSUME IInv, [Next]_vars PROVE IInv'
    OBVIOUS
<1>1. ASSUME LoopStep PROVE IInv'
    BY <1>1, TimerExpiresStep, AcquireStep, ResolveStep, QuietStep DEF LoopStep
<1>2. ASSUME NEW r \in Requests,
             Call(r) \/ CancelWaiting(r) \/ CancelAwaiting(r) \/ CancelFlush(r)
      PROVE  IInv'
    BY <1>2, CallStep, CancelWaitingStep, CancelFlushStep, QuietStep
<1>3. ASSUME UNCHANGED vars PROVE IInv'
    BY <1>3, StutterStep
<1> QED BY <1>1, <1>2, <1>3 DEF Next, Quiescent

-----------------------------------------------------------------------------
(* The theorems.                                                           *)

\* The invariant holds in every reachable state.
LEMMA IInvHolds == Spec => []IInv
BY IInvInit, IInvStep, PTL DEF Spec

\* Every variable keeps its type: the queue and the batch hold requests only, and
\* none is executed more than once.
THEOREM Typed == Spec => []TypeOK
<1>1. IInv => TypeOK
    BY DEF IInv
<1> QED BY <1>1, IInvHolds, PTL

\* Whoever is cancelled, and whenever, a queued request has a timer that sleeps
\* or waits for the lock, and so will flush it.
THEOREM QueuedAreTimed == Spec => []QueueIsTimed
<1>1. IInv => QueueIsTimed
    BY DEF IInv
<1> QED BY <1>1, IInvHolds, PTL

\* For every max_batch_size, neither the queue nor a batch outgrows it.
THEOREM BatchesBounded == Spec => []BatchBounded
<1>1. IInv => BatchBounded
    BY DEF IInv
<1> QED BY <1>1, IInvHolds, PTL

\* Every request is executed once at most, and a call that returns returns the
\* result of its own request.
THEOREM ResultsAreOwn == Spec => []OwnResultOnce
<1>1. IInv => OwnResultOnce
    BY DEF IInv
<1> QED BY <1>1, IInvHolds, PTL
=============================================================================
