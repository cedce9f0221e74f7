------------------------- MODULE ConcurrencyControl -------------------------
(***************************************************************************)
(* The concurrency limiter of a main process in regular mode: the queues   *)
(* of ConcurrencyQueue and the switch and mode routing of                  *)
(* ConcurrencyControlService.                                              *)
(*                                                                         *)
(* A request is one call of throttle() by ActiveExecutions.add(), held     *)
(* until the release() of the same call.  Two requests may carry the same  *)
(* execution id: nothing in the service prevents it.                       *)
(***************************************************************************)
EXTENDS Integers, Sequences, SequencesExt, FiniteSets

CONSTANTS Requests,     \* the slots a call of throttle() may occupy
          Executions,   \* execution ids
          ExecutionOf,  \* the execution id each request carries
          Mode,         \* the execution mode of each execution
          Limit,        \* executions.concurrency.{production,evaluation}Limit
          MaxRemovals   \* bound: calls of remove() that take an item out

Types == {"production", "evaluation"}

UnlimitedModes == {"error", "integrated", "cli", "internal", "manual", "retry"}
Modes == {"webhook", "trigger", "evaluation"} \cup UnlimitedModes

\* A limit of 0 throws InvalidConcurrencyLimitError; a negative one is -1.
ASSUME ConcurrencyAssumption ==
    /\ IsFiniteSet(Requests)
    /\ ExecutionOf \in [Requests -> Executions]
    /\ Mode \in [Executions -> Modes]
    /\ Limit \in [Types -> Int \ {0}]
    /\ MaxRemovals \in Nat

\* Only a type with a positive limit gets a ConcurrencyQueue.
LimitedTypes == {t \in Types : Limit[t] > 0}

VARIABLES isEnabled,  \* the service's switch
          capacity,   \* per queue: its capacity field, negative when throttling
          queue,      \* per queue: the requests whose promise is pending
          request,    \* per request: idle, queued, granted (counted) or free
          removals    \* per queue: how many removals took an item out

vars == <<isEnabled, capacity, queue, request, removals>>

\* getQueue(mode); "none" when the mode is never limited.
QueueOf(e) ==
    CASE Mode[e] \in {"webhook", "trigger"} -> "production"
      [] Mode[e] = "evaluation"             -> "evaluation"
      [] Mode[e] \in UnlimitedModes         -> "none"

\* !this.isEnabled || this.isUnlimited(mode): the service lets the call pass.
Bypassed(r) == ~isEnabled \/ QueueOf(ExecutionOf[r]) \notin LimitedTypes

Init ==
    /\ isEnabled = (LimitedTypes # {})
    /\ capacity = [t \in LimitedTypes |-> Limit[t]]
    /\ queue = [t \in LimitedTypes |-> <<>>]
    /\ request = [r \in Requests |-> "idle"]
    /\ removals = [t \in LimitedTypes |-> 0]

\* Mutant: the first item is read, not shifted out.
ResolveNextPeeks(t, line, others) ==
    /\ queue' = [queue EXCEPT ![t] = line]
    /\ request' = IF line = <<>> THEN others
                  ELSE [others EXCEPT ![Head(line)] = "granted"]

\* Mutant: pop() for shift().
ResolveNextPops(t, line, others) ==
    \/ /\ line = <<>>
       /\ queue' = [queue EXCEPT ![t] = <<>>]
       /\ request' = others
    \/ /\ line # <<>>
       /\ queue' = [queue EXCEPT ![t] = Front(line)]
       /\ request' = [others EXCEPT ![Last(line)] = "granted"]

\* resolveNext() on a queue t that holds line, the requests being as in others.
ResolveNext(t, line, others) ==
    \/ /\ line = <<>>
       /\ queue' = [queue EXCEPT ![t] = <<>>]
       /\ request' = others
    \/ /\ line # <<>>
       /\ queue' = [queue EXCEPT ![t] = Tail(line)]
       /\ request' = [others EXCEPT ![Head(line)] = "granted"]

-----------------------------------------------------------------------------
\* Mutant: the limit is off by one, the last slot throttles.
EnqueueEarly(r) ==
    LET t == QueueOf(ExecutionOf[r])
    IN  /\ capacity' = [capacity EXCEPT ![t] = @ - 1]
        /\ \/ /\ capacity[t] - 1 > 0
              /\ request' = [request EXCEPT ![r] = "granted"]
              /\ UNCHANGED queue
           \/ /\ capacity[t] - 1 <= 0
              /\ request' = [request EXCEPT ![r] = "queued"]
              /\ queue' = [queue EXCEPT ![t] = Append(@, r)]
        /\ UNCHANGED <<isEnabled, removals>>

\* Mutant: the limit is off by one, the first call beyond it passes.
EnqueueLate(r) ==
    LET t == QueueOf(ExecutionOf[r])
    IN  /\ capacity' = [capacity EXCEPT ![t] = @ - 1]
        /\ \/ /\ capacity[t] >= 0
              /\ request' = [request EXCEPT ![r] = "granted"]
              /\ UNCHANGED queue
           \/ /\ capacity[t] < 0
              /\ request' = [request EXCEPT ![r] = "queued"]
              /\ queue' = [queue EXCEPT ![t] = Append(@, r)]
        /\ UNCHANGED <<isEnabled, removals>>

\* Mutant: the queue holds bare execution ids.
EnqueueId(r) ==
    LET t == QueueOf(ExecutionOf[r])
    IN  /\ capacity' = [capacity EXCEPT ![t] = @ - 1]
        /\ request' = [request EXCEPT ![r] = "queued"]
        /\ queue' = [queue EXCEPT ![t] = Append(@, ExecutionOf[r])]
        /\ UNCHANGED <<isEnabled, removals>>

\* throttle(): take capacity; wait in the queue when none was left.
Enqueue(r) ==
    LET t == QueueOf(ExecutionOf[r])
    IN  /\ capacity' = [capacity EXCEPT ![t] = @ - 1]
        /\ \/ /\ capacity[t] - 1 >= 0
              /\ request' = [request EXCEPT ![r] = "granted"]
              /\ UNCHANGED queue
           \/ /\ capacity[t] - 1 < 0
              /\ request' = [request EXCEPT ![r] = "queued"]
              /\ queue' = [queue EXCEPT ![t] = Append(@, r)]
        /\ UNCHANGED <<isEnabled, removals>>

PassThrough(r) ==
    /\ Bypassed(r)
    /\ request' = [request EXCEPT ![r] = "free"]
    /\ UNCHANGED <<isEnabled, capacity, queue, removals>>

Throttle(r) ==
    /\ request[r] = "idle"
    /\ PassThrough(r) \/ (~Bypassed(r) /\ Enqueue(r))

\* Mutant: the slot is given back only if nobody takes it over.
DequeueHandsOver(r) ==
    LET t == QueueOf(ExecutionOf[r])
    IN  /\ capacity' = [capacity EXCEPT ![t] = IF queue[t] = <<>> THEN @ + 1 ELSE @]
        /\ ResolveNext(t, queue[t], [request EXCEPT ![r] = "idle"])
        /\ UNCHANGED <<isEnabled, removals>>

\* Mutant: the next one is let in only when capacity is positive.
DequeueNeedsCapacity(r) ==
    LET t == QueueOf(ExecutionOf[r])
    IN  /\ capacity' = [capacity EXCEPT ![t] = @ + 1]
        /\ \/ capacity[t] + 1 > 0 /\ ResolveNext(t, queue[t], [request EXCEPT ![r] = "idle"])
           \/ /\ capacity[t] + 1 <= 0
              /\ request' = [request EXCEPT ![r] = "idle"]
              /\ UNCHANGED queue
        /\ UNCHANGED <<isEnabled, removals>>

\* release(): give the capacity back and let the next request in.
Dequeue(r) ==
    LET t == QueueOf(ExecutionOf[r])
    IN  /\ capacity' = [capacity EXCEPT ![t] = @ + 1]
        /\ ResolveNext(t, queue[t], [request EXCEPT ![r] = "idle"])
        /\ UNCHANGED <<isEnabled, removals>>

Release(r) ==
    /\ request[r] \in {"granted", "free"}
    /\ \/ /\ Bypassed(r)
          /\ request' = [request EXCEPT ![r] = "idle"]
          /\ UNCHANGED <<isEnabled, capacity, queue, removals>>
       \/ /\ ~Bypassed(r)
          /\ Dequeue(r)

\* remove(): a queued execution is stopped.  i is the first item with its id.
\* Its promise never settles, so the call of throttle() just ends.
RemoveQueued(e, i) ==
    LET t == QueueOf(e)
    IN  /\ isEnabled
        /\ t \in LimitedTypes
        /\ i \in 1..Len(queue[t])
        /\ ExecutionOf[queue[t][i]] = e
        /\ \A j \in 1..(i-1) : ExecutionOf[queue[t][j]] # e
        /\ removals[t] < MaxRemovals
        /\ removals' = [removals EXCEPT ![t] = @ + 1]
        /\ capacity' = [capacity EXCEPT ![t] = @ + 1]
        /\ ResolveNext(t, RemoveAt(queue[t], i),
                       [request EXCEPT ![queue[t][i]] = "idle"])
        /\ UNCHANGED isEnabled

\* disable(), followed in ActiveExecutions.shutdown() by removeAll(), which
\* returns at once because the service is disabled.
Disable ==
    /\ isEnabled
    /\ isEnabled' = FALSE
    /\ UNCHANGED <<capacity, queue, request, removals>>

Next ==
    \/ \E r \in Requests : Throttle(r)
    \/ \E r \in Requests : Release(r)
    \/ \E e \in Executions : \E i \in 1..Cardinality(Requests) : RemoveQueued(e, i)
    \/ Disable

Spec == Init /\ [][Next]_vars

\* A granted execution ends: a workflow run settles its post-execution promise.
FairSpec == Spec /\ \A r \in Requests : WF_vars(Release(r))

-----------------------------------------------------------------------------
Running(t) ==
    {r \in Requests : request[r] = "granted" /\ QueueOf(ExecutionOf[r]) = t}
Throttled(t) ==
    {r \in Requests : request[r] = "queued" /\ QueueOf(ExecutionOf[r]) = t}

TypeOK ==
    /\ isEnabled \in BOOLEAN
    /\ capacity \in [LimitedTypes -> Int]
    /\ queue \in [LimitedTypes -> Seq(Requests)]
    /\ request \in [Requests -> {"idle", "queued", "granted", "free"}]
    /\ removals \in [LimitedTypes -> Nat]

\* The queue of each type holds exactly the throttled requests, each of them
\* once: no pending promise is lost or resolved twice (enqueue, resolveNext).
QueueHoldsThrottled ==
    \A t \in LimitedTypes :
        /\ \A r \in Requests :
              r \in Throttled(t) <=> \E i \in 1..Len(queue[t]) : queue[t][i] = r
        /\ \A i, j \in 1..Len(queue[t]) : queue[t][i] = queue[t][j] => i = j

\* The capacity field always is the limit less the running and the throttled
\* executions, whatever the order of throttle(), release() and remove().
CapacityAccounting ==
    isEnabled => \A t \in LimitedTypes :
        capacity[t] = Limit[t] - Cardinality(Running(t)) - Len(queue[t])

\* No execution waits while a slot is idle: enqueue() throttles only at the
\* limit, and dequeue() and remove() always wake the next one.
NoIdleCapacity ==
    isEnabled => \A t \in LimitedTypes :
        queue[t] # <<>> => Cardinality(Running(t)) >= Limit[t]

\* remove() admits the next execution although none ended, so each removal
\* lets one more than the limit run, and nothing else does.
OverrunBoundedByRemovals ==
    \A t \in LimitedTypes : Cardinality(Running(t)) <= Limit[t] + removals[t]

\* Executions leave the queue in the order in which they were throttled, and
\* none that was never throttled enters before one that waits.
FirstComeFirstServed ==
    [][\A t \in LimitedTypes : \A r \in Requests :
        /\ r \in Running(t)' /\ r \notin Running(t)
        /\ queue[t] # <<>>
        => r \in Throttled(t)
           /\ \A i \in 1..Len(queue[t]) :
                 queue[t][i] = r =>
                     \A j \in 1..(i-1) : queue[t][j] \notin Throttled(t)']_vars

\* If running executions end, a throttled one is admitted or stopped, unless
\* the process shuts down.
ThrottledIsReleased ==
    \A r \in Requests :
        (request[r] = "queued") ~> (request[r] # "queued" \/ ~isEnabled)
=============================================================================
