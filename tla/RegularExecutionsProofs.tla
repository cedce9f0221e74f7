----------------------- MODULE RegularExecutionsProofs -----------------------
(***************************************************************************)
(* What becomes of the rows, the entries and the slots of executions in    *)
(* regular mode: for any number of executions, of calls that resume them,  *)
(* of stops, crashes and failing updates, and for any limit.               *)
(***************************************************************************)
EXTENDS RegularExecutions, QueueLemmas, TLAPS

Statuses == {"idle", "queued", "granted", "free"}

Row == [status : {"none", "new", "running", "waiting", "success", "error", "canceled", "crashed"},
        waitTill : BOOLEAN, finished : BOOLEAN]

StopAt == {"idle", "read", "before run", "during run", "done"}

\* The queue holds calls that wait in it, each once.
QueueOK(line, req) ==
    /\ line \in Seq(Calls)
    /\ \A i \in 1..Len(line) : req[line[i]] = "queued"
    /\ \A i, j \in 1..Len(line) : line[i] = line[j] => i = j

LimiterOK ==
    /\ isEnabled \in BOOLEAN
    /\ capacity \in [{"production"} -> Int]
    /\ queue \in [{"production"} -> Seq(Calls)]
    /\ request \in [Calls -> Statuses]
    /\ removals \in [{"production"} -> Nat]
    /\ QueueOK(queue["production"], request)

\* The type invariant, with the types of what it leaves out.
Typed ==
    /\ LimiterOK
    /\ db \in [Executions -> Row]
    /\ TypeOK
    /\ DOMAIN stop = Stops
    /\ \A s \in Stops : stop[s].at \in StopAt
    /\ \A s \in Stops : stop[s].at \in {"read", "before run", "during run"} =>
          stop[s] \in [at : StopAt, id : Executions, finished : BOOLEAN]

\* The call has an entry, or had one.
Past(c) == pc[c] \notin {"unused", "loading", "created", "throttled", "marked"}

InRun(c) == pc[c] \in {"running", "saving progress", "saving", "saved"}

\* What a call, its slot and its entry have to do with one another.
Linked(c) ==
    /\ request[c] = "queued" => pc[c] = "throttled"
    /\ pc[c] \in {"unused", "loading", "created"} => request[c] = "idle"
    /\ pc[c] = "marked" => Unsettled(c)
    /\ Unsettled(c) /\ Past(c) => \/ c \in detached
                                  \/ Entry(Id(c)) # None /\ Entry(Id(c)).call = c
    /\ c \in cancelled => InRun(c)
    /\ pc[c] = "saving progress" => SaveProgress

EntryOK(e) ==
    Entry(e) # None =>
        LET c == Entry(e).call
        IN  /\ Id(c) = e /\ Past(c)
            /\ InRun(c) => c \in handled
            /\ Entry(e).status = "running" => Unsettled(c)
            /\ pc[c] = "over" => ~Unsettled(c)

\* Inductive.
IInv ==
    /\ Typed
    /\ \A c \in Calls : Linked(c)
    /\ \A e \in Executions : EntryOK(e)

-----------------------------------------------------------------------------
(* The limiter: one queue, and every call is of the limited kind *)

LEMMA CallIds ==
    ASSUME NEW c \in Calls
    PROVE  Id(c) \in Executions
<1>1. PICK e \in Executions : c \in {e} \X (1..MaxCalls[e])
  BY DEF Calls
<1> QED BY <1>1 DEF Id

LEMMA OneQueue ==
    /\ Limiter!LimitedTypes = {"production"}
    /\ \A e \in Executions : Limiter!QueueOf(e) = "production"
    /\ \A c \in Calls : Limiter!Bypassed(c) <=> ~isEnabled
<1>1. Limiter!LimitedTypes = {"production"}
  BY RegularAssumption DEF Limiter!LimitedTypes, Limiter!Types
<1>2. \A e \in Executions : Limiter!QueueOf(e) = "production"
  BY DEF Limiter!QueueOf, Limiter!UnlimitedModes
<1>3. \A c \in Calls : [d \in Calls |-> Id(d)][c] \in Executions
  BY CallIds
<1> QED BY <1>1, <1>2, <1>3 DEF Limiter!Bypassed

\* Each call keeps its status, or is let in from the queue.
Woken(before, after, S) ==
    \A d \in S : after[d] = before[d] \/ (before[d] = "queued" /\ after[d] = "granted")

\* What is left in a queue of which the i-th call was removed.
LEMMA QueueRemoved ==
    ASSUME NEW line \in Seq(Calls), NEW i \in 1..Len(line),
           NEW before \in [Calls -> Statuses], QueueOK(line, before)
    PROVE  QueueOK(RemoveAt(line, i), [before EXCEPT ![line[i]] = "idle"])
<1> DEFINE n == Len(line)
           rest == RemoveAt(line, i)
           after == [before EXCEPT ![line[i]] = "idle"]
           at(j) == IF j < i THEN j ELSE j + 1
<1>1. n \in Nat /\ i \in 1..n
  BY LenProperties
<1>2. /\ rest \in Seq(Calls) /\ Len(rest) = n - 1
      /\ \A j \in 1..(n - 1) : rest[j] = IF j < i THEN line[j] ELSE line[j + 1]
  BY RemoveAtProperties
<1>3. /\ \A j \in 1..n : before[line[j]] = "queued" /\ line[j] \in Calls
      /\ \A j, k \in 1..n : line[j] = line[k] => j = k
  BY ElementOfSeq DEF QueueOK
<1> HIDE DEF n, rest
<1>4. \A j \in 1..(n - 1) : at(j) \in 1..n /\ at(j) # i /\ rest[j] = line[at(j)]
  BY <1>1, <1>2
<1>5. \A j, k \in 1..(n - 1) : at(j) = at(k) => j = k
  BY <1>1
<1> HIDE DEF at
<1>6. \A j \in 1..n : j # i => after[line[j]] = "queued"
  BY <1>1, <1>3
<1> HIDE DEF after
<1> DEFINE m == Len(rest)
<1>7. m = n - 1
  BY <1>2
<1> HIDE DEF m
<1>8. \A j \in 1..m : after[rest[j]] = "queued"
  BY <1>4, <1>6, <1>7
<1>9. \A j, k \in 1..m : rest[j] = rest[k] => j = k
  BY <1>3, <1>4, <1>5, <1>7
<1>10. QueueOK(rest, after)
  BY <1>2, <1>8, <1>9 DEF QueueOK, m
<1> QED BY <1>10 DEF rest, after

LEMMA Resolved ==
    ASSUME NEW line, NEW others \in [Calls -> Statuses], QueueOK(line, others),
           queue \in [{"production"} -> Seq(Calls)],
           Limiter!ResolveNext("production", line, others)
    PROVE  /\ request' \in [Calls -> Statuses] /\ Woken(others, request', Calls)
           /\ queue' \in [{"production"} -> Seq(Calls)]
           /\ QueueOK(queue'["production"], request')
<1>1. CASE line = <<>> /\ queue' = [queue EXCEPT !["production"] = <<>>] /\ request' = others
  <2>1. queue'["production"] = line /\ queue' \in [{"production"} -> Seq(Calls)]
    BY <1>1, EmptySeq
  <2> QED BY <1>1, <2>1 DEF Woken
<1>2. CASE /\ line # <<>> /\ queue' = [queue EXCEPT !["production"] = Tail(line)]
           /\ request' = [others EXCEPT ![Head(line)] = "granted"]
  <2>1. line \in Seq(Calls)
    BY DEF QueueOK
  <2>2. /\ Tail(line) \in Seq(Calls) /\ Head(line) \in Calls
        /\ Len(Tail(line)) = Len(line) - 1
        /\ \A i \in 1..Len(Tail(line)) : Tail(line)[i] = line[i + 1]
    BY <1>2, <2>1, HeadTailProperties
  <2>3. Len(line) \in Nat \ {0} /\ Head(line) = line[1]
    BY <1>2, <2>1, EmptySeq
  <2>4. request' \in [Calls -> Statuses] /\ Woken(others, request', Calls)
    <3>1. others[Head(line)] = "queued"
      BY <2>3 DEF QueueOK
    <3> QED BY <1>2, <2>2, <3>1 DEF Woken, Statuses
  <2> DEFINE rest == Tail(line)
             n == Len(line)
             m == Len(rest)
  <2>5. n \in Nat \ {0} /\ m = n - 1
    BY <2>2, <2>3
  <2>6. \A i \in 1..m : rest[i] = line[i + 1] /\ rest[i] \in Calls
    BY <2>2, ElementOfSeq
  <2>7. /\ \A i \in 1..n : others[line[i]] = "queued"
        /\ \A i, j \in 1..n : line[i] = line[j] => i = j
    BY DEF QueueOK
  <2> HIDE DEF rest, n, m
  <2>8. \A i \in 1..m : i + 1 \in 1..n /\ i + 1 # 1 /\ 1 \in 1..n
    BY <2>5
  <2>9. \A i \in 1..m : rest[i] # Head(line) /\ others[rest[i]] = "queued"
    BY <2>3, <2>6, <2>7, <2>8
  <2>10. \A i \in 1..m : request'[rest[i]] = "queued"
    BY <1>2, <2>6, <2>9
  <2>11. \A i, j \in 1..m : rest[i] = rest[j] => i = j
    <3>1. \A i, j \in 1..m : i + 1 = j + 1 => i = j
      BY <2>5
    <3> QED BY <3>1, <2>6, <2>7, <2>8
  <2>12. QueueOK(rest, request')
    BY <2>2, <2>10, <2>11 DEF QueueOK, rest, m
  <2>13. queue'["production"] = rest /\ queue' \in [{"production"} -> Seq(Calls)]
    BY <1>2, <2>2 DEF rest
  <2> QED BY <2>4, <2>12, <2>13
<1> QED BY <1>1, <1>2 DEF Limiter!ResolveNext

\* Throttling c decides about c only.
LEMMA ThrottleEffect ==
    ASSUME LimiterOK, NEW c \in Calls, Limiter!Throttle(c)
    PROVE  /\ LimiterOK'
           /\ request[c] = "idle" /\ request'[c] \in {"queued", "granted", "free"}
           /\ \A d \in Calls \ {c} : request'[d] = request[d]
<1> DEFINE line == queue["production"]
<1>1. request[c] = "idle" /\ line \in Seq(Calls) /\ QueueOK(line, request)
  BY DEF LimiterOK, Limiter!Throttle
<1>2. \A i \in 1..Len(line) : line[i] \in Calls \ {c}
  BY <1>1, ElementOfSeq DEF QueueOK
<1>3. CASE /\ request' = [request EXCEPT ![c] = "free"] \/ request' = [request EXCEPT ![c] = "granted"]
           /\ UNCHANGED <<isEnabled, queue, removals>> /\ capacity' \in [{"production"} -> Int]
  <2> HIDE DEF line
  <2>1. QueueOK(line, request')
    BY <1>1, <1>2, <1>3 DEF QueueOK, LimiterOK
  <2> QED BY <1>1, <1>3, <2>1 DEF LimiterOK, Statuses, line
<1>4. CASE /\ request' = [request EXCEPT ![c] = "queued"]
           /\ queue' = [queue EXCEPT !["production"] = Append(@, c)]
           /\ UNCHANGED <<isEnabled, removals>> /\ capacity' \in [{"production"} -> Int]
  <2> DEFINE n == Len(line)
             longer == Append(line, c)
             m == Len(longer)
  <2>1. /\ n \in Nat /\ longer \in Seq(Calls) /\ m = n + 1
        /\ \A i \in 1..n : longer[i] = line[i]
        /\ longer[n + 1] = c
    BY <1>1, AppendProperties, LenProperties
  <2>2. \A i, j \in 1..n : line[i] = line[j] => i = j
    BY <1>1 DEF QueueOK
  <2>3. \A i \in 1..n : request[line[i]] = "queued"
    BY <1>1 DEF QueueOK
  <2>4. queue'["production"] = longer /\ queue' \in [{"production"} -> Seq(Calls)]
    BY <1>4, <2>1 DEF LimiterOK
  <2> HIDE DEF longer, m, n
  <2>5. \A i \in 1..m : i \in 1..n \/ i = n + 1
    BY <2>1
  <2>6. \A i \in 1..n : longer[i] \in Calls \ {c} /\ request'[longer[i]] = "queued"
    BY <1>2, <1>4, <2>1, <2>3 DEF LimiterOK, n
  <2>7. request'[c] = "queued" /\ request' \in [Calls -> Statuses]
    BY <1>4 DEF LimiterOK, Statuses
  <2>8. QueueOK(longer, request')
    <3>1. \A i \in 1..m : request'[longer[i]] = "queued"
      BY <2>1, <2>5, <2>6, <2>7
    <3>2. \A i, j \in 1..m : longer[i] = longer[j] => i = j
      BY <2>1, <2>2, <2>5, <2>6
    <3> QED BY <2>1, <3>1, <3>2 DEF QueueOK, m
  <2> QED BY <1>1, <1>4, <2>4, <2>7, <2>8 DEF LimiterOK
<1> QED
  <2>1. Limiter!QueueOf([d \in Calls |-> Id(d)][c]) = "production"
    BY OneQueue, CallIds
  <2> HIDE DEF line
  <2>2. CASE Limiter!PassThrough(c)
    BY <2>2, <1>3 DEF Limiter!PassThrough, LimiterOK
  <2>3. CASE Limiter!Enqueue(c)
    <3>1. capacity' = [capacity EXCEPT !["production"] = @ - 1]
      BY <2>1, <2>3 DEF Limiter!Enqueue
    <3>2. capacity' \in [{"production"} -> Int]
      BY <3>1 DEF LimiterOK
    <3> QED BY <2>1, <2>3, <3>2, <1>3, <1>4 DEF Limiter!Enqueue
  <2> QED BY <2>2, <2>3 DEF Limiter!Throttle

\* Releasing the slot of c may let a waiting call in.
LEMMA ReleaseEffect ==
    ASSUME LimiterOK, NEW c \in Calls, Limiter!Release(c)
    PROVE  /\ LimiterOK'
           /\ request[c] \in {"granted", "free"} /\ request'[c] = "idle"
           /\ Woken(request, request', Calls \ {c})
<1> DEFINE line == queue["production"]
           others == [request EXCEPT ![c] = "idle"]
<1>1. request[c] \in {"granted", "free"} /\ line \in Seq(Calls) /\ QueueOK(line, request)
  BY DEF LimiterOK, Limiter!Release
<1>2. \A i \in 1..Len(line) : line[i] \in Calls \ {c}
  BY <1>1, ElementOfSeq DEF QueueOK
<1>3. others \in [Calls -> Statuses] /\ others[c] = "idle" /\ \A d \in Calls \ {c} : others[d] = request[d]
  BY DEF LimiterOK, Statuses
<1> HIDE DEF line, others
<1>4. QueueOK(line, others)
  BY <1>1, <1>2, <1>3 DEF QueueOK
<1>5. CASE request' = others /\ UNCHANGED <<isEnabled, capacity, queue, removals>>
  BY <1>1, <1>3, <1>4, <1>5 DEF LimiterOK, Woken, line
<1>6. CASE Limiter!Dequeue(c)
  <2>1. Limiter!QueueOf([d \in Calls |-> Id(d)][c]) = "production"
    BY OneQueue, CallIds
  <2>2. /\ capacity' = [capacity EXCEPT !["production"] = @ + 1]
        /\ Limiter!ResolveNext("production", line, others)
        /\ UNCHANGED <<isEnabled, removals>>
    BY <2>1, <1>6 DEF Limiter!Dequeue, line, others
  <2>3. /\ request' \in [Calls -> Statuses] /\ Woken(others, request', Calls)
        /\ queue' \in [{"production"} -> Seq(Calls)]
        /\ QueueOK(queue'["production"], request')
    BY <1>3, <1>4, <2>2, Resolved DEF LimiterOK
  <2>4. LimiterOK'
    BY <2>2, <2>3 DEF LimiterOK
  <2> QED BY <1>1, <1>3, <2>3, <2>4 DEF Woken
<1> QED BY <1>5, <1>6 DEF Limiter!Release, others

\* Removing a queued call may let another one in.
LEMMA RemoveEffect ==
    ASSUME LimiterOK, NEW e \in Executions, NEW i \in Queued(e), Limiter!RemoveQueued(e, i)
    PROVE  /\ LimiterOK'
           /\ \E c \in Calls :
                 /\ Id(c) = e /\ request[c] = "queued" /\ request'[c] = "idle"
                 /\ Woken(request, request', Calls \ {c})
<1> DEFINE line == queue["production"]
           c == line[i]
           others == [request EXCEPT ![c] = "idle"]
           rest == RemoveAt(line, i)
<1>1. line \in Seq(Calls) /\ QueueOK(line, request) /\ i \in 1..Len(line)
  BY LenProperties DEF LimiterOK, Queued
<1>2. c \in Calls /\ Id(c) = e /\ request[c] = "queued"
  BY <1>1, ElementOfSeq DEF QueueOK, Queued
<1>3. others \in [Calls -> Statuses] /\ others[c] = "idle" /\ \A d \in Calls \ {c} : others[d] = request[d]
  BY <1>2 DEF LimiterOK, Statuses
<1>4. QueueOK(rest, others)
  BY <1>1, QueueRemoved DEF LimiterOK
<1>5. Limiter!QueueOf(e) = "production"
  BY OneQueue
<1>6. /\ removals' = [removals EXCEPT !["production"] = @ + 1]
      /\ capacity' = [capacity EXCEPT !["production"] = @ + 1]
      /\ Limiter!ResolveNext("production", rest, others)
      /\ UNCHANGED isEnabled
  BY <1>5 DEF Limiter!RemoveQueued, Limiter!RemoveAt, RemoveAt
<1> HIDE DEF line, others, rest, c
<1>7. /\ request' \in [Calls -> Statuses] /\ Woken(others, request', Calls)
      /\ queue' \in [{"production"} -> Seq(Calls)]
      /\ QueueOK(queue'["production"], request')
  BY <1>3, <1>4, <1>6, Resolved DEF LimiterOK
<1>8. LimiterOK'
  BY <1>6, <1>7 DEF LimiterOK
<1>9. request'[c] = "idle" /\ Woken(request, request', Calls \ {c})
  BY <1>2, <1>3, <1>7 DEF Woken
<1> QED BY <1>2, <1>8, <1>9


-----------------------------------------------------------------------------
(* The steps of the calls *)

\* The steps of a call that leave the slots and the entries alone.
Moves(c) ==
    \/ Create(c) \/ MarkRunning(c) \/ MarkFails(c) \/ CheckFails(c) \/ StartFails(c)
    \/ ReadProgress(c) \/ WriteProgress(c) \/ EndRun(c) \/ SaveOutcome(c)
    \/ StartWaiting(c) \/ LoadWaiting(c) \/ ResumeByWebhook(c) \/ RunEnqueued(c)

\* Where such a step takes c.
Moved(c) ==
    \/ pc[c] = "unused" /\ pc'[c] \in {"loading", "created"}
    \/ pc[c] = "loading" /\ pc'[c] \in {"created", "over"}
    \/ pc[c] = "throttled" /\ Unsettled(c) /\ pc'[c] = "marked"
    \/ pc[c] = "throttled" /\ Unsettled(c) /\ pc'[c] = "over" /\ c \in detached'
    \/ pc[c] = "registered" /\ pc'[c] = "failing"
    \/ pc[c] = "registered" /\ pc'[c] = "over" /\ Entry(Id(c)) = None
    \/ pc[c] = "running" /\ pc'[c] = "saving progress" /\ SaveProgress
    \/ pc[c] \in {"running", "saving progress"} /\ pc'[c] \in {"running", "saving", "saved"}
    \/ pc[c] = "saving" /\ pc'[c] = "saved"
    \/ pc[c] = "failing" /\ pc'[c] = "failed"

LEMMA MovesMove ==
    ASSUME TypeOK, NEW c \in Calls, Moves(c)
    PROVE  /\ UNCHANGED <<request, activeExecutions, handled, cancelled>>
           /\ detached \subseteq detached'
           /\ \A d \in Calls \ {c} : pc'[d] = pc[d]
           /\ Moved(c)
<1>1. /\ UNCHANGED <<request, activeExecutions, handled, cancelled>>
      /\ detached \subseteq detached'
      /\ \A d \in Calls \ {c} : pc'[d] = pc[d]
  BY DEF TypeOK, Goto, limiter, registry, runs, Moves, Create, MarkRunning, MarkFails,
         CheckFails, StartFails, ReadProgress, WriteProgress, EndRun, SaveOutcome,
         StartWaiting, LoadWaiting, ResumeByWebhook, RunEnqueued
<1>2. Moved(c)
  <2>1. CASE Create(c) \/ StartWaiting(c) \/ ResumeByWebhook(c) \/ RunEnqueued(c) \/ LoadWaiting(c)
    BY <2>1 DEF TypeOK, Goto, Moved, Create, StartWaiting, ResumeByWebhook, RunEnqueued, LoadWaiting, NextCall
  <2>2. CASE MarkRunning(c) \/ MarkFails(c)
    BY <2>2 DEF TypeOK, Goto, Moved, MarkRunning, MarkFails
  <2>3. CASE CheckFails(c) \/ StartFails(c)
    BY <2>3 DEF TypeOK, Goto, Moved, CheckFails, StartFails
  <2>4. CASE ReadProgress(c) \/ WriteProgress(c) \/ EndRun(c) \/ SaveOutcome(c)
    BY <2>4 DEF TypeOK, Goto, Moved, ReadProgress, WriteProgress, EndRun, SaveOutcome
  <2> QED BY <2>1, <2>2, <2>3, <2>4 DEF Moves
<1> QED BY <1>1, <1>2

LEMMA EntryTyped ==
    ASSUME TypeOK, NEW e \in Executions, Entry(e) # None
    PROVE  /\ Entry(e).call \in Calls /\ Id(Entry(e).call) = e
           /\ Entry(e).status \in {"running", "waiting"}
           /\ Entry(e).workflowExecution \in Calls \cup {None}
           /\ Entry(e).responsePromise \in BOOLEAN
BY DEF TypeOK, Entry, ActiveExecution

LEMMA MovesLinked ==
    ASSUME IInv, NEW c \in Calls, Moves(c)
    PROVE  /\ \A d \in Calls : Linked(d)'
           /\ \A e \in Executions : EntryOK(e)'
<1>1. /\ UNCHANGED <<request, activeExecutions, handled, cancelled>>
      /\ detached \subseteq detached'
      /\ \A d \in Calls \ {c} : pc'[d] = pc[d]
      /\ Moved(c)
  BY MovesMove DEF IInv, Typed
<1>2. \A d \in Calls \ {c} : Linked(d)'
  BY <1>1, CallIds DEF IInv, Linked, Past, InRun, Entry, Unsettled
<1>3. Linked(c)'
  BY <1>1, CallIds DEF IInv, Linked, Past, InRun, Entry, Unsettled, Moved
<1>4. \A e \in Executions : EntryOK(e)'
  <2> SUFFICES ASSUME NEW e \in Executions, Entry(e) # None
               PROVE  EntryOK(e)'
    BY <1>1 DEF EntryOK, Entry
  <2>1. Entry(e).call \in Calls /\ Id(Entry(e).call) = e
    BY EntryTyped DEF IInv, Typed
  <2> QED BY <1>1, <2>1 DEF IInv, EntryOK, Past, InRun, Entry, Unsettled, Moved
<1> QED BY <1>2, <1>3, <1>4

-----------------------------------------------------------------------------
(* Settling and stopping what an entry stands for *)

\* What finalizing or stopping the execution e may change.
Disturbs(e) ==
    /\ LimiterOK'
    /\ activeExecutions' \in [Executions -> ActiveExecution \cup {None}]
    /\ \A f \in Executions \ {e} : Entry(f)' = Entry(f)
    /\ detached \subseteq detached' /\ detached' \subseteq Calls
    /\ Entry(e)' # None =>
          /\ Entry(e) # None /\ Entry(e)'.call = Entry(e).call
          /\ Entry(e)'.status = "waiting" /\ request'[Entry(e).call] \notin {"granted", "free"}
    /\ Entry(e) = None => UNCHANGED request
    /\ Entry(e) # None =>
          LET c == Entry(e).call
          IN  /\ Woken(request, request', Calls \ {c})
              /\ \/ request'[c] = request[c] /\ (Unsettled(c) => c \in detached')
                 \/ Unsettled(c) /\ request'[c] = "idle"

LEMMA NothingDisturbs ==
    ASSUME Typed, NEW e \in Executions, UNCHANGED <<limiter, registry>>,
           Entry(e) # None => ~Unsettled(Entry(e).call) /\ Entry(e).status = "waiting"
    PROVE  Disturbs(e)
<1>1. UNCHANGED <<isEnabled, capacity, queue, request, removals, activeExecutions, detached>>
  BY DEF limiter, registry
<1>2. LimiterOK'
  BY <1>1 DEF Typed, LimiterOK, QueueOK
<1>3. /\ activeExecutions \in [Executions -> ActiveExecution \cup {None}]
      /\ detached \subseteq Calls
  BY DEF Typed, TypeOK
<1>4. \A f \in Executions : Entry(f)' = Entry(f)
  BY <1>1 DEF Entry
<1> QED BY <1>1, <1>2, <1>3, <1>4 DEF Disturbs, Woken, Unsettled

LEMMA WithEntryEffect ==
    ASSUME TypeOK, NEW e \in Executions, NEW entry \in ActiveExecution \cup {None}, WithEntry(e, entry)
    PROVE  /\ activeExecutions' \in [Executions -> ActiveExecution \cup {None}]
           /\ Entry(e)' = entry
           /\ \A f \in Executions \ {e} : Entry(f)' = Entry(f)
BY DEF TypeOK, WithEntry, Entry

LEMMA SettleDisturbs ==
    ASSUME Typed, NEW e \in Executions, EntryOK(e), Entry(e) # None, Settle(e)
    PROVE  Disturbs(e)
<1> DEFINE c == Entry(e).call
           kept == [Entry(e) EXCEPT !.workflowExecution = None]
           entry == IF Entry(e).status = "waiting" THEN kept ELSE None
<1>1. TypeOK /\ LimiterOK /\ c \in Calls /\ Entry(e) \in ActiveExecution
  BY DEF Typed, TypeOK, Entry, ActiveExecution
<1>2. CASE ~Unsettled(c) /\ UNCHANGED <<limiter, registry>>
  <2>1. Entry(e).status = "waiting"
    BY <1>1, <1>2, EntryTyped DEF EntryOK
  <2> QED BY <1>2, <2>1, NothingDisturbs
<1>3. CASE Unsettled(c) /\ Limiter!Release(c) /\ WithEntry(e, entry) /\ UNCHANGED detached
  <2>1. kept \in ActiveExecution /\ kept.call = c /\ kept.status = Entry(e).status
    BY <1>1 DEF ActiveExecution
  <2> HIDE DEF c, kept
  <2>2. entry \in ActiveExecution \cup {None}
    BY <2>1
  <2>3. entry # None => entry = kept /\ kept.status = "waiting"
    BY <2>1
  <2> HIDE DEF entry
  <2>4. /\ activeExecutions' \in [Executions -> ActiveExecution \cup {None}]
        /\ Entry(e)' = entry
        /\ \A f \in Executions \ {e} : Entry(f)' = Entry(f)
    BY <1>1, <1>3, <2>2, WithEntryEffect
  <2>5. /\ LimiterOK' /\ request'[c] = "idle"
        /\ Woken(request, request', Calls \ {c})
    BY <1>1, <1>3, ReleaseEffect
  <2>6. detached \subseteq detached' /\ detached' \subseteq Calls
    BY <1>1, <1>3 DEF TypeOK
  <2> QED BY <1>3, <2>1, <2>3, <2>4, <2>5, <2>6 DEF Disturbs, c
<1> QED BY <1>2, <1>3 DEF Settle

LEMMA FinalizeDisturbs ==
    ASSUME Typed, NEW e \in Executions, EntryOK(e), FinalizeExecution(e)
    PROVE  Disturbs(e)
BY SettleDisturbs, NothingDisturbs DEF FinalizeExecution

LEMMA StopDisturbs ==
    ASSUME Typed, NEW e \in Executions, EntryOK(e), StopExecution(e)
    PROVE  /\ Disturbs(e)
           /\ cancelled \subseteq cancelled'
           /\ \A d \in cancelled' \ cancelled : d \in Calls /\ InRun(d)
           /\ cancelWrites' = cancelWrites \cup (cancelled' \ cancelled)
           /\ UNCHANGED <<outcome, handled>>
<1>1. CASE Entry(e) = None /\ UNCHANGED <<limiter, registry, runs>>
  BY <1>1, NothingDisturbs DEF runs
<1>2. CASE /\ Entry(e) # None
           /\ WithEntry(e, None)
           /\ detached' = detached \cup {c \in {Entry(e).call} : Unsettled(c)}
           /\ UNCHANGED <<limiter, runs>>
  <2>1. TypeOK /\ Entry(e).call \in Calls
    BY <1>2, EntryTyped DEF Typed
  <2>2. /\ activeExecutions' \in [Executions -> ActiveExecution \cup {None}]
        /\ Entry(e)' = None
        /\ \A f \in Executions \ {e} : Entry(f)' = Entry(f)
    BY <1>2, <2>1, WithEntryEffect
  <2>3. LimiterOK' /\ UNCHANGED request
    BY <1>2 DEF limiter, Typed, LimiterOK, QueueOK
  <2>4. /\ detached \subseteq detached' /\ detached' \subseteq Calls
        /\ Unsettled(Entry(e).call) => Entry(e).call \in detached'
    BY <1>2, <2>1 DEF TypeOK
  <2>5. Disturbs(e)
    BY <1>2, <2>2, <2>3, <2>4 DEF Disturbs, Woken
  <2> QED BY <1>2, <2>5 DEF runs
<1>3. CASE /\ Entry(e) # None
           /\ cancelled' = cancelled \cup Cancellable(e)
           /\ cancelWrites' = cancelWrites \cup Cancellable(e)
           /\ Settle(e)
           /\ UNCHANGED <<outcome, handled>>
  <2>1. Disturbs(e)
    BY <1>3, SettleDisturbs
  <2>2. \A d \in Cancellable(e) : d \in Calls /\ InRun(d) /\ d \notin cancelled
    BY <1>3, EntryTyped DEF Cancellable, InRun, Typed
  <2> QED BY <1>3, <2>1, <2>2
<1> QED BY <1>1, <1>2, <1>3 DEF StopExecution

-----------------------------------------------------------------------------
(* Every step keeps calls, slots and entries linked *)

\* Disturbing e, perhaps as calls S of e end.
LEMMA DisturbedLinked ==
    ASSUME IInv, NEW e \in Executions, Disturbs(e), NEW S \in SUBSET Calls,
           \A d \in Calls \ S : pc'[d] = pc[d],
           \A d \in S : pc[d] \in {"saved", "failed"} /\ pc'[d] = "over" /\ Id(d) = e,
           handled' = handled \ S,
           \A d \in cancelled' : d \in Calls \ S /\ (d \in cancelled \/ InRun(d))
    PROVE  /\ \A d \in Calls : Linked(d)'
           /\ \A f \in Executions : EntryOK(f)'
<1> DEFINE c == Entry(e).call
<1>1. TypeOK /\ request \in [Calls -> Statuses]
  BY DEF IInv, Typed, LimiterOK
<1>2. Entry(e) # None => c \in Calls /\ Id(c) = e /\ Past(c)
  BY <1>1, EntryTyped DEF IInv, EntryOK
<1>3. \A d \in Calls :
         \/ request'[d] = request[d]
         \/ request[d] = "queued" /\ request'[d] = "granted"
         \/ Entry(e) # None /\ d = c /\ Unsettled(d) /\ request'[d] = "idle"
  <2>1. CASE Entry(e) = None
    BY <2>1 DEF Disturbs
  <2>2. CASE Entry(e) # None
    <3>1. Woken(request, request', Calls \ {c})
      BY <2>2 DEF Disturbs
    <3>2. request'[c] = request[c] \/ (Unsettled(c) /\ request'[c] = "idle")
      BY <2>2 DEF Disturbs
    <3> HIDE DEF c
    <3> QED BY <2>2, <3>1, <3>2 DEF Woken
  <2> QED BY <2>1, <2>2
<1>4. ASSUME NEW d \in Calls PROVE Linked(d)'
  <2>1. Linked(d)
    BY DEF IInv
  <2>2. request'[d] = "queued" => pc'[d] = "throttled"
    BY <1>3, <2>1 DEF Linked
  <2>3. pc'[d] \in {"unused", "loading", "created"} => request'[d] = "idle"
    BY <1>3, <2>1 DEF Linked
  <2>4. pc'[d] = "marked" => Unsettled(d)'
    BY <1>2, <1>3, <2>1 DEF Linked, Unsettled, Past
  <2>5. Unsettled(d)' /\ Past(d)' =>
           d \in detached' \/ (Entry(Id(d))' # None /\ Entry(Id(d))'.call = d)
    <3> SUFFICES ASSUME Unsettled(d)', Past(d)'
                 PROVE  d \in detached' \/ (Entry(Id(d))' # None /\ Entry(Id(d))'.call = d)
      OBVIOUS
    <3>1. Past(d) /\ Unsettled(d)
      BY <1>3, <2>1 DEF Linked, Unsettled, Past
    <3>2. d \in detached \/ (Entry(Id(d)) # None /\ Entry(Id(d)).call = d)
      BY <2>1, <3>1 DEF Linked
    <3>3. CASE Id(d) # e
      BY <3>2, <3>3, CallIds DEF Disturbs
    <3>4. CASE Id(d) = e
      BY <3>2, <3>4 DEF Disturbs, Unsettled
    <3> QED BY <3>3, <3>4
  <2>6. d \in cancelled' => InRun(d)'
    BY <2>1 DEF Linked, InRun
  <2>7. pc'[d] = "saving progress" => SaveProgress
    BY <2>1 DEF Linked
  <2> QED BY <2>2, <2>3, <2>4, <2>5, <2>6, <2>7 DEF Linked
<1>5. ASSUME NEW f \in Executions PROVE EntryOK(f)'
  <2>1. CASE f = e
    BY <1>2, <2>1 DEF EntryOK, IInv, Disturbs, Unsettled, Past, InRun
  <2>2. CASE f # e
    <3> SUFFICES ASSUME Entry(f) # None
                 PROVE  EntryOK(f)'
      BY <2>2 DEF EntryOK, Disturbs
    <3>1. Entry(f).call \in Calls \ S /\ Id(Entry(f).call) = f /\ Entry(f)' = Entry(f)
      BY <1>1, <2>2, EntryTyped DEF Disturbs
    <3>2. EntryOK(f) /\ Linked(Entry(f).call)
      BY <3>1 DEF IInv
    <3> HIDE DEF c
    <3> QED BY <1>2, <1>3, <2>2, <3>1, <3>2, ZenonT(40) DEF EntryOK, Linked, Unsettled, Past, InRun
  <2> QED BY <2>1, <2>2
<1> QED BY <1>4, <1>5

LEMMA FrameLinked ==
    ASSUME IInv, UNCHANGED <<request, activeExecutions, detached, pc, handled, cancelled>>
    PROVE  /\ \A d \in Calls : Linked(d)'
           /\ \A e \in Executions : EntryOK(e)'
<1>1. \A d \in Calls : Linked(d)'
  BY DEF IInv, Linked, Unsettled, Past, InRun, Entry
<1>2. \A e \in Executions : EntryOK(e)'
  BY DEF IInv, EntryOK, Unsettled, Past, InRun, Entry
<1> QED BY <1>1, <1>2

LEMMA ThrottleLinked ==
    ASSUME IInv, NEW c \in Calls, Throttle(c)
    PROVE  /\ LimiterOK'
           /\ \A d \in Calls : Linked(d)'
           /\ \A e \in Executions : EntryOK(e)'
<1>1. /\ pc[c] = "created" /\ pc' = [pc EXCEPT ![c] = "throttled"] /\ pc'[c] = "throttled"
      /\ UNCHANGED <<activeExecutions, detached, handled, cancelled>>
      /\ Limiter!Throttle(c) /\ TypeOK /\ LimiterOK
  BY DEF Throttle, Goto, registry, runs, IInv, Typed, TypeOK
<1>2. /\ LimiterOK'
      /\ request[c] = "idle" /\ request'[c] \in {"queued", "granted", "free"}
      /\ \A d \in Calls \ {c} : request'[d] = request[d]
  BY <1>1, ThrottleEffect
<1>3. Linked(c)'
  BY <1>1, <1>2 DEF IInv, Linked, Unsettled, Past, InRun, Entry
<1>4. ASSUME NEW d \in Calls, d # c PROVE UNCHANGED <<pc[d], request[d]>>
  BY <1>1, <1>2, <1>4 DEF TypeOK
<1>5. \A d \in Calls : Linked(d)'
  <2>1. ASSUME NEW d \in Calls, d # c PROVE Linked(d)'
    <3>1. pc'[d] = pc[d] /\ request'[d] = request[d]
      BY <1>4, <2>1
    <3> QED BY <1>1, <3>1 DEF IInv, Linked, Unsettled, Past, InRun, Entry
  <2> QED BY <1>3, <2>1
<1>6. ASSUME NEW e \in Executions, Entry(e) # None PROVE EntryOK(e)'
  <2>1. Entry(e).call \in Calls /\ Entry(e).call # c
    BY <1>1, <1>6, EntryTyped DEF IInv, EntryOK, Past
  <2>2. /\ pc'[Entry(e).call] = pc[Entry(e).call]
        /\ request'[Entry(e).call] = request[Entry(e).call]
    BY <1>4, <2>1
  <2> QED BY <1>1, <1>6, <2>2 DEF IInv, EntryOK, Unsettled, Past, InRun, Entry
<1>7. \A e \in Executions : EntryOK(e)'
  BY <1>1, <1>6 DEF EntryOK, Entry
<1> QED BY <1>2, <1>5, <1>7

\* The new entry replaces one whose call may still be running.
LEMMA RegisterLinked ==
    ASSUME IInv, NEW c \in Calls, Register(c)
    PROVE  /\ activeExecutions' \in [Executions -> ActiveExecution \cup {None}]
           /\ detached' \subseteq Calls
           /\ \A d \in Calls : Linked(d)'
           /\ \A e \in Executions : EntryOK(e)'
           /\ \A e \in Executions : Entry(e)' # None => Id(Entry(e)'.call) = e
<1> DEFINE x == Id(c)
           promise == Entry(x) # None /\ Entry(x).responsePromise
           entry == [call |-> c, status |-> "running", workflowExecution |-> None,
                     responsePromise |-> promise]
<1>1. TypeOK /\ x \in Executions
  BY CallIds DEF IInv, Typed
<1>2. /\ pc[c] = "marked" /\ pc' = [pc EXCEPT ![c] = "registered"]
      /\ WithEntry(x, entry)
      /\ detached' = detached \cup IF Entry(x) = None THEN {} ELSE {d \in {Entry(x).call} : Unsettled(d)}
      /\ UNCHANGED <<request, handled, cancelled>>
  BY DEF Register, Goto, limiter, runs
<1>3. promise \in BOOLEAN
  OBVIOUS
<1> HIDE DEF promise
<1>4. entry \in ActiveExecution /\ entry.call = c /\ entry.status = "running"
  BY <1>3 DEF ActiveExecution
<1> HIDE DEF entry
<1>5. /\ activeExecutions' \in [Executions -> ActiveExecution \cup {None}]
      /\ Entry(x)' = entry /\ entry # None
      /\ \A f \in Executions \ {x} : Entry(f)' = Entry(f)
  BY <1>1, <1>2, <1>4, NoneAssumption, WithEntryEffect
<1>6. Entry(x) # None => Entry(x).call \in Calls /\ Id(Entry(x).call) = x
  BY <1>1, EntryTyped
<1>7. /\ detached \subseteq detached' /\ detached' \subseteq Calls
      /\ Entry(x) # None /\ Unsettled(Entry(x).call) => Entry(x).call \in detached'
  BY <1>1, <1>2, <1>6 DEF TypeOK
<1>8. pc'[c] = "registered" /\ \A d \in Calls \ {c} : pc'[d] = pc[d]
  BY <1>1, <1>2 DEF TypeOK
<1>9. ASSUME NEW d \in Calls PROVE Linked(d)'
  <2>1. CASE d = c
    BY <1>2, <1>4, <1>5, <1>8, <2>1 DEF IInv, Linked, Unsettled, Past, InRun
  <2>2. CASE d # c
    <3>1. pc'[d] = pc[d] /\ Linked(d) /\ Id(d) \in Executions
      BY <1>8, <2>2, CallIds DEF IInv
    <3>2. Unsettled(d) /\ Past(d) => d \in detached' \/ (Entry(Id(d))' # None /\ Entry(Id(d))'.call = d)
      BY <1>5, <1>7, <3>1 DEF Linked
    <3> QED BY <1>2, <3>1, <3>2 DEF Linked, Unsettled, Past, InRun
  <2> QED BY <2>1, <2>2
<1>10. ASSUME NEW e \in Executions PROVE EntryOK(e)' /\ (Entry(e)' # None => Id(Entry(e)'.call) = e)
  <2>1. CASE e = x
    <3>1. Unsettled(c)
      BY <1>2 DEF IInv, Linked
    <3> QED BY <1>2, <1>4, <1>5, <1>8, <2>1, <3>1 DEF EntryOK, Unsettled, Past, InRun
  <2>2. CASE e # x
    <3> SUFFICES ASSUME Entry(e) # None
                 PROVE  EntryOK(e)' /\ (Entry(e)' # None => Id(Entry(e)'.call) = e)
      BY <1>5, <2>2 DEF EntryOK
    <3>1. Entry(e)' = Entry(e) /\ Entry(e).call \in Calls \ {c} /\ Id(Entry(e).call) = e
      BY <1>1, <1>5, <2>2, EntryTyped
    <3>2. EntryOK(e) /\ pc'[Entry(e).call] = pc[Entry(e).call]
      BY <1>8, <3>1 DEF IInv
    <3> QED BY <1>2, <3>1, <3>2 DEF EntryOK, Unsettled, Past, InRun
  <2> QED BY <2>1, <2>2
<1> QED BY <1>5, <1>7, <1>9, <1>10

\* An entry that is kept for the same call, by a step of the call c.
LEMMA KeptEntryLinked ==
    ASSUME IInv, NEW c \in Calls, NEW entry \in ActiveExecution,
           Entry(Id(c)) # None, entry.call = Entry(Id(c)).call,
           entry.status \in {Entry(Id(c)).status, "waiting"}, WithEntry(Id(c), entry),
           UNCHANGED <<request, detached, cancelled>>,
           \/ UNCHANGED <<pc, handled>>
           \/ /\ pc[c] = "registered" /\ pc' = [pc EXCEPT ![c] = "running"]
              /\ handled' = handled \cup {c}
    PROVE  /\ activeExecutions' \in [Executions -> ActiveExecution \cup {None}]
           /\ \A d \in Calls : Linked(d)'
           /\ \A e \in Executions : EntryOK(e)'
           /\ \A e \in Executions : Entry(e)' # None => Id(Entry(e)'.call) = e
<1> DEFINE x == Id(c)
<1>1. TypeOK /\ x \in Executions
  BY CallIds DEF IInv, Typed
<1>2. /\ activeExecutions' \in [Executions -> ActiveExecution \cup {None}]
      /\ Entry(x)' = entry /\ entry # None
      /\ \A f \in Executions \ {x} : Entry(f)' = Entry(f)
  BY <1>1, NoneAssumption, WithEntryEffect
<1>3. \A e \in Executions :
         /\ Entry(e)' # None <=> Entry(e) # None
         /\ Entry(e) # None => /\ Entry(e)'.call = Entry(e).call /\ Entry(e).call \in Calls
                               /\ Id(Entry(e).call) = e
                               /\ Entry(e)'.status = "running" => Entry(e).status = "running"
  BY <1>1, <1>2, EntryTyped
<1>4. \A d \in Calls :
         pc'[d] = pc[d] \/ (d = c /\ pc[d] = "registered" /\ pc'[d] = "running")
  BY <1>1 DEF TypeOK
<1>5. handled \subseteq handled' /\ (pc'[c] = pc[c] \/ c \in handled')
  BY <1>1 DEF TypeOK
<1>6. \A d \in Calls : Linked(d)'
  <2> TAKE d \in Calls
  <2>1. Linked(d) /\ Id(d) \in Executions
    BY CallIds DEF IInv
  <2> QED BY <1>3, <1>4, <2>1 DEF Linked, Unsettled, Past, InRun
<1>7. \A e \in Executions : EntryOK(e)'
  <2> TAKE e \in Executions
  <2>1. EntryOK(e)
    BY DEF IInv
  <2> QED BY <1>3, <1>4, <1>5, <2>1 DEF EntryOK, Unsettled, Past, InRun
<1>8. \A e \in Executions : Entry(e)' # None => Id(Entry(e)'.call) = e
  BY <1>3
<1> QED BY <1>2, <1>6, <1>7, <1>8

\* What a step has to keep: the registry typed, calls and entries linked.
RegistryOK ==
    /\ activeExecutions \in [Executions -> ActiveExecution \cup {None}]
    /\ \A e \in Executions : Entry(e) # None => Id(Entry(e).call) = e
    /\ detached \subseteq Calls
    /\ \A c \in Calls : Linked(c)
    /\ \A e \in Executions : EntryOK(e)

LEMMA StartLinked ==
    ASSUME IInv, NEW c \in Calls, Start(c)
    PROVE  RegistryOK'
<1> DEFINE x == Id(c)
           promise == Entry(x).responsePromise \/ Responds(c)
           entry == [Entry(x) EXCEPT !.workflowExecution = c, !.responsePromise = promise]
<1>1. TypeOK /\ x \in Executions /\ detached' = detached
  BY CallIds DEF IInv, Typed, Start
<1>2. /\ pc[c] = "registered" /\ pc' = [pc EXCEPT ![c] = "running"]
      /\ UNCHANGED <<request, detached, cancelled>>
      /\ \/ Entry(x) = None /\ UNCHANGED <<activeExecutions, handled>>
         \/ Entry(x) # None /\ WithEntry(x, entry) /\ handled' = handled \cup {c}
  BY DEF Start, Goto, limiter
<1>3. CASE Entry(x) = None /\ UNCHANGED <<activeExecutions, handled>>
  <2>1. /\ pc'[c] = "running" /\ \A d \in Calls \ {c} : pc'[d] = pc[d]
        /\ \A e \in Executions : Entry(e)' = Entry(e)
    BY <1>1, <1>2, <1>3 DEF TypeOK, Entry
  <2>2. \A d \in Calls : Linked(d)'
    <3> TAKE d \in Calls
    <3>1. Linked(d) /\ Id(d) \in Executions
      BY CallIds DEF IInv
    <3> QED BY <1>2, <2>1, <3>1 DEF Linked, Unsettled, Past, InRun
  <2>3. \A e \in Executions : EntryOK(e)'
    <3> SUFFICES ASSUME NEW e \in Executions, Entry(e) # None
                 PROVE  EntryOK(e)'
      BY <2>1 DEF EntryOK
    <3>1. Entry(e).call \in Calls \ {c} /\ EntryOK(e)
      BY <1>1, <1>3, EntryTyped DEF IInv
    <3> QED BY <1>2, <1>3, <2>1, <3>1 DEF EntryOK, Unsettled, Past, InRun
  <2> QED BY <1>1, <1>3, <2>1, <2>2, <2>3 DEF RegistryOK, TypeOK
<1>4. CASE Entry(x) # None /\ WithEntry(x, entry) /\ handled' = handled \cup {c}
  <2>1. /\ promise \in BOOLEAN /\ Entry(x) \in ActiveExecution
    BY <1>1, <1>4 DEF TypeOK, Entry, Responds
  <2> HIDE DEF promise
  <2>2. entry \in ActiveExecution /\ entry.call = Entry(x).call /\ entry.status = Entry(x).status
    BY <2>1 DEF ActiveExecution
  <2> HIDE DEF entry
  <2>3. /\ activeExecutions' \in [Executions -> ActiveExecution \cup {None}]
        /\ \A d \in Calls : Linked(d)'
        /\ \A e \in Executions : EntryOK(e)'
        /\ \A e \in Executions : Entry(e)' # None => Id(Entry(e)'.call) = e
    BY <1>2, <1>4, <2>2, KeptEntryLinked
  <2> QED BY <1>1, <2>3 DEF RegistryOK, TypeOK
<1> QED BY <1>2, <1>3, <1>4

LEMMA PutToWaitLinked ==
    ASSUME IInv, NEW c \in Calls, PutToWait(c)
    PROVE  RegistryOK'
<1> DEFINE x == Id(c)
           entry == [Entry(x) EXCEPT !.status = "waiting"]
<1>1. TypeOK /\ x \in Executions
  BY CallIds DEF IInv, Typed
<1>2. /\ UNCHANGED <<request, pc, detached, handled, cancelled>>
      /\ UNCHANGED activeExecutions \/ (Entry(x) # None /\ WithEntry(x, entry))
  BY DEF PutToWait, limiter
<1>3. CASE UNCHANGED activeExecutions
  BY <1>1, <1>2, <1>3, FrameLinked DEF RegistryOK, TypeOK, Entry
<1>4. CASE Entry(x) # None /\ WithEntry(x, entry)
  <2>1. Entry(x) \in ActiveExecution
    BY <1>1, <1>4 DEF TypeOK, Entry
  <2>2. entry \in ActiveExecution /\ entry.call = Entry(x).call /\ entry.status = "waiting"
    BY <2>1 DEF ActiveExecution
  <2> HIDE DEF entry
  <2>3. /\ activeExecutions' \in [Executions -> ActiveExecution \cup {None}]
        /\ \A d \in Calls : Linked(d)'
        /\ \A e \in Executions : EntryOK(e)'
        /\ \A e \in Executions : Entry(e)' # None => Id(Entry(e)'.call) = e
    BY <1>2, <1>4, <2>2, KeptEntryLinked
  <2> QED BY <1>1, <1>2, <2>3 DEF RegistryOK, TypeOK
<1> QED BY <1>2, <1>3, <1>4

LEMMA FinalizeLinked ==
    ASSUME IInv, NEW c \in Calls, Finalize(c)
    PROVE  LimiterOK' /\ RegistryOK'
<1> DEFINE x == Id(c)
<1>1. Typed /\ TypeOK /\ x \in Executions /\ EntryOK(x)
  BY CallIds DEF IInv, Typed
<1>2. /\ pc[c] \in {"saved", "failed"} /\ pc' = [pc EXCEPT ![c] = "over"]
      /\ handled' = handled \ {c} /\ cancelled' = cancelled \ {c}
      /\ \/ FinalizeExecution(x)
         \/ c \notin handled /\ pc[c] = "saved" /\ UNCHANGED <<limiter, registry>>
  BY DEF Finalize, Goto
<1>3. pc'[c] = "over" /\ \A d \in Calls \ {c} : pc'[d] = pc[d]
  BY <1>1, <1>2 DEF TypeOK
<1>4. CASE FinalizeExecution(x)
  <2>1. Disturbs(x)
    BY <1>1, <1>4, FinalizeDisturbs
  <2>2. \A d \in cancelled' : d \in Calls \ {c} /\ (d \in cancelled \/ InRun(d))
    BY <1>1, <1>2 DEF TypeOK
  <2>3. /\ \A d \in Calls : Linked(d)'
        /\ \A f \in Executions : EntryOK(f)'
    <3>1. {c} \in SUBSET Calls
      OBVIOUS
    <3>2. /\ \A d \in Calls \ {c} : pc'[d] = pc[d]
          /\ \A d \in {c} : pc[d] \in {"saved", "failed"} /\ pc'[d] = "over" /\ Id(d) = x
      BY <1>2, <1>3
    <3> QED BY <1>1, <1>2, <2>1, <2>2, <3>1, <3>2, DisturbedLinked
  <2>4. \A e \in Executions : Entry(e)' # None => Id(Entry(e)'.call) = e
    BY <2>3 DEF EntryOK
  <2> QED BY <2>1, <2>3, <2>4 DEF RegistryOK, Disturbs
<1>5. CASE c \notin handled /\ pc[c] = "saved" /\ UNCHANGED <<limiter, registry>>
  <2>1. UNCHANGED <<isEnabled, capacity, queue, request, removals, activeExecutions, detached>>
    BY <1>5 DEF limiter, registry
  <2>2. Entry(x) # None => Entry(x).call # c
    BY <1>1, <1>5 DEF EntryOK, InRun
  <2>3. LimiterOK'
    BY <1>1, <2>1 DEF Typed, LimiterOK, QueueOK
  <2>4. \A d \in Calls : Linked(d)'
    <3> TAKE d \in Calls
    <3>1. Linked(d) /\ Id(d) \in Executions
      BY CallIds DEF IInv
    <3>2. CASE d = c
      BY <1>2, <1>3, <1>5, <2>1, <2>2, <3>1, <3>2 DEF Linked, Unsettled, Past, InRun, Entry
    <3>3. CASE d # c
      <4>1. pc'[d] = pc[d]
        BY <1>3, <3>3
      <4> QED BY <1>2, <2>1, <3>1, <4>1 DEF Linked, Unsettled, Past, InRun, Entry
    <3> QED BY <3>2, <3>3
  <2>5. \A e \in Executions : EntryOK(e)'
    <3> SUFFICES ASSUME NEW e \in Executions, Entry(e) # None
                 PROVE  EntryOK(e)'
      BY <2>1 DEF EntryOK, Entry
    <3>1. Entry(e).call \in Calls /\ Id(Entry(e).call) = e
      BY <1>1, EntryTyped
    <3>2. Entry(e).call # c /\ EntryOK(e)
      BY <2>2, <3>1 DEF IInv
    <3>3. pc'[Entry(e).call] = pc[Entry(e).call]
      BY <1>3, <3>1, <3>2
    <3> QED BY <1>2, <2>1, <3>2, <3>3 DEF EntryOK, Unsettled, Past, InRun, Entry
  <2> QED BY <1>1, <2>1, <2>3, <2>4, <2>5 DEF RegistryOK, TypeOK, Entry
<1> QED BY <1>2, <1>4, <1>5

LEMMA StopLinked ==
    ASSUME IInv, NEW e \in Executions, StopExecution(e), UNCHANGED pc
    PROVE  LimiterOK' /\ RegistryOK'
<1>1. Typed /\ TypeOK /\ EntryOK(e)
  BY DEF IInv, Typed
<1>2. /\ Disturbs(e) /\ UNCHANGED handled
      /\ cancelled \subseteq cancelled'
      /\ \A d \in cancelled' \ cancelled : d \in Calls /\ InRun(d)
  BY <1>1, StopDisturbs
<1>3. \A d \in cancelled' : d \in Calls /\ (d \in cancelled \/ InRun(d))
  BY <1>1, <1>2 DEF TypeOK
<1>4. /\ \A d \in Calls : Linked(d)'
      /\ \A f \in Executions : EntryOK(f)'
  <2>1. /\ {} \in SUBSET Calls /\ handled' = handled \ {}
        /\ \A d \in Calls \ {} : pc'[d] = pc[d]
        /\ \A d \in {} : pc[d] \in {"saved", "failed"} /\ pc'[d] = "over" /\ Id(d) = e
        /\ \A d \in cancelled' : d \in Calls \ {} /\ (d \in cancelled \/ InRun(d))
    BY <1>2, <1>3
  <2> QED BY <1>2, <2>1, DisturbedLinked
<1>5. \A f \in Executions : Entry(f)' # None => Id(Entry(f)'.call) = f
  BY <1>4 DEF EntryOK
<1> QED BY <1>2, <1>4, <1>5 DEF RegistryOK, Disturbs

LEMMA StopQueuedLinked ==
    ASSUME IInv, NEW s \in Stops, StopQueued(s)
    PROVE  LimiterOK' /\ RegistryOK'
<1>1. /\ stop[s].at = "read"
      /\ UNCHANGED <<pc, activeExecutions, detached, handled, cancelled>>
  BY DEF StopQueued, registry, runs
<1>2. PICK i \in Queued(stop[s].id) : Limiter!RemoveQueued(stop[s].id, i)
  BY DEF StopQueued
<1>3. stop[s].id \in Executions
  BY <1>1 DEF IInv, Typed
<1>4. /\ LimiterOK'
      /\ \E c \in Calls :
            /\ Id(c) = stop[s].id /\ request[c] = "queued" /\ request'[c] = "idle"
            /\ Woken(request, request', Calls \ {c})
  BY <1>2, <1>3, RemoveEffect DEF IInv, Typed
<1>5. \A d \in Calls :
         request'[d] = request[d] \/ (request[d] = "queued" /\ request'[d] \in {"idle", "granted"})
  BY <1>4 DEF Woken
<1>6. \A d \in Calls : Linked(d)'
  <2> TAKE d \in Calls
  <2>1. Linked(d)
    BY DEF IInv
  <2> QED BY <1>1, <1>5, <2>1 DEF Linked, Unsettled, Past, InRun, Entry
<1>7. \A e \in Executions : EntryOK(e)'
  <2> SUFFICES ASSUME NEW e \in Executions, Entry(e) # None
               PROVE  EntryOK(e)'
    BY <1>1 DEF EntryOK, Entry
  <2>1. Entry(e).call \in Calls
    BY EntryTyped DEF IInv, Typed
  <2>2. EntryOK(e) /\ Linked(Entry(e).call)
    BY <2>1 DEF IInv
  <2> QED BY <1>1, <1>5, <2>1, <2>2 DEF EntryOK, Linked, Unsettled, Past, InRun, Entry
<1> QED BY <1>1, <1>4, <1>6, <1>7 DEF RegistryOK, IInv, Typed, TypeOK, Entry

LEMMA DrainLinked ==
    ASSUME IInv, Drain
    PROVE  /\ LimiterOK' /\ RegistryOK'
           /\ cancelled \subseteq cancelled' /\ cancelWrites' = cancelWrites \cup (cancelled' \ cancelled)
           /\ cancelled' \subseteq Calls /\ detached \subseteq detached'
           /\ \A c \in Calls : request'[c] = request[c] \/ Past(c)
<1> DEFINE waiting == {e \in Executions : Entry(e) # None /\ Entry(e).status = "waiting"}
           running == {e \in Executions : Entry(e) # None} \ waiting
           toCancel == {e \in running : Entry(e).responsePromise /\ Unsettled(Entry(e).call)}
           aborted == UNION {Cancellable(e) : e \in toCancel}
           settled == {Entry(e).call : e \in toCancel}
           lost == {c \in {Entry(e).call : e \in waiting} : Unsettled(c)}
<1>1. /\ isEnabled' = FALSE
      /\ request' = [c \in Calls |-> IF c \in settled THEN "idle" ELSE request[c]]
      /\ activeExecutions' = [e \in Executions |-> IF e \in toCancel \cup waiting THEN None ELSE Entry(e)]
      /\ cancelled' = cancelled \cup aborted /\ cancelWrites' = cancelWrites \cup aborted
      /\ detached' = detached \cup lost
      /\ UNCHANGED <<capacity, queue, removals, pc, handled>>
  BY DEF Drain
<1>2. /\ Typed /\ TypeOK /\ LimiterOK
      /\ \A e \in Executions : Entry(e) # None => Entry(e).call \in Calls /\ Id(Entry(e).call) = e /\ Past(Entry(e).call)
  BY EntryTyped DEF IInv, Typed, EntryOK
<1>3. /\ toCancel \subseteq Executions /\ waiting \subseteq Executions
      /\ \A e \in toCancel \cup waiting : Entry(e) # None
      /\ \A c \in settled : c \in Calls /\ Id(c) \in toCancel /\ Past(c) /\ Unsettled(c)
      /\ \A e \in toCancel : Entry(e).call \in settled
      /\ \A e \in waiting : Unsettled(Entry(e).call) => Entry(e).call \in lost
  BY <1>2
<1>4. \A d \in aborted : d \in Calls /\ InRun(d) /\ d \notin cancelled
  <2>1. ASSUME NEW e \in toCancel PROVE Entry(e).workflowExecution \in Calls \cup {None}
    BY <1>2, <1>3, EntryTyped
  <2> TAKE d \in aborted
  <2>2. PICK e \in toCancel : d \in Cancellable(e)
    OBVIOUS
  <2> HIDE DEF toCancel, aborted
  <2> QED BY <2>1, <2>2 DEF Cancellable, InRun
<1>5. lost \subseteq Calls
  BY <1>2, <1>3
<1> HIDE DEF toCancel, waiting, running, aborted, settled, lost
<1>6. \A d \in Calls : request'[d] = IF d \in settled THEN "idle" ELSE request[d]
  BY <1>1
<1>7. \A e \in Executions : Entry(e)' = IF e \in toCancel \cup waiting THEN None ELSE Entry(e)
  BY <1>1 DEF Entry
<1>8. LimiterOK'
  <2>1. QueueOK(queue["production"], request')
    <3> DEFINE line == queue["production"]
    <3>1. line \in Seq(Calls) /\ QueueOK(line, request)
      BY <1>2 DEF LimiterOK
    <3> HIDE DEF line
    <3>2. \A i \in 1..Len(line) : line[i] \in Calls /\ request[line[i]] = "queued"
      BY <3>1, ElementOfSeq DEF QueueOK
    <3>3. \A i \in 1..Len(line) : request'[line[i]] = "queued"
      BY <1>3, <1>6, <3>2 DEF Unsettled
    <3>4. QueueOK(line, request')
      BY <3>1, <3>3 DEF QueueOK
    <3> QED BY <3>4 DEF line
  <2>2. request' \in [Calls -> Statuses]
    BY <1>1, <1>2 DEF LimiterOK, Statuses
  <2> QED BY <1>1, <1>2, <2>1, <2>2 DEF LimiterOK
<1>9. \A d \in Calls : Linked(d)'
  <2> TAKE d \in Calls
  <2>1. Linked(d) /\ Id(d) \in Executions
    BY CallIds DEF IInv
  <2>2. Unsettled(d)' /\ Past(d)' => d \in detached' \/ (Entry(Id(d))' # None /\ Entry(Id(d))'.call = d)
    <3> SUFFICES ASSUME Unsettled(d)', Past(d)', d \notin detached'
                 PROVE  Entry(Id(d))' # None /\ Entry(Id(d))'.call = d
      OBVIOUS
    <3>1. Unsettled(d) /\ Past(d) /\ d \notin settled
      BY <1>1, <1>6 DEF Unsettled, Past
    <3>2. Entry(Id(d)) # None /\ Entry(Id(d)).call = d
      BY <1>1, <2>1, <3>1 DEF Linked
    <3>3. Id(d) \notin toCancel \cup waiting
      BY <1>1, <1>3, <3>1, <3>2
    <3> QED BY <1>7, <2>1, <3>2, <3>3
  <2>3. d \in settled => Past(d)
    BY <1>3
  <2> QED BY <1>1, <1>4, <1>6, <2>1, <2>2, <2>3 DEF Linked, Unsettled, Past, InRun
<1>10. \A e \in Executions : EntryOK(e)'
  <2> SUFFICES ASSUME NEW e \in Executions, Entry(e)' # None
               PROVE  EntryOK(e)'
    BY DEF EntryOK
  <2>1. e \notin toCancel \cup waiting /\ Entry(e)' = Entry(e) /\ Entry(e) # None
    BY <1>7
  <2>2. Entry(e).call \in Calls \ settled
    BY <1>2, <1>3, <2>1
  <2>3. EntryOK(e) /\ request'[Entry(e).call] = request[Entry(e).call]
    BY <1>6, <2>2 DEF IInv
  <2> QED BY <1>1, <2>1, <2>3 DEF EntryOK, Unsettled, Past, InRun
<1>11. RegistryOK'
  <2>1. \A e \in Executions : Entry(e)' # None => Id(Entry(e)'.call) = e
    BY <1>10 DEF EntryOK
  <2>2. activeExecutions' \in [Executions -> ActiveExecution \cup {None}]
    BY <1>1, <1>2 DEF TypeOK, Entry
  <2> QED BY <1>1, <1>2, <1>5, <1>9, <1>10, <2>1, <2>2 DEF RegistryOK, TypeOK
<1>12. cancelled' \subseteq Calls /\ cancelWrites' = cancelWrites \cup (cancelled' \ cancelled)
  BY <1>1, <1>2, <1>4 DEF TypeOK
<1> QED BY <1>1, <1>3, <1>6, <1>8, <1>11, <1>12

LEMMA DieLinked ==
    ASSUME IInv, Die
    PROVE  LimiterOK' /\ RegistryOK'
<1>1. /\ isEnabled' = TRUE
      /\ capacity' = [t \in {"production"} |-> Limit]
      /\ queue' = [t \in {"production"} |-> <<>>]
      /\ request' = [c \in Calls |-> "idle"]
      /\ removals' = [t \in {"production"} |-> 0]
      /\ activeExecutions' = [e \in Executions |-> None]
      /\ detached' = {} /\ cancelled' = {}
      /\ pc' = [c \in Calls |-> IF pc[c] = "unused" THEN "unused" ELSE "over"]
  BY DEF Die
<1>2. LimiterOK'
  BY <1>1, RegularAssumption, EmptySeq DEF LimiterOK, QueueOK, Statuses
<1>3. \A d \in Calls : Linked(d)'
  BY <1>1 DEF Linked, Unsettled, Past, InRun, Entry
<1>4. \A e \in Executions : Entry(e)' = None
  BY <1>1 DEF Entry
<1> QED BY <1>1, <1>2, <1>3, <1>4 DEF RegistryOK, EntryOK

-----------------------------------------------------------------------------
(* What is written to the rows *)

\* The row of e gets this status, the other rows keep theirs.
Sets(e, status) ==
    /\ db' \in [Executions -> Row]
    /\ db'[e].status = status
    /\ \A f \in Executions \ {e} : db'[f].status = db[f].status

LEMMA CallsWrite ==
    ASSUME Typed, NEW c \in Calls
    PROVE  /\ Create(c) => Sets(Id(c), "new")
           /\ MarkRunning(c) \/ Start(c) \/ WriteProgress(c) => Sets(Id(c), "running")
           /\ SaveOutcome(c) => Sets(Id(c), outcome[c])
           /\ SaveCancelled(c) => Sets(Id(c), "canceled")
<1> DEFINE x == Id(c)
<1>1. x \in Executions /\ db \in [Executions -> Row]
  BY CallIds DEF Typed
<1>2. ASSUME Create(c) PROVE Sets(x, "new")
  <2>1. db' = [db EXCEPT ![x].status = "new"]
    BY <1>2 DEF Create
  <2> HIDE DEF x
  <2> QED BY <1>1, <2>1 DEF Sets, Row
<1>3. ASSUME MarkRunning(c) PROVE Sets(x, "running")
  <2>1. db' = [db EXCEPT ![x].status = "running", ![x].waitTill = FALSE]
    BY <1>3 DEF MarkRunning
  <2> HIDE DEF x
  <2> QED BY <1>1, <2>1 DEF Sets, Row
<1>4. ASSUME Start(c) PROVE Sets(x, "running")
  <2>1. db' = [db EXCEPT ![x].status = "running"]
    BY <1>4 DEF Start
  <2> HIDE DEF x
  <2> QED BY <1>1, <2>1 DEF Sets, Row
<1>5. ASSUME WriteProgress(c) PROVE Sets(x, "running")
  <2>1. db' = [db EXCEPT ![x].status = "running", ![x].finished = FALSE]
    BY <1>5 DEF WriteProgress
  <2> HIDE DEF x
  <2> QED BY <1>1, <2>1 DEF Sets, Row
<1>6. ASSUME SaveOutcome(c) PROVE Sets(x, outcome[c])
  <2> DEFINE stillWaits == outcome[c] = "waiting" \/ db[x].waitTill
             row == [status |-> outcome[c], finished |-> outcome[c] = "success", waitTill |-> stillWaits]
  <2>1. db' = [db EXCEPT ![x] = row]
    BY <1>6 DEF SaveOutcome
  <2>2. stillWaits \in BOOLEAN /\ outcome[c] \in {"none", "success", "error", "waiting"}
    BY <1>1 DEF Typed, TypeOK, Row
  <2> HIDE DEF x, stillWaits
  <2>3. row \in Row /\ row.status = outcome[c]
    BY <2>2 DEF Row
  <2> HIDE DEF row
  <2> QED BY <1>1, <2>1, <2>3 DEF Sets
<1>7. ASSUME SaveCancelled(c) PROVE Sets(x, "canceled")
  <2>1. db' = [db EXCEPT ![x].status = "canceled", ![x].finished = FALSE]
    BY <1>7 DEF SaveCancelled
  <2> HIDE DEF x
  <2> QED BY <1>1, <2>1 DEF Sets, Row
<1> QED BY <1>2, <1>3, <1>4, <1>5, <1>6, <1>7

LEMMA StopsWrite ==
    ASSUME Typed, NEW s \in Stops, WriteStopped(s)
    PROVE  stop[s].id \in Executions /\ Sets(stop[s].id, "canceled")
<1> DEFINE x == stop[s].id
           kept == [db[x] EXCEPT !.status = "canceled"]
           new == [status |-> "canceled", waitTill |-> FALSE, finished |-> stop[s].finished]
<1>1. x \in Executions /\ stop[s].finished \in BOOLEAN /\ db[x] \in Row /\ db \in [Executions -> Row]
  BY DEF Typed, WriteStopped
<1>2. db' = [db EXCEPT ![x] = IF stop[s].at = "before run" THEN kept ELSE new]
  BY DEF WriteStopped
<1>3. kept \in Row /\ kept.status = "canceled"
  BY <1>1 DEF Row
<1>4. new \in Row /\ new.status = "canceled"
  BY <1>1 DEF Row
<1> HIDE DEF x, kept, new
<1>5. Sets(x, "canceled")
  BY <1>1, <1>2, <1>3, <1>4 DEF Sets
<1> QED BY <1>1, <1>5 DEF x

LEMMA RecoverWrites ==
    ASSUME Typed, Recover
    PROVE  /\ db' \in [Executions -> Row]
           /\ \A e \in Executions : db'[e].status # "running"
<1>1. ASSUME NEW e \in Executions
      PROVE  db'[e] \in Row /\ db'[e].status # "running"
  <2> DEFINE crashed == [db[e] EXCEPT !.status = "crashed"]
  <2>1. db[e] \in Row
    BY DEF Typed
  <2>2. crashed \in Row /\ crashed.status = "crashed"
    BY <2>1 DEF Row
  <2>3. db'[e] = IF db[e].status = "running" THEN crashed ELSE db[e]
    BY DEF Recover
  <2> HIDE DEF crashed
  <2> QED BY <2>1, <2>2, <2>3
<1>2. db' \in [Executions -> Row]
  <2>1. \E F : db' = [e \in Executions |-> F[e]]
    <3>1. db' = [e \in Executions |-> [f \in Executions |->
                   IF db[f].status = "running" THEN [db[f] EXCEPT !.status = "crashed"] ELSE db[f]][e]]
      BY DEF Recover
    <3> QED BY <3>1
  <2> QED BY <1>1, <2>1
<1> QED BY <1>1, <1>2

-----------------------------------------------------------------------------
(* Every step keeps the types *)

Labels == {"unused", "loading", "created", "throttled", "marked", "registered", "running",
           "saving progress", "saving", "saved", "failing", "failed", "over"}

Outcomes == {"none", "success", "error", "waiting"}

RunsOK ==
    /\ outcome \in [Calls -> Outcomes]
    /\ handled \subseteq Calls /\ cancelled \subseteq Calls /\ cancelWrites \subseteq Calls

WaitsOK ==
    /\ waitingExecutions \in [Executions -> {"none", "timer", "dead"}]
    /\ poll \subseteq Executions /\ enqueued \subseteq Executions
    /\ process \in {"down", "starting", "up", "stopping", "draining"}

StopsOK ==
    /\ DOMAIN stop = Stops
    /\ \A s \in Stops : stop[s].at \in StopAt
    /\ \A s \in Stops : stop[s].at \in {"read", "before run", "during run"} =>
          stop[s] \in [at : StopAt, id : Executions, finished : BOOLEAN]

FieldsOK ==
    /\ db \in [Executions -> Row]
    /\ pc \in [Calls -> Labels]
    /\ RunsOK /\ WaitsOK /\ StopsOK

LEMMA Parts ==
    /\ IInv <=> LimiterOK /\ RegistryOK /\ FieldsOK
    /\ IInv' <=> LimiterOK' /\ RegistryOK' /\ FieldsOK'
BY DEF IInv, Typed, TypeOK, RegistryOK, FieldsOK, RunsOK, WaitsOK, StopsOK, Labels, Outcomes, Row

\* The steps of a call that change entries or slots.
Acts(c) ==
    \/ Throttle(c) \/ Register(c) \/ Start(c) \/ PutToWait(c) \/ Finalize(c)
    \/ SaveCancelled(c) \/ TimeOut(c)

LEMMA CallsTyped ==
    ASSUME IInv, NEW c \in Calls, Moves(c) \/ Acts(c)
    PROVE  FieldsOK'
<1> DEFINE x == Id(c)
<1>1. /\ Typed /\ FieldsOK /\ x \in Executions
      /\ EntryOK(x)
  BY Parts, CallIds DEF IInv
<1>2. db' \in [Executions -> Row]
  <2>1. CASE Create(c) \/ MarkRunning(c) \/ Start(c) \/ WriteProgress(c) \/ SaveOutcome(c) \/ SaveCancelled(c)
    BY <1>1, <2>1, CallsWrite DEF Sets
  <2>2. CASE UNCHANGED db
    BY <1>1, <2>2 DEF FieldsOK
  <2> QED
    BY <2>1, <2>2 DEF Moves, Acts, MarkFails, CheckFails, StartFails, ReadProgress, EndRun, StartWaiting,
       LoadWaiting, ResumeByWebhook, RunEnqueued, Throttle, Register, PutToWait, Finalize, TimeOut
<1>3. pc' \in [Calls -> Labels]
  <2>1. CASE UNCHANGED pc
    BY <1>1, <2>1 DEF FieldsOK
  <2>2. CASE \E label \in Labels : Goto(c, label)
    BY <1>1, <2>2 DEF FieldsOK, Goto
  <2> QED
    BY <2>1, <2>2 DEF Labels, Moves, Create, MarkRunning, MarkFails, CheckFails, StartFails, ReadProgress,
       WriteProgress, EndRun, SaveOutcome, StartWaiting, LoadWaiting, ResumeByWebhook, RunEnqueued,
       Acts, Throttle, Register, Start, PutToWait, Finalize, SaveCancelled, TimeOut
<1>4. RunsOK'
  <2> USE DEF RunsOK, runs, FieldsOK
  <2>1. CASE UNCHANGED runs
    BY <1>1, <2>1
  <2>2. CASE CheckFails(c)
    BY <1>1, <2>2 DEF CheckFails, Outcomes
  <2>3. CASE Start(c)
    BY <1>1, <2>3 DEF Start
  <2>4. CASE PutToWait(c)
    BY <1>1, <2>4 DEF PutToWait, Outcomes
  <2>5. CASE EndRun(c)
    BY <1>1, <2>5 DEF EndRun, Outcomes
  <2>6. CASE Finalize(c)
    BY <1>1, <2>6 DEF Finalize, Outcomes
  <2>7. CASE SaveCancelled(c)
    BY <1>1, <2>7 DEF SaveCancelled
  <2>8. CASE TimeOut(c)
    <3>1. StopExecution(x)
      BY <2>8 DEF TimeOut
    <3>2. /\ \A d \in cancelled' \ cancelled : d \in Calls
          /\ cancelWrites' = cancelWrites \cup (cancelled' \ cancelled)
          /\ UNCHANGED <<outcome, handled>>
      BY <1>1, <3>1, StopDisturbs
    <3> QED BY <1>1, <3>2
  <2> QED
    BY <2>1, <2>2, <2>3, <2>4, <2>5, <2>6, <2>7, <2>8 DEF Moves, Create, MarkRunning, MarkFails,
       StartFails, ReadProgress, WriteProgress, SaveOutcome, StartWaiting, LoadWaiting,
       ResumeByWebhook, RunEnqueued, Acts, Throttle, Register
<1>5. WaitsOK'
  <2> USE DEF WaitsOK, waits, main, FieldsOK
  <2>1. CASE UNCHANGED <<waits, main>>
    BY <1>1, <2>1
  <2>2. CASE StartWaiting(c)
    BY <1>1, <2>2 DEF StartWaiting
  <2>3. CASE RunEnqueued(c)
    BY <1>1, <2>3 DEF RunEnqueued
  <2> QED
    BY <2>1, <2>2, <2>3 DEF Moves, Create, MarkRunning, MarkFails, CheckFails, StartFails, ReadProgress,
       WriteProgress, EndRun, SaveOutcome, LoadWaiting, ResumeByWebhook,
       Acts, Throttle, Register, Start, PutToWait, Finalize, SaveCancelled, TimeOut
<1>6. UNCHANGED stop
  BY DEF Moves, Create, MarkRunning, MarkFails, CheckFails, StartFails, ReadProgress,
     WriteProgress, EndRun, SaveOutcome, StartWaiting, LoadWaiting, ResumeByWebhook, RunEnqueued,
     Acts, Throttle, Register, Start, PutToWait, Finalize, SaveCancelled, TimeOut
<1>7. StopsOK'
  BY <1>1, <1>6 DEF StopsOK, FieldsOK
<1> QED BY <1>2, <1>3, <1>4, <1>5, <1>7 DEF FieldsOK

\* The steps of a call of stop().
StopSteps(s) ==
    \/ \E e \in Executions : ReadToStop(s, e)
    \/ StopQueued(s) \/ StopActive(s) \/ WriteStopped(s)

LEMMA StopsTyped ==
    ASSUME IInv, NEW s \in Stops, StopSteps(s)
    PROVE  FieldsOK'
<1>1. Typed /\ FieldsOK
  BY Parts DEF IInv
<1>2. UNCHANGED pc
  BY DEF StopSteps, ReadToStop, StopQueued, StopActive, WriteStopped
<1>3. CASE \E e \in Executions : ReadToStop(s, e)
  <2>1. PICK e \in Executions : ReadToStop(s, e)
    BY <1>3
  <2> DEFINE read == [at |-> "read", id |-> e, finished |-> db[e].finished]
  <2>2. stop' = [stop EXCEPT ![s] = read] /\ UNCHANGED <<db, runs, waits, main>>
    BY <2>1 DEF ReadToStop
  <2>3. /\ read \in [at : StopAt, id : Executions, finished : BOOLEAN]
        /\ read.at \in StopAt
    BY <1>1 DEF FieldsOK, Row, StopAt
  <2> HIDE DEF read
  <2>4. StopsOK'
    BY <1>1, <2>2, <2>3 DEF FieldsOK, StopsOK
  <2> QED BY <1>1, <1>2, <2>2, <2>4 DEF FieldsOK, RunsOK, runs, WaitsOK, waits, main
<1>4. ASSUME stop[s].at = "read", NEW label \in {"before run", "during run"},
             stop' = [stop EXCEPT ![s].at = label]
      PROVE  StopsOK' /\ stop[s].id \in Executions
  <2> DEFINE next == [stop[s] EXCEPT !.at = label]
  <2>1. stop' = [stop EXCEPT ![s] = next]
    BY <1>4
  <2>2. stop[s] \in [at : StopAt, id : Executions, finished : BOOLEAN]
    BY <1>1, <1>4 DEF FieldsOK, StopsOK
  <2>3. next \in [at : StopAt, id : Executions, finished : BOOLEAN] /\ next.at \in StopAt
    BY <2>2 DEF StopAt
  <2> HIDE DEF next
  <2> QED BY <1>1, <2>1, <2>2, <2>3 DEF FieldsOK, StopsOK
<1>5. CASE StopQueued(s)
  <2>1. StopsOK'
    BY <1>4, <1>5 DEF StopQueued
  <2> QED BY <1>1, <1>2, <1>5, <2>1 DEF StopQueued, FieldsOK, RunsOK, runs, WaitsOK, waits, main
<1>6. CASE StopActive(s)
  <2> DEFINE x == stop[s].id
  <2>1. /\ StopExecution(x) /\ waitingExecutions' = [waitingExecutions EXCEPT ![x] = "none"]
        /\ UNCHANGED <<db, pc, poll, main>>
    BY <1>6 DEF StopActive
  <2>2. StopsOK' /\ x \in Executions /\ EntryOK(x)
    BY <1>4, <1>6 DEF StopActive, IInv
  <2> HIDE DEF x
  <2>3. /\ cancelled \subseteq cancelled'
        /\ \A d \in cancelled' \ cancelled : d \in Calls
        /\ cancelWrites' = cancelWrites \cup (cancelled' \ cancelled)
        /\ UNCHANGED <<outcome, handled>>
    BY <1>1, <2>1, <2>2, StopDisturbs
  <2>4. RunsOK'
    BY <1>1, <2>3 DEF FieldsOK, RunsOK
  <2>5. WaitsOK'
    BY <1>1, <2>1 DEF FieldsOK, WaitsOK, main
  <2> QED BY <1>1, <1>2, <2>1, <2>2, <2>4, <2>5 DEF FieldsOK
<1>7. CASE WriteStopped(s)
  <2>1. db' \in [Executions -> Row]
    BY <1>1, <1>7, StopsWrite DEF Sets
  <2> DEFINE done == [at |-> "done"]
  <2>2. stop' = [stop EXCEPT ![s] = done] /\ UNCHANGED <<runs, waits, main>>
    BY <1>7 DEF WriteStopped
  <2>3. done.at \in StopAt \ {"read", "before run", "during run"}
    BY DEF StopAt
  <2> HIDE DEF done
  <2>4. StopsOK'
    BY <1>1, <2>2, <2>3 DEF FieldsOK, StopsOK
  <2> QED BY <1>1, <1>2, <2>1, <2>2, <2>4 DEF FieldsOK, RunsOK, runs, WaitsOK, waits, main
<1> QED BY <1>3, <1>5, <1>6, <1>7 DEF StopSteps

\* The steps of the process that leave calls and entries alone.
ProcessSteps ==
    PollWaiting \/ ArmTimers \/ Recover \/ FindEnqueued \/ StopTracking

LEMMA ProcessTyped ==
    ASSUME IInv, ProcessSteps \/ Drain \/ Die
    PROVE  FieldsOK'
<1>1. Typed /\ FieldsOK
  BY Parts DEF IInv
<1>2. CASE ProcessSteps
  <2>1. db' \in [Executions -> Row]
    BY <1>1, <1>2, RecoverWrites DEF ProcessSteps, PollWaiting, ArmTimers, FindEnqueued, StopTracking, FieldsOK
  <2>2. UNCHANGED <<pc, runs, stop>>
    BY <1>2 DEF ProcessSteps, PollWaiting, ArmTimers, Recover, FindEnqueued, StopTracking
  <2>3. WaitsOK'
    BY <1>1, <1>2 DEF ProcessSteps, PollWaiting, ArmTimers, Recover, FindEnqueued, StopTracking, FieldsOK,
       WaitsOK, waits, main
  <2> QED BY <1>1, <2>1, <2>2, <2>3 DEF FieldsOK, RunsOK, runs, StopsOK
<1>3. CASE Drain
  <2>1. /\ UNCHANGED <<db, pc, outcome, handled, waits, enqueued, stop>>
        /\ process' = "draining"
    BY <1>3 DEF Drain
  <2>2. /\ cancelled' \subseteq Calls
        /\ cancelled \subseteq cancelled' /\ cancelWrites' = cancelWrites \cup (cancelled' \ cancelled)
    BY <1>3, DrainLinked
  <2> QED BY <1>1, <2>1, <2>2 DEF FieldsOK, RunsOK, WaitsOK, waits, StopsOK
<1>4. CASE Die
  <2>1. /\ process' = "down" /\ outcome' = [c \in Calls |-> "none"]
        /\ handled' = {} /\ cancelled' = {} /\ cancelWrites' = {}
        /\ waitingExecutions' = [e \in Executions |-> "none"]
        /\ poll' = {} /\ enqueued' = {}
        /\ pc' = [c \in Calls |-> IF pc[c] = "unused" THEN "unused" ELSE "over"]
        /\ UNCHANGED db
    BY <1>4 DEF Die
  <2>2. StopsOK'
    <3> DEFINE next(s) == IF stop[s].at = "idle" THEN stop[s] ELSE [at |-> "done"]
    <3>1. stop' = [s \in Stops |-> next(s)]
      BY <1>4 DEF Die
    <3>2. \A s \in Stops : next(s).at \in {"idle", "done"}
      OBVIOUS
    <3> HIDE DEF next
    <3> QED BY <3>1, <3>2 DEF StopsOK, StopAt
  <2> QED BY <1>1, <2>1, <2>2 DEF FieldsOK, RunsOK, WaitsOK, Labels, Outcomes
<1> QED BY <1>2, <1>3, <1>4

-----------------------------------------------------------------------------
(* The invariant *)

LEMMA InitIInv == Init => IInv
<1> SUFFICES ASSUME Init PROVE IInv
  OBVIOUS
<1>1. LimiterOK
  BY RegularAssumption, EmptySeq DEF Init, LimiterOK, QueueOK, Statuses
<1>2. RegistryOK
  BY DEF Init, RegistryOK, Linked, EntryOK, Entry, Unsettled, Past, InRun
<1>3. FieldsOK
  BY DEF Init, FieldsOK, RunsOK, WaitsOK, StopsOK, StopAt, Labels, Outcomes, Row, NoRow
<1> QED BY <1>1, <1>2, <1>3, Parts

\* The disjuncts of Next, grouped as the lemmas above group them.
LEMMA NextCases ==
    ASSUME Next
    PROVE  \/ \E c \in Calls : Moves(c) \/ Acts(c)
           \/ \E s \in Stops : StopSteps(s)
           \/ ProcessSteps \/ Drain \/ Die
BY DEF Next, Proceed, Moves, Acts, StopSteps, ProcessSteps, Exit, ForceExit, Crash

LEMMA NextIInv == IInv /\ [Next]_vars => IInv'
<1> SUFFICES ASSUME IInv, [Next]_vars PROVE IInv'
  OBVIOUS
<1>1. CASE UNCHANGED vars
  <2>1. LimiterOK'
    BY <1>1, Parts DEF LimiterOK, QueueOK, vars, limiter
  <2>2. RegistryOK'
    BY <1>1, Parts, FrameLinked DEF RegistryOK, Entry, vars, limiter, registry, runs
  <2>3. FieldsOK'
    BY <1>1, Parts DEF FieldsOK, RunsOK, WaitsOK, StopsOK, vars, runs, waits, main
  <2> QED BY <2>1, <2>2, <2>3, Parts
<1>2. LimiterOK /\ RegistryOK
  BY Parts
<1>3. ASSUME UNCHANGED <<limiter, registry, pc, handled, cancelled>>
      PROVE  LimiterOK' /\ RegistryOK'
  <2>1. LimiterOK'
    BY <1>2, <1>3 DEF LimiterOK, QueueOK, limiter
  <2> QED BY <1>2, <1>3, <2>1, FrameLinked DEF RegistryOK, Entry, limiter, registry
<1>4. ASSUME NEW c \in Calls, Moves(c) PROVE IInv'
  <2>1. UNCHANGED limiter /\ detached' \subseteq Calls /\ UNCHANGED activeExecutions
    BY <1>2, <1>4 DEF RegistryOK, registry, Moves, Create, MarkRunning, MarkFails, CheckFails, StartFails,
       ReadProgress, WriteProgress, EndRun, SaveOutcome, StartWaiting, LoadWaiting, ResumeByWebhook,
       RunEnqueued
  <2>2. LimiterOK'
    BY <1>2, <2>1 DEF LimiterOK, QueueOK, limiter
  <2>3. RegistryOK'
    BY <1>2, <1>4, <2>1, MovesLinked DEF RegistryOK, Entry
  <2> QED BY <1>4, <2>2, <2>3, CallsTyped, Parts
<1>5. ASSUME NEW c \in Calls, Acts(c) PROVE IInv'
  <2>1. CASE Throttle(c)
    <3>1. UNCHANGED registry
      BY <2>1 DEF Throttle
    <3> QED BY <1>2, <1>5, <2>1, <3>1, ThrottleLinked, CallsTyped, Parts DEF RegistryOK, registry, Entry
  <2>2. CASE Register(c)
    <3>1. LimiterOK'
      BY <1>2, <2>2 DEF Register, LimiterOK, QueueOK, limiter
    <3> QED BY <1>5, <2>2, <3>1, RegisterLinked, CallsTyped, Parts DEF RegistryOK
  <2>3. CASE Start(c)
    <3>1. LimiterOK'
      BY <1>2, <2>3 DEF Start, LimiterOK, QueueOK, limiter
    <3> QED BY <1>5, <2>3, <3>1, StartLinked, CallsTyped, Parts
  <2>4. CASE PutToWait(c)
    <3>1. LimiterOK'
      BY <1>2, <2>4 DEF PutToWait, LimiterOK, QueueOK, limiter
    <3> QED BY <1>5, <2>4, <3>1, PutToWaitLinked, CallsTyped, Parts
  <2>5. CASE Finalize(c)
    BY <1>5, <2>5, FinalizeLinked, CallsTyped, Parts
  <2>6. CASE SaveCancelled(c)
    BY <1>3, <1>5, <2>6, CallsTyped, Parts DEF SaveCancelled
  <2>7. CASE TimeOut(c)
    BY <1>5, <2>7, CallIds, StopLinked, CallsTyped, Parts DEF TimeOut
  <2> QED BY <1>5, <2>1, <2>2, <2>3, <2>4, <2>5, <2>6, <2>7 DEF Acts
<1>6. ASSUME NEW s \in Stops, StopSteps(s) PROVE IInv'
  <2>1. CASE StopQueued(s)
    BY <1>6, <2>1, StopQueuedLinked, StopsTyped, Parts
  <2>2. CASE StopActive(s)
    <3>1. stop[s].id \in Executions
      BY <2>2 DEF IInv, Typed, StopActive
    <3> QED BY <1>6, <2>2, <3>1, StopLinked, StopsTyped, Parts DEF StopActive
  <2>3. CASE (\E e \in Executions : ReadToStop(s, e)) \/ WriteStopped(s)
    <3>1. UNCHANGED <<limiter, registry, pc, handled, cancelled>>
      BY <2>3 DEF ReadToStop, WriteStopped, runs
    <3> QED BY <1>3, <1>6, <3>1, StopsTyped, Parts
  <2> QED BY <1>6, <2>1, <2>2, <2>3 DEF StopSteps
<1>7. ASSUME ProcessSteps PROVE IInv'
  <2>1. UNCHANGED <<limiter, registry, pc, handled, cancelled>>
    BY <1>7 DEF ProcessSteps, PollWaiting, ArmTimers, Recover, FindEnqueued, StopTracking, runs
  <2> QED BY <1>3, <1>7, <2>1, ProcessTyped, Parts
<1>8. ASSUME Drain PROVE IInv'
  BY <1>8, DrainLinked, ProcessTyped, Parts
<1>9. ASSUME Die PROVE IInv'
  BY <1>9, DieLinked, ProcessTyped, Parts
<1> QED BY <1>1, <1>4, <1>5, <1>6, <1>7, <1>8, <1>9, NextCases

LEMMA Inductive == Spec => []IInv
BY InitIInv, NextIInv, PTL DEF Spec

-----------------------------------------------------------------------------
(* Who pursues a row *)

\* c will save an outcome, or gave up for want of its response promise.
Saver(c) == WillSave(c) \/ (pc[c] = "over" /\ Responds(c))

\* c is on its way past the limiter, or failed at the update of its row.
Waiter(c) ==
    \/ pc[c] = "created" \/ c \in detached
    \/ pc[c] = "throttled" /\ request[c] # "idle"

\* A call that waits for capacity is not the one that is disturbed.
LEMMA DisturbedThrottled ==
    ASSUME IInv, NEW e \in Executions, Disturbs(e)
    PROVE  \A d \in Calls : pc[d] = "throttled" => request'[d] = request[d] \/ request'[d] = "granted"
<1>1. CASE Entry(e) = None
  BY <1>1 DEF Disturbs
<1>2. CASE Entry(e) # None
  <2>1. Past(Entry(e).call) /\ Woken(request, request', Calls \ {Entry(e).call})
    BY <1>2 DEF IInv, EntryOK, Disturbs
  <2> QED BY <2>1 DEF Past, Woken
<1> QED BY <1>1, <1>2

\* What the steps of a call c leave to the other calls, and to c.
LEMMA CallsPursue ==
    ASSUME IInv, NEW c \in Calls, Moves(c) \/ Acts(c)
    PROVE  /\ UNCHANGED <<process, stop>>
           /\ \A d \in Calls \ {c} : pc'[d] = pc[d]
           /\ cancelWrites \ {c} \subseteq cancelWrites'
           /\ cancelled' \subseteq cancelled \cup cancelWrites'
           /\ detached \subseteq detached'
           /\ \A d \in Calls \ {c} : pc[d] = "throttled" => request'[d] = request[d] \/ request'[d] = "granted"
           /\ enqueued \ {Id(c)} \subseteq enqueued'
<1> DEFINE x == Id(c)
<1>1. /\ Typed /\ TypeOK /\ LimiterOK /\ x \in Executions /\ EntryOK(x)
  BY CallIds DEF IInv, Typed
<1>2. UNCHANGED <<process, stop>>
  BY DEF Moves, Create, MarkRunning, MarkFails, CheckFails, StartFails, ReadProgress,
     WriteProgress, EndRun, SaveOutcome, StartWaiting, LoadWaiting, ResumeByWebhook, RunEnqueued,
     Acts, Throttle, Register, Start, PutToWait, Finalize, SaveCancelled, TimeOut, main
<1>3. \A d \in Calls \ {c} : pc'[d] = pc[d]
  <2>1. CASE UNCHANGED pc
    BY <2>1
  <2>2. CASE \E label \in Labels : Goto(c, label)
    BY <1>1, <2>2 DEF TypeOK, Goto
  <2> QED
    BY <2>1, <2>2 DEF Labels, Moves, Create, MarkRunning, MarkFails, CheckFails, StartFails, ReadProgress,
       WriteProgress, EndRun, SaveOutcome, StartWaiting, LoadWaiting, ResumeByWebhook, RunEnqueued,
       Acts, Throttle, Register, Start, PutToWait, Finalize, SaveCancelled, TimeOut
<1>4. enqueued \ {x} \subseteq enqueued'
  BY DEF Moves, Create, MarkRunning, MarkFails, CheckFails, StartFails, ReadProgress,
     WriteProgress, EndRun, SaveOutcome, StartWaiting, LoadWaiting, ResumeByWebhook, RunEnqueued,
     Acts, Throttle, Register, Start, PutToWait, Finalize, SaveCancelled, TimeOut, main
<1>5. CASE TimeOut(c)
  <2>1. Disturbs(x) /\ cancelWrites' = cancelWrites \cup (cancelled' \ cancelled)
    BY <1>1, <1>5, StopDisturbs DEF TimeOut
  <2>2. detached \subseteq detached'
    BY <2>1 DEF Disturbs
  <2> QED BY <1>1, <1>2, <1>3, <1>4, <2>1, <2>2, DisturbedThrottled
<1>6. CASE Finalize(c)
  <2>1. UNCHANGED cancelWrites /\ cancelled' \subseteq cancelled
    BY <1>6 DEF Finalize
  <2>2. Disturbs(x) \/ UNCHANGED <<request, detached>>
    BY <1>1, <1>6, FinalizeDisturbs DEF Finalize, limiter, registry
  <2>3. detached \subseteq detached'
    BY <2>2 DEF Disturbs
  <2> QED BY <1>1, <1>2, <1>3, <1>4, <2>1, <2>2, <2>3, DisturbedThrottled
<1>7. CASE Throttle(c)
  <2>1. UNCHANGED <<cancelled, cancelWrites, detached>> /\ Limiter!Throttle(c)
    BY <1>7 DEF Throttle, runs, registry
  <2>2. \A d \in Calls \ {c} : request'[d] = request[d]
    BY <1>1, <2>1, ThrottleEffect
  <2> QED BY <1>2, <1>3, <1>4, <2>1, <2>2
<1>8. CASE Moves(c) \/ Register(c) \/ Start(c) \/ PutToWait(c) \/ SaveCancelled(c)
  <2>1. /\ UNCHANGED <<request, cancelled>>
        /\ detached \subseteq detached' /\ cancelWrites \ {c} \subseteq cancelWrites'
    BY <1>8 DEF Moves, Create, MarkRunning, MarkFails, CheckFails, StartFails, ReadProgress,
       WriteProgress, EndRun, SaveOutcome, StartWaiting, LoadWaiting, ResumeByWebhook, RunEnqueued,
       Register, Start, PutToWait, SaveCancelled, limiter, registry, runs
  <2> QED BY <1>2, <1>3, <1>4, <2>1
<1> QED BY <1>5, <1>6, <1>7, <1>8 DEF Acts

LEMMA StopsPursue ==
    ASSUME IInv, NEW s \in Stops, StopSteps(s)
    PROVE  /\ UNCHANGED <<process, pc, enqueued>>
           /\ cancelWrites \subseteq cancelWrites' /\ cancelled' \subseteq cancelled \cup cancelWrites'
           /\ detached \subseteq detached'
           /\ \A d \in Calls : pc[d] = "throttled" =>
                 \/ request'[d] = request[d] \/ request'[d] = "granted"
                 \/ Stopping(Id(d))'
           /\ \A e \in Executions : Stopping(e) => Stopping(e)' \/ db'[e].status = "canceled"
           /\ \A e \in Executions : db'[e].status \in {db[e].status, "canceled"}
<1>1. Typed /\ LimiterOK /\ StopsOK
  BY Parts DEF IInv, FieldsOK
<1>2. UNCHANGED <<process, pc, enqueued>>
  BY DEF StopSteps, ReadToStop, StopQueued, StopActive, WriteStopped, main
<1>3. CASE \E e \in Executions : ReadToStop(s, e)
  <2>1. PICK e \in Executions : ReadToStop(s, e)
    BY <1>3
  <2> DEFINE read == [at |-> "read", id |-> e, finished |-> db[e].finished]
  <2>2. stop[s].at = "idle" /\ stop' = [stop EXCEPT ![s] = read] /\ UNCHANGED <<limiter, db, registry, runs>>
    BY <2>1 DEF ReadToStop
  <2> HIDE DEF read
  <2>3. \A f \in Executions : Stopping(f) => Stopping(f)'
    BY <1>1, <2>2 DEF Stopping, StopsOK
  <2> QED BY <1>2, <2>2, <2>3 DEF limiter, registry, runs
<1>4. ASSUME stop[s].at = "read", NEW label \in {"before run", "during run"},
             stop' = [stop EXCEPT ![s].at = label]
      PROVE  /\ stop[s].id \in Executions
             /\ \A f \in Executions : f = stop[s].id \/ Stopping(f) => Stopping(f)'
  <2> DEFINE next == [stop[s] EXCEPT !.at = label]
  <2>1. stop' = [stop EXCEPT ![s] = next]
    BY <1>4
  <2>2. stop[s] \in [at : StopAt, id : Executions, finished : BOOLEAN]
    BY <1>1, <1>4 DEF StopsOK
  <2>3. next.at \in {"before run", "during run"} /\ next.id = stop[s].id /\ stop[s].id \in Executions
    BY <2>2 DEF StopAt
  <2> HIDE DEF next
  <2>4. stop'[s] = next /\ \A r \in Stops \ {s} : stop'[r] = stop[r]
    BY <1>1, <2>1 DEF StopsOK
  <2>5. ASSUME NEW f \in Executions, f = stop[s].id PROVE Stopping(f)'
    BY <2>3, <2>4, <2>5 DEF Stopping
  <2>6. ASSUME NEW f \in Executions, Stopping(f) PROVE Stopping(f)'
    <3>1. PICK r \in Stops : stop[r].at \in {"before run", "during run"} /\ stop[r].id = f
      BY <2>6 DEF Stopping
    <3>2. r # s
      BY <1>4, <3>1
    <3> QED BY <2>4, <3>1, <3>2 DEF Stopping
  <2> QED BY <2>3, <2>5, <2>6
<1>5. CASE StopQueued(s)
  <2> DEFINE x == stop[s].id
  <2>1. /\ x \in Executions
        /\ \A f \in Executions : f = x \/ Stopping(f) => Stopping(f)'
    BY <1>4, <1>5 DEF StopQueued
  <2>2. UNCHANGED <<db, registry, runs>> /\ \E i \in Queued(x) : Limiter!RemoveQueued(x, i)
    BY <1>5 DEF StopQueued
  <2> HIDE DEF x
  <2>3. \E c \in Calls : Id(c) = x /\ Woken(request, request', Calls \ {c})
    BY <1>1, <2>1, <2>2, RemoveEffect
  <2>4. \A d \in Calls : request'[d] = request[d] \/ request'[d] = "granted" \/ Stopping(Id(d))'
    BY <2>1, <2>3, CallIds DEF Woken
  <2> QED BY <1>2, <2>1, <2>2, <2>4 DEF registry, runs
<1>6. CASE StopActive(s)
  <2> DEFINE x == stop[s].id
  <2>1. StopExecution(x) /\ UNCHANGED db
    BY <1>6 DEF StopActive
  <2>2. /\ x \in Executions /\ EntryOK(x)
        /\ \A f \in Executions : Stopping(f) => Stopping(f)'
    BY <1>4, <1>6 DEF StopActive, IInv
  <2> HIDE DEF x
  <2>3. Disturbs(x) /\ cancelWrites' = cancelWrites \cup (cancelled' \ cancelled)
    BY <1>1, <2>1, <2>2, StopDisturbs
  <2>4. detached \subseteq detached'
    BY <2>3 DEF Disturbs
  <2> QED BY <1>2, <2>1, <2>2, <2>3, <2>4, DisturbedThrottled
<1>7. CASE WriteStopped(s)
  <2> DEFINE done == [at |-> "done"]
             x == stop[s].id
  <2>1. stop' = [stop EXCEPT ![s] = done] /\ UNCHANGED <<limiter, registry, runs>>
    BY <1>7 DEF WriteStopped
  <2>2. x \in Executions /\ Sets(x, "canceled")
    BY <1>1, <1>7, StopsWrite
  <2> HIDE DEF done
  <2>3. ASSUME NEW f \in Executions, Stopping(f), f # x PROVE Stopping(f)'
    <3>1. PICK r \in Stops : stop[r].at \in {"before run", "during run"} /\ stop[r].id = f
      BY <2>3 DEF Stopping
    <3>2. r # s
      BY <2>3, <3>1
    <3>3. stop'[r] = stop[r]
      BY <1>1, <2>1, <3>2 DEF StopsOK
    <3> QED BY <3>1, <3>3 DEF Stopping
  <2> HIDE DEF x
  <2>4. /\ \A e \in Executions : Stopping(e) => Stopping(e)' \/ db'[e].status = "canceled"
        /\ \A e \in Executions : db'[e].status \in {db[e].status, "canceled"}
    BY <2>2, <2>3 DEF Sets
  <2> QED BY <1>2, <2>1, <2>4 DEF limiter, registry, runs
<1> QED BY <1>3, <1>5, <1>6, <1>7 DEF StopSteps

\* c keeps pursuing its row, unless that row no longer shows running.
LEMMA CallsSave ==
    ASSUME IInv, ~SaveProgress, NEW c \in Calls, Moves(c) \/ Acts(c)
    PROVE  /\ Saver(c) => Saver(c)' \/ db'[Id(c)].status # "running"
           /\ \A e \in Executions : db'[e].status = "running" =>
                 db[e].status = "running" \/ (e = Id(c) /\ Saver(c)')
<1> DEFINE x == Id(c)
<1>1. /\ Typed /\ x \in Executions /\ Linked(c) /\ pc \in [Calls -> Labels]
      /\ outcome \in [Calls -> Outcomes]
  BY CallIds, Parts DEF IInv, FieldsOK, RunsOK
<1>2. cancelWrites \ {c} \subseteq cancelWrites' /\ cancelled' \subseteq cancelled \cup cancelWrites'
  BY CallsPursue
<1> USE DEF Saver, WillSave, Responds
<1>3. CASE Create(c) \/ StartWaiting(c) \/ ResumeByWebhook(c) \/ RunEnqueued(c) \/ LoadWaiting(c)
           \/ Throttle(c) \/ MarkFails(c)
  <2>1. UNCHANGED cancelWrites /\ pc[c] \in {"unused", "loading", "created", "throttled"}
    BY <1>3 DEF Create, StartWaiting, ResumeByWebhook, RunEnqueued, LoadWaiting, Throttle, MarkFails, runs,
       NextCall
  <2>2. \A e \in Executions : db'[e].status = db[e].status \/ db'[e].status = "new"
    BY <1>1, <1>3, CallsWrite DEF Sets, StartWaiting, ResumeByWebhook, RunEnqueued, LoadWaiting, Throttle,
       MarkFails
  <2> QED BY <2>1, <2>2
<1>4. CASE MarkRunning(c)
  <2>1. pc'[c] = "marked"
    BY <1>1, <1>4 DEF MarkRunning, Goto
  <2> QED BY <1>1, <1>4, <2>1, CallsWrite DEF Sets
<1>5. CASE Register(c) \/ CheckFails(c) \/ StartFails(c)
  <2>1. /\ pc'[c] \in {"registered", "failing"} \/ (pc'[c] = "over" /\ Responds(c))
        /\ UNCHANGED <<db, cancelWrites>>
    BY <1>1, <1>5 DEF Register, CheckFails, StartFails, Goto, runs
  <2> QED BY <2>1
<1>6. CASE Start(c)
  <2>1. pc'[c] = "running" /\ c \notin cancelled'
    BY <1>1, <1>6 DEF Start, Goto, Linked, InRun
  <2> QED BY <1>1, <1>6, <2>1, CallsWrite DEF Sets
<1>7. CASE PutToWait(c)
  <2>1. UNCHANGED <<db, pc, cancelled, cancelWrites>>
    BY <1>7 DEF PutToWait
  <2> QED BY <2>1
<1>8. CASE ReadProgress(c) \/ WriteProgress(c)
  BY <1>1, <1>8 DEF ReadProgress, WriteProgress, Linked
<1>9. CASE EndRun(c)
  <2>1. /\ pc[c] = "running" /\ UNCHANGED <<db, cancelWrites>>
        /\ c \in cancelled \/ pc'[c] = "saving"
    BY <1>1, <1>9 DEF EndRun, Goto
  <2> QED BY <2>1
<1>10. CASE SaveOutcome(c)
  <2>1. Sets(x, outcome[c]) /\ outcome[c] # "running"
    BY <1>1, <1>10, CallsWrite DEF Outcomes
  <2> QED BY <1>1, <2>1 DEF Sets
<1>11. CASE Finalize(c)
  <2>1. pc[c] \in {"saved", "failed"} /\ UNCHANGED <<db, cancelWrites>>
    BY <1>11 DEF Finalize
  <2> QED BY <2>1
<1>12. CASE SaveCancelled(c)
  <2>1. Sets(x, "canceled")
    BY <1>1, <1>12, CallsWrite
  <2> QED BY <1>1, <2>1 DEF Sets
<1>13. CASE TimeOut(c)
  <2>1. UNCHANGED <<db, pc>>
    BY <1>13 DEF TimeOut
  <2>2. c \in cancelWrites => c \in cancelWrites'
    <3>1. cancelWrites' = cancelWrites \cup (cancelled' \ cancelled)
      BY <1>1, <1>13, StopDisturbs DEF TimeOut, IInv
    <3> QED BY <3>1
  <2> QED BY <1>2, <2>1, <2>2
<1> QED BY <1>3, <1>4, <1>5, <1>6, <1>7, <1>8, <1>9, <1>10, <1>11, <1>12, <1>13 DEF Moves, Acts

\* c gets past the limiter, or its row is no longer new.
LEMMA CallsAdmit ==
    ASSUME IInv, NEW c \in Calls, Moves(c) \/ Acts(c)
    PROVE  /\ Waiter(c) => Waiter(c)' \/ db'[Id(c)].status # "new"
           /\ \A e \in Executions : db'[e].status = "new" =>
                 db[e].status = "new" \/ (e = Id(c) /\ Waiter(c)')
           /\ Id(c) \in enqueued => Id(c) \in enqueued' \/ Waiter(c)'
<1> DEFINE x == Id(c)
<1>1. /\ Typed /\ x \in Executions /\ pc \in [Calls -> Labels] /\ LimiterOK
      /\ outcome \in [Calls -> Outcomes]
  BY CallIds, Parts DEF IInv, FieldsOK, RunsOK
<1>2. detached \subseteq detached'
  BY CallsPursue
<1> USE DEF Waiter
<1>3. CASE Create(c)
  <2>1. pc'[c] = "created" /\ Sets(x, "new")
    BY <1>1, <1>3, CallsWrite DEF Create, Goto
  <2> QED BY <1>1, <2>1 DEF Sets
<1>4. CASE StartWaiting(c) \/ ResumeByWebhook(c) \/ RunEnqueued(c) \/ LoadWaiting(c)
  <2>1. /\ pc[c] \in {"unused", "loading"} /\ UNCHANGED db
        /\ UNCHANGED enqueued \/ pc'[c] = "created"
    BY <1>1, <1>4 DEF StartWaiting, ResumeByWebhook, RunEnqueued, LoadWaiting, Goto, NextCall, main
  <2> QED BY <1>2, <2>1
<1>5. CASE Throttle(c)
  <2>1. pc'[c] = "throttled" /\ Limiter!Throttle(c) /\ UNCHANGED <<db, enqueued>>
    BY <1>1, <1>5 DEF Throttle, Goto, main
  <2>2. request'[c] # "idle"
    BY <1>1, <2>1, ThrottleEffect
  <2> QED BY <2>1, <2>2
<1>6. CASE MarkRunning(c)
  <2>1. Sets(x, "running") /\ UNCHANGED enqueued
    BY <1>1, <1>6, CallsWrite DEF MarkRunning, main
  <2> QED BY <1>1, <2>1 DEF Sets
<1>7. CASE MarkFails(c)
  <2>1. c \in detached' /\ UNCHANGED <<db, enqueued>>
    BY <1>7 DEF MarkFails, main
  <2> QED BY <2>1
<1>8. CASE WriteProgress(c) \/ SaveOutcome(c) \/ Start(c) \/ SaveCancelled(c)
  <2>1. Sets(x, "running") \/ Sets(x, outcome[c]) \/ Sets(x, "canceled")
    BY <1>1, <1>8, CallsWrite
  <2>2. db'[x].status # "new" /\ \A f \in Executions \ {x} : db'[f].status = db[f].status
    BY <1>1, <2>1 DEF Sets, Outcomes
  <2>3. UNCHANGED enqueued
    BY <1>8 DEF WriteProgress, SaveOutcome, Start, SaveCancelled, main
  <2> QED BY <2>2, <2>3
<1>9. CASE Register(c) \/ CheckFails(c) \/ StartFails(c) \/ PutToWait(c) \/ ReadProgress(c)
           \/ EndRun(c) \/ Finalize(c) \/ TimeOut(c)
  <2>1. UNCHANGED <<db, enqueued>> /\ pc[c] \notin {"created", "throttled"}
    BY <1>9 DEF Register, CheckFails, StartFails, PutToWait, ReadProgress, EndRun, Finalize, TimeOut, main
  <2> QED BY <1>2, <2>1
<1> QED BY <1>3, <1>4, <1>5, <1>6, <1>7, <1>8, <1>9 DEF Moves, Acts

-----------------------------------------------------------------------------
(* Theorems *)

\* The rows, calls, entries, timers and sets of the process keep their types,
\* and the entry kept under an execution id is for a call of that execution.
THEOREM TypeCorrect == Spec => []TypeOK
<1>1. IInv => TypeOK
  BY DEF IInv, Typed
<1> QED BY <1>1, Inductive, PTL

\* A call that is over holds no capacity unless its entry was lost: every
\* path to the end of run(), whatever stops and timeouts did, releases the slot.
THEOREM SlotsReturned == Spec => []LostSlotWasDetached
<1>1. IInv => LostSlotWasDetached
  <2> SUFFICES ASSUME IInv, NEW c \in Calls, pc[c] = "over", Unsettled(c)
               PROVE  c \in detached
    BY DEF LostSlotWasDetached
  <2>1. Linked(c) /\ Past(c) /\ Id(c) \in Executions
    BY CallIds DEF IInv, Past
  <2>2. EntryOK(Id(c))
    BY <2>1 DEF IInv
  <2> QED BY <2>1, <2>2 DEF Linked, EntryOK
<1> QED BY <1>1, Inductive, PTL

\* What shutdown() waits for is going to happen: an entry that shows running
\* belongs to a call that will settle it.
THEOREM EntriesLive == Spec => []RunningEntryIsLive
<1>1. IInv => RunningEntryIsLive
  <2> SUFFICES ASSUME IInv, NEW e \in Executions, Entry(e) # None, Entry(e).status = "running"
               PROVE  \E c \in Calls :
                         /\ Id(c) = e
                         /\ \/ pc[c] \in {"registered", "failing", "failed"}
                            \/ InRun(c) /\ c \in handled
    BY DEF RunningEntryIsLive, InRun
  <2>1. Entry(e).call \in Calls /\ Id(Entry(e).call) = e
    BY EntryTyped DEF IInv, Typed
  <2>2. EntryOK(e) /\ pc[Entry(e).call] \in Labels
    BY <2>1, Parts DEF IInv, FieldsOK
  <2>3. pc[Entry(e).call] \in {"registered", "failing", "failed"} \/ (InRun(Entry(e).call) /\ Entry(e).call \in handled)
    BY <2>2 DEF EntryOK, Labels, Past, InRun
  <2> QED BY <2>1, <2>3
<1> QED BY <1>1, Inductive, PTL

\* No row is left showing as running: whatever stops, timeouts, repeated
\* resumptions and shutdowns did, somebody is still going to write its outcome.
\* Saving progress must be off: its write of a stale row is what breaks this.
THEOREM RunningRowsPursued ==
    ASSUME ~SaveProgress PROVE Spec => []RunningRowIsPursued
<1> DEFINE Pursued(e) == Stopping(e) \/ \E c \in Calls : Id(c) = e /\ Saver(c)
<1>1. /\ RunningRowIsPursued <=>
            (process # "down" => \A e \in Executions : db[e].status = "running" => Pursued(e))
      /\ RunningRowIsPursued' <=>
            (process' # "down" => \A e \in Executions : db'[e].status = "running" => Pursued(e)')
  BY DEF RunningRowIsPursued, Saver
<1>2. Init => RunningRowIsPursued
  BY DEF Init, RunningRowIsPursued, NoRow
<1>3. IInv /\ RunningRowIsPursued /\ [Next]_vars => RunningRowIsPursued'
  <2> SUFFICES ASSUME IInv, RunningRowIsPursued, [Next]_vars
               PROVE  RunningRowIsPursued'
    OBVIOUS
  <2>1. CASE UNCHANGED vars
    BY <2>1 DEF vars, runs, main, RunningRowIsPursued, Stopping, WillSave
  <2>2. ASSUME NEW c \in Calls, Moves(c) \/ Acts(c) PROVE RunningRowIsPursued'
    <3>1. \A d \in Calls \ {c} : Saver(d) => Saver(d)'
      BY <2>2, CallsPursue DEF Saver, WillSave, Responds
    <3>2. \A e \in Executions : Stopping(e) => Stopping(e)'
      BY <2>2, CallsPursue DEF Stopping
    <3>3. /\ Saver(c) => Saver(c)' \/ db'[Id(c)].status # "running"
          /\ \A e \in Executions : db'[e].status = "running" =>
                db[e].status = "running" \/ (e = Id(c) /\ Saver(c)')
      BY <2>2, CallsSave
    <3>4. UNCHANGED process
      BY <2>2, CallsPursue
    <3> QED BY <1>1, <3>1, <3>2, <3>3, <3>4
  <2>3. ASSUME NEW s \in Stops, StopSteps(s) PROVE RunningRowIsPursued'
    <3>1. \A d \in Calls : Saver(d) => Saver(d)'
      BY <2>3, StopsPursue DEF Saver, WillSave, Responds
    <3>2. /\ UNCHANGED process
          /\ \A e \in Executions : Stopping(e) => Stopping(e)' \/ db'[e].status = "canceled"
          /\ \A e \in Executions : db'[e].status \in {db[e].status, "canceled"}
      BY <2>3, StopsPursue
    <3> QED BY <1>1, <3>1, <3>2
  <2>4. CASE ProcessSteps
    <3>1. CASE Recover
      <4>1. \A e \in Executions : db'[e].status # "running"
        BY <3>1, RecoverWrites DEF IInv
      <4> QED BY <1>1, <4>1
    <3>2. CASE PollWaiting \/ ArmTimers \/ FindEnqueued \/ StopTracking
      <4>1. UNCHANGED <<db, pc, runs, stop>> /\ (process' = process \/ process # "down")
        BY <3>2 DEF PollWaiting, ArmTimers, FindEnqueued, StopTracking, main
      <4> QED BY <4>1 DEF runs, RunningRowIsPursued, Stopping, WillSave
    <3> QED BY <2>4, <3>1, <3>2 DEF ProcessSteps
  <2>5. CASE Drain
    <3>1. /\ cancelled \subseteq cancelled' /\ cancelWrites' = cancelWrites \cup (cancelled' \ cancelled)
          /\ UNCHANGED <<db, pc, stop>> /\ process # "down"
      BY <2>5, DrainLinked DEF Drain
    <3>2. \A d \in Calls : Saver(d) => Saver(d)'
      BY <3>1 DEF Saver, WillSave, Responds
    <3>3. \A e \in Executions : Stopping(e) => Stopping(e)'
      BY <3>1 DEF Stopping
    <3> QED BY <1>1, <3>1, <3>2, <3>3
  <2>6. CASE Die
    BY <1>1, <2>6 DEF Die
  <2> QED BY <2>1, <2>2, <2>3, <2>4, <2>5, <2>6, NextCases
<1> QED BY <1>2, <1>3, Inductive, PTL DEF Spec

\* An accepted execution is not forgotten, also not by a restart: a row that
\* is still new has a call on its way past the limiter, or is about to be run
\* or cancelled, unless the update of the row failed.
THEOREM NewRowsPursued == Spec => []NewRowIsPursued
<1> DEFINE Pursued(e) == \/ e \in enqueued \/ Stopping(e)
                         \/ \E c \in Calls : Id(c) = e /\ Waiter(c)
<1>1. /\ NewRowIsPursued <=>
            (process \in {"up", "stopping", "draining"} =>
                \A e \in Executions : db[e].status = "new" => Pursued(e))
      /\ NewRowIsPursued' <=>
            (process' \in {"up", "stopping", "draining"} =>
                \A e \in Executions : db'[e].status = "new" => Pursued(e)')
  BY DEF NewRowIsPursued, Waiter
<1>2. Init => NewRowIsPursued
  BY DEF Init, NewRowIsPursued
<1>3. IInv /\ NewRowIsPursued /\ [Next]_vars => NewRowIsPursued'
  <2> SUFFICES ASSUME IInv, NewRowIsPursued, [Next]_vars
               PROVE  NewRowIsPursued'
    OBVIOUS
  <2>1. CASE UNCHANGED vars
    BY <2>1 DEF vars, limiter, registry, main, NewRowIsPursued, Stopping
  <2>2. ASSUME NEW c \in Calls, Moves(c) \/ Acts(c) PROVE NewRowIsPursued'
    <3>1. \A d \in Calls \ {c} : Waiter(d) => Waiter(d)'
      BY <2>2, CallsPursue DEF Waiter
    <3>2. \A e \in Executions : Stopping(e) => Stopping(e)'
      BY <2>2, CallsPursue DEF Stopping
    <3>3. /\ Waiter(c) => Waiter(c)' \/ db'[Id(c)].status # "new"
          /\ \A e \in Executions : db'[e].status = "new" =>
                db[e].status = "new" \/ (e = Id(c) /\ Waiter(c)')
          /\ Id(c) \in enqueued => Id(c) \in enqueued' \/ Waiter(c)'
      BY <2>2, CallsAdmit
    <3>4. UNCHANGED process /\ enqueued \ {Id(c)} \subseteq enqueued'
      BY <2>2, CallsPursue
    <3> QED BY <1>1, <3>1, <3>2, <3>3, <3>4
  <2>3. ASSUME NEW s \in Stops, StopSteps(s) PROVE NewRowIsPursued'
    <3>1. \A d \in Calls : Waiter(d) => Waiter(d)' \/ Stopping(Id(d))'
      BY <2>3, StopsPursue DEF Waiter
    <3>2. /\ UNCHANGED <<process, enqueued>>
          /\ \A e \in Executions : Stopping(e) => Stopping(e)' \/ db'[e].status = "canceled"
          /\ \A e \in Executions : db'[e].status \in {db[e].status, "canceled"}
      BY <2>3, StopsPursue
    <3> QED BY <1>1, <3>1, <3>2
  <2>4. CASE ProcessSteps
    <3>1. CASE FindEnqueued
      <4>1. \A e \in Executions : db'[e].status = "new" => e \in enqueued'
        BY <3>1 DEF FindEnqueued
      <4> QED BY <1>1, <4>1
    <3>2. CASE Recover
      BY <1>1, <3>2 DEF Recover
    <3>3. CASE PollWaiting \/ ArmTimers \/ StopTracking
      <4>1. /\ UNCHANGED <<db, pc, limiter, registry, enqueued, stop>>
            /\ process' = process \/ process = "up"
        BY <3>3 DEF PollWaiting, ArmTimers, StopTracking, main
      <4>2. \A e \in Executions : Pursued(e) => Pursued(e)'
        BY <4>1 DEF limiter, registry, Stopping, Waiter
      <4> QED BY <1>1, <4>1, <4>2
    <3> QED BY <2>4, <3>1, <3>2, <3>3 DEF ProcessSteps
  <2>5. CASE Drain
    <3>1. /\ UNCHANGED <<db, pc, enqueued, stop>> /\ process = "stopping"
          /\ detached \subseteq detached'
          /\ \A c \in Calls : request'[c] = request[c] \/ Past(c)
      BY <2>5, DrainLinked DEF Drain
    <3>2. \A d \in Calls : Waiter(d) => Waiter(d)'
      BY <3>1 DEF Waiter, Past
    <3>3. \A e \in Executions : Stopping(e) => Stopping(e)'
      BY <3>1 DEF Stopping
    <3> QED BY <1>1, <3>1, <3>2, <3>3
  <2>6. CASE Die
    BY <1>1, <2>6 DEF Die
  <2> QED BY <2>1, <2>2, <2>3, <2>4, <2>5, <2>6, NextCases
<1> QED BY <1>2, <1>3, Inductive, PTL DEF Spec
=============================================================================
