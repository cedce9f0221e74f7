----------------------------- MODULE TaskBroker -----------------------------
(***************************************************************************)
(* The task broker of a main process, its local requester and the task     *)
(* runners connected to it: offers and requests for tasks meet in the      *)
(* broker, and a task is handed over in the three-way exchange offer       *)
(* accept, task accept, settings, each part of which may come too late.    *)
(*                                                                         *)
(* Every connection is a pair of FIFO channels (a WebSocket).  The local   *)
(* requester is called synchronously, so a request, the answer to "task    *)
(* ready" and a result take no step of their own.                          *)
(***************************************************************************)
EXTENDS Integers, Sequences, SequencesExt, FiniteSets

CONSTANTS Runners,         \* bound: runner ids, used again when forgotten
          Launchers,       \* those that only start a runner on demand
          Requests,        \* request ids: the calls of startTask()
          Offers,          \* bound: offer ids of one runner, used again when forgotten
          Attempts,        \* bound: task ids of one request, likewise
          None,            \* stands for undefined
          MaxConcurrency,  \* of each runner
          MaxDisconnects   \* bound: connections that are lost

\* An offer in the list of the broker; one whose time is over is not valid.
TaskOffer == [runner : Runners, offerId : Offers, valid : BOOLEAN]

\* What a runner does with a task.
Statuses == {"waitingForSettings", "running", "aborting:cancelled", "aborting:timeout"}

ASSUME BrokerAssumption ==
    /\ IsFiniteSet(Offers) /\ IsFiniteSet(Requests) /\ IsFiniteSet(Attempts)
    /\ None \notin Runners \cup Statuses
    /\ Launchers \subseteq Runners
    /\ MaxConcurrency \in Nat \ {0}
    /\ MaxDisconnects \in Nat

\* A task id, and the request for which the broker made it up.
Tasks == Requests \X Attempts
RequestOf(t) == t[1]

VARIABLES
    mode,                 \* taskRunnersConfig.mode: internal or external
    knownRunners, pendingTaskOffers, pendingTaskRequests, acceptInProgress,
    accepting,            \* per task id: the runner of an acceptOffer() that awaits its accept
    tasks,                \* per task id: the runner of the task, once accepted
    request,              \* requester, per request: idle, waiting, ready or answered
    connection,           \* per runner: none, open, or broken and not yet noticed
    toRunner, toBroker,   \* the messages under way on each connection
    canSendOffers, openOffers,
    runningTasks,         \* runner: the status of each task id, or None
    executed,             \* history: how often a runner began to execute each request
    disconnects           \* counter for the bound

matching == <<pendingTaskOffers, pendingTaskRequests, acceptInProgress, accepting>>
runners == <<canSendOffers, openOffers, runningTasks, executed>>
vars == <<mode, knownRunners, matching, tasks, request, connection, toRunner, toBroker,
          runners, disconnects>>

Init ==
    /\ mode \in {"internal", "external"}
    /\ knownRunners = {}
    /\ pendingTaskOffers = <<>>
    /\ pendingTaskRequests = <<>>
    /\ acceptInProgress = {}
    /\ accepting = [t \in Tasks |-> None]
    /\ tasks = [t \in Tasks |-> None]
    /\ request = [q \in Requests |-> "idle"]
    /\ connection = [r \in Runners |-> "none"]
    /\ toRunner = [r \in Runners |-> <<>>]
    /\ toBroker = [r \in Runners |-> <<>>]
    /\ canSendOffers = {}
    /\ openOffers = [r \in Runners |-> {}]
    /\ runningTasks = [r \in Runners |-> [t \in Tasks |-> None]]
    /\ executed = [q \in Requests |-> 0]
    /\ disconnects = 0

-----------------------------------------------------------------------------
(* Messages                                                                *)

\* The messages of the broker to a runner, and of a runner to the broker.
BrokerMessage ==
    [type : {"runnerregistered"}]
    \cup [type : {"taskofferaccept"}, offerId : Offers, taskId : Tasks]
    \cup [type : {"tasksettings", "taskcancel"}, taskId : Tasks]
RunnerMessage ==
    [type : {"taskoffer"}, offerId : Offers]
    \cup [type : {"taskaccepted", "taskrejected", "taskdeferred", "taskended"}, taskId : Tasks]

OfferMessage(o) == [type |-> "taskoffer", offerId |-> o]
OfferAccept(o, t) == [type |-> "taskofferaccept", offerId |-> o, taskId |-> t]
Message(type, t) == [type |-> type, taskId |-> t]

\* sendMessage() to a runner whose socket is gone does nothing.
SendTo(r, messages) ==
    IF connection[r] = "open" THEN [toRunner EXCEPT ![r] = @ \o messages] ELSE toRunner

\* The next message of runner r, for the handlers of the broker ...
Received(r, type) ==
    /\ r \in knownRunners
    /\ toBroker[r] # <<>> /\ Head(toBroker[r]).type = type

\* ... and for those of the runner.
RunnerReceived(r, type) ==
    /\ connection[r] = "open"
    /\ toRunner[r] # <<>> /\ Head(toRunner[r]).type = type

PopFrom(channel, r) == [channel EXCEPT ![r] = Tail(@)]

\* The positions I in ascending order, and the elements of a sequence there.
\* (SelectSeq is recursive, which the provers do not see through.)
InOrder(I) == CHOOSE e \in [1..Cardinality(I) -> I] :
                  \A j, k \in 1..Cardinality(I) : j < k => e[j] < e[k]
At(s, I) == [k \in 1..Cardinality(I) |-> s[InOrder(I)[k]]]

-----------------------------------------------------------------------------
(* The broker                                                              *)

\* Mutant: a request in an exchange is matched again.
FreeOrNot(requests) == requests

\* The requests that settleTasks() may match, in the order of its loop: a
\* request that was deferred stands twice in the list, and is taken once.
Free(requests) ==
    At(requests, {i \in DOMAIN requests :
                     /\ requests[i] \notin acceptInProgress
                     /\ \A j \in 1..(i - 1) : requests[j] # requests[i]})

\* A task id that neither the broker nor a runner nor a message knows.
Unused(t) ==
    /\ accepting[t] = None /\ tasks[t] = None
    /\ \A r \in Runners :
          /\ runningTasks[r][t] = None
          /\ \A m \in Range(toRunner[r]) \cup Range(toBroker[r]) :
                m.type \notin {"taskoffer", "runnerregistered"} => m.taskId # t

NewTask(q) == CHOOSE t \in Tasks : RequestOf(t) = q /\ Unused(t)

\* settleTasks() on these offers and requests: drop the offers that expired,
\* match the others with the free requests, and accept each matched offer.
SettleTasks(offers, requests) ==
    LET valid == At(offers, {k \in DOMAIN offers : offers[k].valid})
        free == Free(requests)
        n == IF Len(free) < Len(valid) THEN Len(free) ELSE Len(valid)
        matched == {free[k] : k \in 1..n}
        RunnerFor(q) == valid[CHOOSE k \in 1..n : free[k] = q].runner
        AcceptsTo(r) == At([k \in 1..n |-> OfferAccept(valid[k].offerId, NewTask(free[k]))],
                           {k \in 1..n : valid[k].runner = r})
    IN  /\ \A q \in matched : \E t \in Tasks : RequestOf(t) = q /\ Unused(t)
        /\ pendingTaskOffers' = SubSeq(valid, n + 1, Len(valid))
        /\ pendingTaskRequests' = requests
        /\ acceptInProgress' = acceptInProgress \cup matched
        /\ accepting' = [t \in Tasks |->
               IF RequestOf(t) \in matched /\ t = NewTask(RequestOf(t))
               THEN RunnerFor(RequestOf(t)) ELSE accepting[t]]
        /\ toRunner' = [r \in Runners |-> IF connection[r] = "open"
                            THEN toRunner[r] \o AcceptsTo(r) ELSE toRunner[r]]

\* startTask() of the requester, up to its await: taskRequested().
RequestTask(q) ==
    /\ request[q] = "idle"
    /\ request' = [request EXCEPT ![q] = "waiting"]
    /\ SettleTasks(pendingTaskOffers, Append(pendingTaskRequests, q))
    /\ UNCHANGED <<mode, knownRunners, tasks, connection, toBroker, runners, disconnects>>

\* taskOffered()
TaskOffered(r) ==
    /\ Received(r, "taskoffer")
    /\ toBroker' = PopFrom(toBroker, r)
    /\ SettleTasks(Append(pendingTaskOffers,
                          [runner |-> r, offerId |-> Head(toBroker[r]).offerId, valid |-> TRUE]),
                   pendingTaskRequests)
    /\ UNCHANGED <<mode, knownRunners, tasks, request, connection, runners, disconnects>>

\* The 5 seconds of an offer in the list are over.  Those of a launcher have no end.
OfferExpires(k) ==
    /\ k \in DOMAIN pendingTaskOffers
    /\ pendingTaskOffers[k].valid /\ pendingTaskOffers[k].runner \notin Launchers
    /\ pendingTaskOffers' = [pendingTaskOffers EXCEPT ![k].valid = FALSE]
    /\ UNCHANGED <<mode, knownRunners, pendingTaskRequests, acceptInProgress, accepting, tasks,
                   request, connection, toRunner, toBroker, runners, disconnects>>

\* handleRunnerAccept(), the rest of acceptOffer(), taskReady() of the requester,
\* and sendTaskSettings(): all of it before the next message is handled.
HandleRunnerAccept(r) ==
    LET t == Head(toBroker[r]).taskId
        q == RequestOf(t)
    IN  /\ Received(r, "taskaccepted")
        /\ toBroker' = PopFrom(toBroker, r)
        /\ \/ /\ accepting[t] = None
              /\ UNCHANGED <<matching, tasks, request, toRunner>>
           \/ /\ accepting[t] # None
              /\ accepting' = [accepting EXCEPT ![t] = None]
              /\ tasks' = [tasks EXCEPT ![t] = accepting[t]]
              /\ pendingTaskRequests' = RemoveFirst(pendingTaskRequests, q)
              /\ request' = [request EXCEPT ![q] = "ready"]
              /\ toRunner' = SendTo(accepting[t], <<Message("tasksettings", t)>>)
              /\ UNCHANGED <<pendingTaskOffers, acceptInProgress>>
        /\ UNCHANGED <<mode, knownRunners, connection, runners, disconnects>>

\* Mutant: acceptInProgress is not reset.
GiveUpAccept(t) ==
    /\ accepting' = [accepting EXCEPT ![t] = None]
    /\ UNCHANGED acceptInProgress

\* acceptOffer() gave up on task t; the request stays in the list.
GiveUp(t) ==
    /\ accepting' = [accepting EXCEPT ![t] = None]
    /\ acceptInProgress' = acceptInProgress \ {RequestOf(t)}

HandleRunnerReject(r) ==
    LET t == Head(toBroker[r]).taskId
    IN  /\ Received(r, "taskrejected")
        /\ toBroker' = PopFrom(toBroker, r)
        /\ \/ accepting[t] = None /\ UNCHANGED <<accepting, acceptInProgress>>
           \/ accepting[t] # None /\ GiveUp(t)
        /\ UNCHANGED <<mode, knownRunners, pendingTaskOffers, pendingTaskRequests, tasks, request,
                       connection, toRunner, runners, disconnects>>

\* Mutant: the id that goes back to the list is the wrong one.
DeferByTaskId(r) ==
    LET t == Head(toBroker[r]).taskId
    IN  /\ Received(r, "taskdeferred") /\ accepting[t] # None
        /\ toBroker' = PopFrom(toBroker, r)
        /\ GiveUp(t)
        /\ pendingTaskRequests' = Append(pendingTaskRequests, t)
        /\ UNCHANGED <<mode, knownRunners, pendingTaskOffers, tasks, request, connection, toRunner,
                       runners, disconnects>>

\* handleRunnerDeferred(): the request is put into the list once more.
HandleRunnerDeferred(r) ==
    LET t == Head(toBroker[r]).taskId
    IN  /\ Received(r, "taskdeferred")
        /\ toBroker' = PopFrom(toBroker, r)
        /\ \/ /\ accepting[t] = None
              /\ UNCHANGED <<accepting, acceptInProgress, pendingTaskRequests>>
           \/ /\ accepting[t] # None
              /\ GiveUp(t)
              /\ pendingTaskRequests' = Append(pendingTaskRequests, RequestOf(t))
        /\ UNCHANGED <<mode, knownRunners, pendingTaskOffers, tasks, request, connection, toRunner,
                       runners, disconnects>>

\* Mutant: the request is free again, and a late accept still counts.
AcceptIsLate(t) ==
    /\ accepting[t] # None /\ RequestOf(t) \in acceptInProgress
    /\ acceptInProgress' = acceptInProgress \ {RequestOf(t)}
    /\ UNCHANGED <<mode, knownRunners, pendingTaskOffers, pendingTaskRequests, accepting, tasks,
                   request, connection, toRunner, toBroker, runners, disconnects>>

\* The 2 seconds for the runner's accept are over.
AcceptTimesOut(t) ==
    /\ accepting[t] # None
    /\ GiveUp(t)
    /\ UNCHANGED <<mode, knownRunners, pendingTaskOffers, pendingTaskRequests, tasks, request,
                   connection, toRunner, toBroker, runners, disconnects>>

\* taskDoneHandler(), taskErrorHandler(): the requester gets the result or the
\* error, which are one message here.
Answer(t) ==
    /\ tasks' = [tasks EXCEPT ![t] = None]
    /\ request' = [request EXCEPT ![RequestOf(t)] = "answered"]

TaskEnded(r) ==
    LET t == Head(toBroker[r]).taskId
    IN  /\ Received(r, "taskended")
        /\ toBroker' = PopFrom(toBroker, r)
        /\ \/ tasks[t] = None /\ UNCHANGED <<tasks, request>>
           \/ tasks[t] # None /\ Answer(t)
        /\ UNCHANGED <<mode, knownRunners, matching, connection, toRunner, runners, disconnects>>

\* The runner is gone, with its memory ...
Forget(r) ==
    /\ canSendOffers' = canSendOffers \ {r}
    /\ openOffers' = [openOffers EXCEPT ![r] = {}]
    /\ runningTasks' = [runningTasks EXCEPT ![r] = [t \in Tasks |-> None]]
    /\ UNCHANGED executed

\* ... and of what it sent maybe only the first n messages arrive.
Lose(r, n) ==
    /\ connection' = [connection EXCEPT ![r] = "broken"]
    /\ toRunner' = [toRunner EXCEPT ![r] = <<>>]
    /\ toBroker' = [toBroker EXCEPT ![r] = SubSeq(@, 1, n)]
    /\ Forget(r)

\* Mutant: a task that is cancelled is not failed.
TimeoutOnlyCancels(t) ==
    /\ tasks[t] # None /\ mode = "external"
    /\ tasks' = [tasks EXCEPT ![t] = None]
    /\ toRunner' = SendTo(tasks[t], <<Message("taskcancel", t)>>)
    /\ UNCHANGED <<mode, knownRunners, matching, request, connection, toBroker, runners,
                   disconnects>>

\* handleTaskTimeout(): the internal runner process, whichever it is by now, is
\* killed; an external runner is asked to cancel.
HandleTaskTimeout(t) ==
    /\ tasks[t] # None
    /\ Answer(t)
    /\ \/ /\ mode = "internal"
          /\ \/ /\ \A r \in Runners : connection[r] # "open"
                /\ UNCHANGED <<connection, toRunner, toBroker, runners>>
             \/ \E r \in Runners : \E n \in 0..Len(toBroker[r]) :
                   connection[r] = "open" /\ Lose(r, n)
       \/ /\ mode = "external"
          /\ toRunner' = SendTo(tasks[t], <<Message("taskcancel", t)>>)
          /\ UNCHANGED <<connection, toBroker, runners>>
    /\ UNCHANGED <<mode, knownRunners, matching, disconnects>>

\* The first message of a runner: registerRunner().  In internal mode there is
\* one process at a time, and a new one has a new id.
RegisterRunner(r) ==
    /\ connection[r] = "none"
    /\ \A t \in Tasks : accepting[t] # r
    /\ mode = "internal" => r \notin Launchers /\ \A s \in Runners : connection[s] # "open"
    /\ connection' = [connection EXCEPT ![r] = "open"]
    /\ knownRunners' = knownRunners \cup {r}
    /\ toRunner' = [toRunner EXCEPT ![r] = <<[type |-> "runnerregistered"]>>]
    /\ UNCHANGED <<mode, matching, tasks, request, toBroker, runners, disconnects>>

\* Mutant: the tasks of a runner that is gone are left to their timeout.
FailNoTask(r) == UNCHANGED <<tasks, request>>

\* failTask() for every task of r.
FailTasks(r) ==
    /\ tasks' = [t \in Tasks |-> IF tasks[t] = r THEN None ELSE tasks[t]]
    /\ request' = [q \in Requests |->
           IF \E t \in Tasks : RequestOf(t) = q /\ tasks[t] = r THEN "answered" ELSE request[q]]

\* removeConnection(), after a close or (external, hence without a kill) a failed
\* heartbeat check: deregisterRunner() removes the runner's offers and fails its
\* tasks; a task it has yet to accept is left to its timeout.
DeregisterRunner(r) ==
    /\ r \in knownRunners
    /\ \/ connection[r] = "broken" /\ toBroker[r] = <<>> /\ UNCHANGED disconnects
       \/ /\ connection[r] = "open" /\ mode = "external"
          /\ disconnects < MaxDisconnects
          /\ disconnects' = disconnects + 1
    /\ knownRunners' = knownRunners \ {r}
    /\ pendingTaskOffers' = At(pendingTaskOffers,
                               {k \in DOMAIN pendingTaskOffers : pendingTaskOffers[k].runner # r})
    /\ FailTasks(r)
    /\ connection' = [connection EXCEPT ![r] = "none"]
    /\ toRunner' = [toRunner EXCEPT ![r] = <<>>]
    /\ toBroker' = [toBroker EXCEPT ![r] = <<>>]
    /\ Forget(r)
    /\ UNCHANGED <<mode, pendingTaskRequests, acceptInProgress, accepting>>

-----------------------------------------------------------------------------
(* A runner                                                                *)

Running(r) == {t \in Tasks : runningTasks[r][t] # None}

\* An offer id of r that nobody remembers.
FreeOffers(r) ==
    Offers \ ( openOffers[r]
               \cup {o.offerId : o \in {p \in Range(pendingTaskOffers) : p.runner = r /\ p.valid}}
               \cup {m.offerId : m \in {x \in Range(toBroker[r]) : x.type = "taskoffer"}}
               \cup {m.offerId : m \in {x \in Range(toRunner[r]) : x.type = "taskofferaccept"}} )

\* Mutant: running tasks take no slot.
SlotsNotOffered(open, running) == MaxConcurrency - Cardinality(open)

\* The slots of a runner that are neither offered nor taken.
SlotsLeft(open, running) == MaxConcurrency - (Cardinality(open) + Cardinality(running))

\* sendOffers() after the messages before, with open offers and running tasks
\* as given: the stale offers go, and new ones fill the slots that are left.
SendOffers(r, before, open, running) ==
    \E stale \in SUBSET open :
        LET missing == SlotsLeft(open \ stale, running)
            free == SetToSeq(FreeOffers(r) \ open)
            n == IF missing < Len(free) THEN missing ELSE Len(free)
            new == IF r \in canSendOffers THEN SubSeq(free, 1, n) ELSE <<>>
        IN  /\ openOffers' = [openOffers EXCEPT ![r] = (open \ stale) \cup Range(new)]
            /\ toBroker' = [toBroker EXCEPT ![r] =
                   @ \o before \o [k \in DOMAIN new |-> OfferMessage(new[k])]]

\* startTaskOffers()
StartTaskOffers(r) ==
    /\ RunnerReceived(r, "runnerregistered")
    /\ toRunner' = PopFrom(toRunner, r)
    /\ canSendOffers' = canSendOffers \cup {r}
    /\ UNCHANGED <<mode, knownRunners, matching, tasks, request, connection, toBroker, openOffers,
                   runningTasks, executed, disconnects>>

\* The offer interval.
OfferInterval(r) ==
    /\ r \in canSendOffers
    /\ SendOffers(r, <<>>, openOffers[r], Running(r))
    /\ UNCHANGED <<mode, knownRunners, matching, tasks, request, connection, toRunner,
                   canSendOffers, runningTasks, executed, disconnects>>

\* offerAccepted()
OfferAccepted(r) ==
    LET o == Head(toRunner[r]).offerId
        t == Head(toRunner[r]).taskId
        Reply(type) == toBroker' = [toBroker EXCEPT ![r] = Append(@, Message(type, t))]
    IN  /\ RunnerReceived(r, "taskofferaccept")
        /\ r \notin Launchers
        /\ toRunner' = PopFrom(toRunner, r)
        /\ openOffers' = [openOffers EXCEPT ![r] = @ \ {o}]
        /\ \/ /\ Cardinality(Running(r)) >= MaxConcurrency \/ o \notin openOffers[r]
              /\ Reply("taskrejected")
              /\ UNCHANGED runningTasks
           \/ /\ Cardinality(Running(r)) < MaxConcurrency /\ o \in openOffers[r]
              /\ Reply("taskaccepted")
              /\ runningTasks' = [runningTasks EXCEPT ![r][t] = "waitingForSettings"]
        /\ UNCHANGED <<mode, knownRunners, matching, tasks, request, connection, canSendOffers,
                       executed, disconnects>>

\* A launcher defers the task until the runner it starts now makes an offer.
DeferTask(r) ==
    /\ RunnerReceived(r, "taskofferaccept")
    /\ r \in Launchers
    /\ toRunner' = PopFrom(toRunner, r)
    /\ toBroker' = [toBroker EXCEPT ![r] =
                        Append(@, Message("taskdeferred", Head(toRunner[r]).taskId))]
    /\ canSendOffers' = canSendOffers \ {r}
    /\ openOffers' = [openOffers EXCEPT ![r] = {}]
    /\ UNCHANGED <<mode, knownRunners, matching, tasks, request, connection, runningTasks, executed,
                   disconnects>>

\* receivedSettings()
ReceivedSettings(r) ==
    LET t == Head(toRunner[r]).taskId
    IN  /\ RunnerReceived(r, "tasksettings")
        /\ toRunner' = PopFrom(toRunner, r)
        /\ \/ runningTasks[r][t] = None /\ UNCHANGED <<runningTasks, executed>>
           \/ /\ runningTasks[r][t] # None
              /\ runningTasks' = [runningTasks EXCEPT ![r][t] = "running"]
              /\ executed' = [executed EXCEPT ![RequestOf(t)] = @ + 1]
        /\ UNCHANGED <<mode, knownRunners, matching, tasks, request, connection, toBroker,
                       canSendOffers, openOffers, disconnects>>

\* finishTask(): the slot is free again, and sendOffers() may offer it at once.
FinishTask(r, t, messages) ==
    /\ runningTasks' = [runningTasks EXCEPT ![r][t] = None]
    /\ SendOffers(r, messages, openOffers[r], Running(r) \ {t})

\* taskCancelled()
TaskCancelled(r) ==
    LET t == Head(toRunner[r]).taskId
    IN  /\ RunnerReceived(r, "taskcancel")
        /\ toRunner' = PopFrom(toRunner, r)
        /\ IF runningTasks[r][t] = "waitingForSettings" THEN FinishTask(r, t, <<>>)
           ELSE /\ runningTasks' = [runningTasks EXCEPT ![r][t] =
                                        IF @ = "running" THEN "aborting:cancelled" ELSE @]
                /\ UNCHANGED <<openOffers, toBroker>>
        /\ UNCHANGED <<mode, knownRunners, matching, tasks, request, connection, canSendOffers,
                       executed, disconnects>>

\* Mutant: a task that waits for its settings is aborted as well.
TimedOutAborts(r, t) ==
    /\ runningTasks[r][t] \in {"waitingForSettings", "running"}
    /\ runningTasks' = [runningTasks EXCEPT ![r][t] = "aborting:timeout"]
    /\ UNCHANGED <<mode, knownRunners, matching, tasks, request, connection, toRunner, toBroker,
                   canSendOffers, openOffers, executed, disconnects>>

\* taskTimedOut(), at the runner; its timer fires once.
TaskTimedOut(r, t) ==
    /\ \/ /\ runningTasks[r][t] = "waitingForSettings"
          /\ FinishTask(r, t, <<Message("taskended", t)>>)
       \/ /\ runningTasks[r][t] = "running"
          /\ runningTasks' = [runningTasks EXCEPT ![r][t] = "aborting:timeout"]
          /\ UNCHANGED <<openOffers, toBroker>>
    /\ UNCHANGED <<mode, knownRunners, matching, tasks, request, connection, toRunner,
                   canSendOffers, executed, disconnects>>

\* taskExecutionSucceeded(), taskExecutionFailed()
ExecutionEnds(r, t) ==
    /\ \/ /\ runningTasks[r][t] = "aborting:cancelled"
          /\ FinishTask(r, t, <<>>)
       \/ /\ runningTasks[r][t] \in {"running", "aborting:timeout"}
          /\ FinishTask(r, t, <<Message("taskended", t)>>)
    /\ UNCHANGED <<mode, knownRunners, matching, tasks, request, connection, toRunner,
                   canSendOffers, executed, disconnects>>

\* The process of the runner exits, or its connection is gone.
Break(r) ==
    /\ connection[r] = "open"
    /\ disconnects < MaxDisconnects
    /\ disconnects' = disconnects + 1
    /\ \E n \in 0..Len(toBroker[r]) : Lose(r, n)
    /\ UNCHANGED <<mode, knownRunners, matching, tasks, request>>

-----------------------------------------------------------------------------
BrokerStep(r) ==
    \/ TaskOffered(r) \/ HandleRunnerAccept(r) \/ HandleRunnerReject(r)
    \/ HandleRunnerDeferred(r) \/ TaskEnded(r)

RunnerStep(r) ==
    \/ StartTaskOffers(r) \/ OfferAccepted(r) \/ DeferTask(r) \/ ReceivedSettings(r)
    \/ TaskCancelled(r)

Next ==
    \/ \E q \in Requests : RequestTask(q)
    \/ \E k \in DOMAIN pendingTaskOffers : OfferExpires(k)
    \/ \E t \in Tasks : AcceptTimesOut(t) \/ HandleTaskTimeout(t)
    \/ \E r \in Runners :
          \/ RegisterRunner(r) \/ BrokerStep(r) \/ RunnerStep(r) \/ OfferInterval(r)
          \/ Break(r) \/ DeregisterRunner(r)
    \/ \E r \in Runners, t \in Tasks : TaskTimedOut(r, t) \/ ExecutionEnds(r, t)

Spec == Init /\ [][Next]_vars
\* Messages arrive and timers fire; a runner that is gone is noticed, and another
\* one connects.  Code that is aborted ends.  The accepts of the broker do not all
\* find their offer stale, and those of the runners are not all later than the
\* broker's timeout.  Nobody has to call startTask(), and code that is not aborted
\* need not end.
Fairness ==
    /\ WF_vars(\E t \in Tasks : HandleTaskTimeout(t))
    /\ WF_vars(\E t \in Tasks : AcceptTimesOut(t))
    /\ WF_vars(\E k \in DOMAIN pendingTaskOffers : OfferExpires(k))
    /\ \A r \in Runners :
          /\ WF_vars(RegisterRunner(r)) /\ WF_vars(OfferInterval(r))
          /\ WF_vars(connection[r] = "broken" /\ DeregisterRunner(r))
          /\ WF_vars(BrokerStep(r)) /\ WF_vars(RunnerStep(r))
          /\ WF_vars(\E t \in Tasks : TaskTimedOut(r, t))
          /\ WF_vars(\E t \in Tasks : runningTasks[r][t] # "running" /\ ExecutionEnds(r, t))
    /\ []<>(\E r \in Runners \ Launchers : RunnerReceived(r, "taskofferaccept"))
          => []<><<\E r \in Runners : OfferAccepted(r) /\ runningTasks' # runningTasks>>_vars
    /\ []<>(\E r \in Runners : Received(r, "taskaccepted"))
          => []<><<\E r \in Runners : HandleRunnerAccept(r) /\ tasks' # tasks>>_vars

FairSpec == Spec /\ Fairness

-----------------------------------------------------------------------------
TypeOK ==
    /\ mode \in {"internal", "external"}
    /\ knownRunners \subseteq Runners
    /\ pendingTaskOffers \in Seq(TaskOffer)
    /\ pendingTaskRequests \in Seq(Requests)
    /\ acceptInProgress \subseteq Requests
    /\ accepting \in [Tasks -> Runners \cup {None}]
    /\ tasks \in [Tasks -> Runners \cup {None}]
    /\ request \in [Requests -> {"idle", "waiting", "ready", "answered"}]
    /\ connection \in [Runners -> {"none", "open", "broken"}]
    /\ toRunner \in [Runners -> Seq(BrokerMessage)]
    /\ toBroker \in [Runners -> Seq(RunnerMessage)]
    /\ canSendOffers \subseteq Runners
    /\ openOffers \in [Runners -> SUBSET Offers]
    /\ runningTasks \in [Runners -> [Tasks -> Statuses \cup {None}]]
    /\ executed \in [Requests -> Nat]
    /\ disconnects \in 0..MaxDisconnects

\* An acceptOffer() under way is the only one for its request, and will find the
\* request in the list and waiting at the requester: the errors "This shouldn't
\* happen, and might be a race condition" and "Request ID not found" stay away.
AcceptFindsRequest ==
    \A t \in Tasks : accepting[t] # None =>
        /\ RequestOf(t) \in Range(pendingTaskRequests)
        /\ request[RequestOf(t)] = "waiting"
        /\ \A u \in Tasks : RequestOf(u) = RequestOf(t) /\ u # t =>
              accepting[u] = None /\ tasks[u] = None

\* No request is lost between the lists of the broker: one that waits is in the
\* list, free to be matched or in an exchange that will end; one that is ready
\* has a task, in spite of rejections, timeouts, deferrals and disconnects.
RequestIsTracked ==
    \A q \in Requests :
        /\ request[q] = "waiting" =>
              /\ q \in Range(pendingTaskRequests)
              /\ q \in acceptInProgress => \E t \in Tasks : RequestOf(t) = q /\ accepting[t] # None
        /\ request[q] = "ready" => \E t \in Tasks : RequestOf(t) = q /\ tasks[t] # None

\* Seen from the callers of startTask(), none of this happens: each call gets one
\* task and one answer, and its code is executed at most once, although the broker
\* offers it to another runner when the first one accepts too late.
Abstract == INSTANCE TaskRequests
ImplementsTaskRequests == Abstract!Spec

\* A runner never promises more than its slots: open offers and running tasks
\* together stay within maxConcurrency, whatever expired or came too late.
NeverOverbooked ==
    \A r \in Runners : Cardinality(openOffers[r]) + Cardinality(Running(r)) <= MaxConcurrency

\* Settings never find a task that runs or aborts (receivedSettings() asserts it).
SettingsFindWaiting ==
    \A r \in Runners : \A m \in Range(toRunner[r]) :
        m.type = "tasksettings" => runningTasks[r][m.taskId] \in {None, "waitingForSettings"}

\* Every task is with a runner the broker knows: getRunnerOrFailTask() finds it,
\* and its disconnect will fail the task.
TaskHasRunner == \A t \in Tasks : tasks[t] # None => tasks[t] \in knownRunners

\* Every call of startTask() is answered, in spite of late accepts, of runners
\* that go, and of code that never ends.
RequestIsAnswered == \A q \in Requests : request[q] = "waiting" ~> request[q] = "answered"
=============================================================================
