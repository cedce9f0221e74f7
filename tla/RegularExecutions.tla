------------------------- MODULE RegularExecutions -------------------------
(***************************************************************************)
(* The life of production executions in one main process in regular mode:  *)
(* WorkflowRunner.run() over ActiveExecutions, the concurrency limiter, the *)
(* WaitTracker, ExecutionService.stop(), and the start, shutdown and crash *)
(* of the process, all meeting in the executions table.                    *)
(*                                                                         *)
(* A call <<e, n>> is the n-th call of WorkflowRunner.run() that carries   *)
(* the execution id e.  Steps are the stretches between two awaits; a step *)
(* that awaits a query stands for its taking effect in the database.       *)
(***************************************************************************)
EXTENDS Integers, Sequences, FiniteSets

CONSTANTS Executions,    \* execution ids
          MaxCalls,      \* bound: the calls of run() for each execution id
          None,          \* stands for undefined
          Limit,         \* executions.concurrency.productionLimit
          WithWait,      \* executions whose workflow may put itself to wait
          WithResponse,  \* executions whose webhook waits for a response
          WithTimeout,   \* executions with an execution timeout
          SaveProgress,  \* whether workflows save their execution progress
          Stops,         \* calls of ExecutionService.stop() that may be made
          MaxRestarts,   \* bound: crashes and shutdowns
          MaxFailures    \* bound: failing updates of the row in add()

ASSUME RegularAssumption ==
    /\ IsFiniteSet(Executions) /\ IsFiniteSet(Stops)
    /\ MaxCalls \in [Executions -> Nat]
    /\ MaxRestarts \in Nat /\ MaxFailures \in Nat
    /\ Limit \in Nat \ {0}
    /\ WithWait \subseteq Executions
    /\ WithResponse \subseteq Executions
    /\ WithTimeout \subseteq Executions
    /\ SaveProgress \in BOOLEAN

Calls == UNION {{e} \X (1..MaxCalls[e]) : e \in Executions}
Id(c) == c[1]

VARIABLES
    isEnabled, capacity, queue, request, removals, \* the limiter
    db,                 \* the row of each execution
    pc,                 \* where each call is
    outcome,            \* how the run of each call ends, once that is known
    activeExecutions,   \* the entry of each execution id: the call it is for, its
                        \* status, its workflowExecution and responsePromise
    detached,           \* history: calls whose unsettled entry was lost
    handled,            \* the calls whose run has its then() handler
    cancelled,          \* the calls whose run was cancelled
    cancelWrites,       \* those among them whose onCancel hook still has to save
    waitingExecutions,  \* per execution: none, a timer, or a dead (cleared) one
    poll,               \* the rows getWaitingExecutions() read, not yet armed
    enqueued,           \* the rows runEnqueuedExecutions() read, not yet run
    process,            \* down, starting, up, stopping or draining
    stop,               \* per call of stop(): how far it is, and for which row
    restarts, failures  \* counters for the bounds

limiter == <<isEnabled, capacity, queue, request, removals>>
registry == <<activeExecutions, detached>>
runs == <<outcome, handled, cancelled, cancelWrites>>
waits == <<waitingExecutions, poll>>
main == <<enqueued, process, restarts>>
vars == <<limiter, db, pc, registry, runs, waits, main, stop, failures>>

Limiter == INSTANCE ConcurrencyControl WITH
    Requests <- Calls,
    ExecutionOf <- [c \in Calls |-> Id(c)],
    Mode <- [e \in Executions |-> "webhook"],
    Limit <- [t \in {"production", "evaluation"} |->
                IF t = "production" THEN Limit ELSE -1],
    MaxRemovals <- Cardinality(Stops)

NoRow == [status |-> "none", waitTill |-> FALSE, finished |-> FALSE]

\* An entry of activeExecutions; call stands for its postExecutePromise.
ActiveExecution == [call : Calls, status : {"running", "waiting"},
                    workflowExecution : Calls \cup {None}, responsePromise : BOOLEAN]

ASSUME NoneAssumption == None \notin ActiveExecution

Init ==
    /\ isEnabled = TRUE
    /\ capacity = [t \in {"production"} |-> Limit]
    /\ queue = [t \in {"production"} |-> <<>>]
    /\ request = [c \in Calls |-> "idle"]
    /\ removals = [t \in {"production"} |-> 0]
    /\ outcome = [c \in Calls |-> "none"]
    /\ activeExecutions = [e \in Executions |-> None]
    /\ detached = {}
    /\ handled = {}
    /\ cancelled = {}
    /\ cancelWrites = {}
    /\ waitingExecutions = [e \in Executions |-> "none"]
    /\ poll = {}
    /\ enqueued = {}
    /\ db = [e \in Executions |-> NoRow]
    /\ pc = [c \in Calls |-> "unused"]
    /\ process = "starting"
    /\ stop = [s \in Stops |-> [at |-> "idle"]]
    /\ restarts = 0
    /\ failures = 0

-----------------------------------------------------------------------------
\* c is the next call of run() for its execution.
NextCall(c) ==
    pc[c] = "unused" /\ \A n \in 1..(c[2] - 1) : pc[<<Id(c), n>>] # "unused"

Goto(c, label) == pc' = [pc EXCEPT ![c] = label]

Unsettled(c) == request[c] \in {"granted", "free"}

Entry(e) == activeExecutions[e]

WithEntry(e, entry) == activeExecutions' = [activeExecutions EXCEPT ![e] = entry]

\* Mutant: capacity is released only when the entry goes.
SettleKeepsSlot(e) ==
    \/ ~Unsettled(Entry(e).call) /\ UNCHANGED <<limiter, registry>>
    \/ /\ Unsettled(Entry(e).call)
       /\ \/ /\ Entry(e).status = "waiting"
             /\ WithEntry(e, [Entry(e) EXCEPT !.workflowExecution = None])
             /\ UNCHANGED limiter
          \/ /\ Entry(e).status # "waiting"
             /\ Limiter!Release(Entry(e).call)
             /\ WithEntry(e, None)
       /\ UNCHANGED detached

\* The postExecutePromise in the entry of e settles, unless it had: its
\* finally() releases capacity and removes the entry, or keeps it to wait.
Settle(e) ==
    \/ ~Unsettled(Entry(e).call) /\ UNCHANGED <<limiter, registry>>
    \/ /\ Unsettled(Entry(e).call)
       /\ Limiter!Release(Entry(e).call)
       /\ WithEntry(e, IF Entry(e).status = "waiting"
                       THEN [Entry(e) EXCEPT !.workflowExecution = None] ELSE None)
       /\ UNCHANGED detached

\* Mutant: an execution that waits is not finalized.
FinalizeUnlessWaiting(e) ==
    \/ Entry(e) = None /\ UNCHANGED <<limiter, registry>>
    \/ Entry(e) # None /\ Entry(e).status = "waiting" /\ UNCHANGED <<limiter, registry>>
    \/ Entry(e) # None /\ Entry(e).status # "waiting" /\ Settle(e)

\* finalizeExecution()
FinalizeExecution(e) ==
    \/ Entry(e) = None /\ UNCHANGED <<limiter, registry>>
    \/ Entry(e) # None /\ Settle(e)

\* The run attached to the entry of e, if it can still be cancelled.
Cancellable(e) ==
    {w \in {Entry(e).workflowExecution} \ ({None} \cup cancelled) :
        pc[w] \in {"running", "saving progress", "saving", "saved"}}

\* ActiveExecutions.stopExecution()
StopExecution(e) ==
    \/ Entry(e) = None /\ UNCHANGED <<limiter, registry, runs>>
    \/ /\ Entry(e) # None
       /\ Entry(e).status = "waiting"
       /\ WithEntry(e, None)
       /\ detached' = detached \cup {c \in {Entry(e).call} : Unsettled(c)}
       /\ UNCHANGED <<limiter, runs>>
    \/ /\ Entry(e) # None
       /\ Entry(e).status = "running"
       /\ cancelled' = cancelled \cup Cancellable(e)
       /\ cancelWrites' = cancelWrites \cup Cancellable(e)
       /\ Settle(e)
       /\ UNCHANGED <<outcome, handled>>

-----------------------------------------------------------------------------
(* ActiveExecutions.add()                                                  *)

\* A trigger or a webhook: createNewExecution().
Create(c) ==
    /\ process \in {"starting", "up", "stopping"}
    /\ c[2] = 1 /\ NextCall(c)
    /\ db[Id(c)] = NoRow
    /\ db' = [db EXCEPT ![Id(c)].status = "new"]
    /\ Goto(c, "created")
    /\ UNCHANGED <<limiter, registry, runs, waits, main, stop, failures>>

Throttle(c) ==
    /\ pc[c] = "created"
    /\ Limiter!Throttle(c)
    /\ Goto(c, "throttled")
    /\ UNCHANGED <<db, registry, runs, waits, main, stop, failures>>

\* Past the limiter: setRunning(), or updateExistingExecution() to resume.
MarkRunning(c) ==
    /\ pc[c] = "throttled" /\ Unsettled(c)
    /\ db' = [db EXCEPT ![Id(c)].status = "running", ![Id(c)].waitTill = FALSE]
    /\ Goto(c, "marked")
    /\ UNCHANGED <<limiter, registry, runs, waits, main, stop, failures>>

\* The update fails: add() and run() reject, and nothing releases capacity.
MarkFails(c) ==
    /\ pc[c] = "throttled" /\ Unsettled(c)
    /\ failures < MaxFailures
    /\ failures' = failures + 1
    /\ detached' = detached \cup {c}
    /\ Goto(c, "over")
    /\ UNCHANGED <<limiter, db, activeExecutions, runs, waits, main, stop>>

\* Mutant: executionStatus keeps its first value.
RegisterAsNew(c) ==
    /\ pc[c] = "marked"
    /\ WithEntry(Id(c), [call |-> c, status |-> IF c[2] = 1 THEN "new" ELSE "running",
                        workflowExecution |-> None, responsePromise |-> FALSE])
    /\ Goto(c, "registered")
    /\ UNCHANGED <<limiter, db, detached, runs, waits, main, stop, failures>>

\* The entry of c takes the place of the one there was.
Register(c) ==
    LET resuming == Entry(Id(c))
    IN  /\ pc[c] = "marked"
        /\ WithEntry(Id(c), [call |-> c, status |-> "running", workflowExecution |-> None,
               responsePromise |-> resuming # None /\ resuming.responsePromise])
        /\ detached' = detached \cup
               IF resuming = None THEN {} ELSE {d \in {resuming.call} : Unsettled(d)}
        /\ Goto(c, "registered")
        /\ UNCHANGED <<limiter, db, runs, waits, main, stop, failures>>

-----------------------------------------------------------------------------
(* WorkflowRunner.run() after add()                                        *)

\* The credentials check fails: the run is saved as failed, and finalized.
CheckFails(c) ==
    /\ pc[c] = "registered"
    /\ outcome' = [outcome EXCEPT ![c] = "error"]
    /\ Goto(c, "failing")
    /\ UNCHANGED <<limiter, db, registry, handled, cancelled, cancelWrites, waits, main, stop, failures>>

\* run() was given the response promise of the webhook.
Responds(c) == Id(c) \in WithResponse /\ c[2] = 1

\* attachResponsePromise() throws when the execution was stopped meanwhile.
StartFails(c) ==
    /\ pc[c] = "registered"
    /\ Responds(c) /\ Entry(Id(c)) = None
    /\ Goto(c, "over")
    /\ UNCHANGED <<limiter, db, registry, runs, waits, main, stop, failures>>

\* Mutant: the row is set to running, and only then the entry looked up.
StartGivesUp(c) ==
    LET e == Id(c)
    IN  /\ pc[c] = "registered"
        /\ db' = [db EXCEPT ![e].status = "running"]
        /\ \/ Entry(e) = None /\ Goto(c, "over") /\ UNCHANGED <<activeExecutions, handled>>
           \/ /\ Entry(e) # None
              /\ Goto(c, "running")
              /\ WithEntry(e, [Entry(e) EXCEPT !.workflowExecution = c,
                                !.responsePromise = @ \/ Responds(c)])
              /\ handled' = handled \cup {c}
        /\ UNCHANGED <<limiter, detached, outcome, cancelled, cancelWrites, waits, main,
                       stop, failures>>

\* runMainProcess(): setRunning(), start the run, attach it.  When the entry
\* is gone attachWorkflowExecution() throws, and nobody awaits the run.
Start(c) ==
    LET e == Id(c)
    IN  /\ pc[c] = "registered"
        /\ db' = [db EXCEPT ![e].status = "running"]
        /\ Goto(c, "running")
        /\ \/ Entry(e) = None /\ ~Responds(c) /\ UNCHANGED <<activeExecutions, handled>>
           \/ /\ Entry(e) # None
              /\ WithEntry(e, [Entry(e) EXCEPT !.workflowExecution = c,
                                !.responsePromise = @ \/ Responds(c)])
              /\ handled' = handled \cup {c}
        /\ UNCHANGED <<limiter, detached, outcome, cancelled, cancelWrites, waits, main,
                       stop, failures>>

\* putExecutionToWait(): setStatus() throws when the entry is gone.
PutToWait(c) ==
    LET e == Id(c)
    IN  /\ pc[c] = "running" /\ c \notin cancelled
        /\ e \in WithWait /\ outcome[c] = "none"
        /\ \/ /\ Entry(e) = None
              /\ outcome' = [outcome EXCEPT ![c] = "error"]
              /\ UNCHANGED activeExecutions
           \/ /\ Entry(e) # None
              /\ outcome' = [outcome EXCEPT ![c] = "waiting"]
              /\ WithEntry(e, [Entry(e) EXCEPT !.status = "waiting"])
        /\ UNCHANGED <<limiter, db, pc, detached, handled, cancelled, cancelWrites, waits,
                       main, stop, failures>>

\* saveExecutionProgress(): read the row; skip if it is finished ...
ReadProgress(c) ==
    /\ SaveProgress
    /\ pc[c] = "running" /\ c \notin cancelled
    /\ ~db[Id(c)].finished
    /\ Goto(c, "saving progress")
    /\ UNCHANGED <<limiter, db, registry, runs, waits, main, stop, failures>>

\* ... and write it back as running.
WriteProgress(c) ==
    /\ pc[c] = "saving progress"
    /\ db' = [db EXCEPT ![Id(c)].status = "running", ![Id(c)].finished = FALSE]
    /\ Goto(c, "running")
    /\ UNCHANGED <<limiter, registry, runs, waits, main, stop, failures>>

\* processSuccessExecution(): a cancelled run skips workflowExecuteAfter.
EndRun(c) ==
    /\ pc[c] = "running"
    /\ \/ c \in cancelled /\ Goto(c, "saved") /\ UNCHANGED outcome
       \/ /\ c \notin cancelled
          /\ Goto(c, "saving")
          /\ \/ outcome[c] # "none" /\ UNCHANGED outcome
             \/ /\ outcome[c] = "none"
                /\ \E o \in {"success", "error"} : outcome' = [outcome EXCEPT ![c] = o]
    /\ UNCHANGED <<limiter, db, registry, handled, cancelled, cancelWrites, waits, main,
                   stop, failures>>

\* The workflowExecuteAfter hook saves the outcome.
SaveOutcome(c) ==
    /\ pc[c] \in {"saving", "failing"}
    /\ db' = [db EXCEPT ![Id(c)] =
                 [status |-> outcome[c], finished |-> outcome[c] = "success",
                  waitTill |-> outcome[c] = "waiting" \/ @.waitTill]]
    /\ Goto(c, IF pc[c] = "saving" THEN "saved" ELSE "failed")
    /\ UNCHANGED <<limiter, registry, runs, waits, main, stop, failures>>

\* Mutant: a run that failed its credentials check is not finalized.
FinalizeHandled(c) ==
    /\ pc[c] \in {"saved", "failed"}
    /\ Goto(c, "over")
    /\ \/ c \in handled /\ FinalizeExecution(Id(c))
       \/ c \notin handled /\ UNCHANGED <<limiter, registry>>
    /\ UNCHANGED <<db, runs, waits, main, stop, failures>>

\* The then() handler.  getStatus() throws when the entry is gone, and
\* processError() ignores that: "already been cleaned up".
Finalize(c) ==
    /\ pc[c] \in {"saved", "failed"}
    /\ Goto(c, "over")
    /\ \/ (c \in handled \/ pc[c] = "failed") /\ FinalizeExecution(Id(c))
       \/ c \notin handled /\ pc[c] = "saved" /\ UNCHANGED <<limiter, registry>>
    /\ handled' = handled \ {c}
    /\ cancelled' = cancelled \ {c}
    /\ outcome' = [outcome EXCEPT ![c] = "none"]
    /\ UNCHANGED <<db, cancelWrites, waits, main, stop, failures>>

\* The onCancel hook saves the run as canceled.
SaveCancelled(c) ==
    /\ c \in cancelWrites
    /\ cancelWrites' = cancelWrites \ {c}
    /\ db' = [db EXCEPT ![Id(c)].status = "canceled", ![Id(c)].finished = FALSE]
    /\ UNCHANGED <<limiter, pc, registry, outcome, handled, cancelled, waits, main, stop, failures>>

\* executionTimeout: stopExecution(), until the run of c ends.
TimeOut(c) ==
    /\ Id(c) \in WithTimeout /\ c \in handled \ cancelled
    /\ pc[c] \in {"running", "saving progress", "saving", "saved"}
    /\ Entry(Id(c)) # None
    /\ StopExecution(Id(c))
    /\ UNCHANGED <<db, pc, waits, main, stop, failures>>

-----------------------------------------------------------------------------
(* ExecutionService.stop()                                                 *)

ReadToStop(s, e) ==
    /\ process # "down"
    /\ stop[s].at = "idle"
    /\ db[e].status \in {"new", "running", "waiting"}
    /\ stop' = [stop EXCEPT ![s] = [at |-> "read", id |-> e, finished |-> db[e].finished]]
    /\ UNCHANGED <<limiter, db, pc, registry, runs, waits, main, failures>>

Queued(e) ==
    {i \in DOMAIN queue["production"] : Id(queue["production"][i]) = e}

\* stopInRegularMode(): dequeue the execution if it is queued ...
StopQueued(s) ==
    /\ stop[s].at = "read"
    /\ \E i \in Queued(stop[s].id) : Limiter!RemoveQueued(stop[s].id, i)
    /\ stop' = [stop EXCEPT ![s].at = "before run"]
    /\ UNCHANGED <<db, pc, registry, runs, waits, main, failures>>

\* ... else stop it where it is active or waiting.
StopActive(s) ==
    /\ stop[s].at = "read"
    /\ ~isEnabled \/ Queued(stop[s].id) = {}
    /\ StopExecution(stop[s].id)
    /\ waitingExecutions' = [waitingExecutions EXCEPT ![stop[s].id] = "none"]
    /\ stop' = [stop EXCEPT ![s].at = "during run"]
    /\ UNCHANGED <<db, pc, poll, main, failures>>

\* stopBeforeRun(), stopDuringRun(): the latter writes the row it read back.
WriteStopped(s) ==
    /\ stop[s].at \in {"before run", "during run"}
    /\ LET e == stop[s].id
       IN  db' = [db EXCEPT ![e] =
               IF stop[s].at = "before run" THEN [@ EXCEPT !.status = "canceled"]
               ELSE [status |-> "canceled", waitTill |-> FALSE,
                     finished |-> stop[s].finished]]
    /\ stop' = [stop EXCEPT ![s] = [at |-> "done"]]
    /\ UNCHANGED <<limiter, pc, registry, runs, waits, main, failures>>

-----------------------------------------------------------------------------
(* WaitTracker and waiting webhooks                                        *)

\* getWaitingExecutions() of the repository ...
PollWaiting ==
    /\ process \in {"starting", "up"}
    /\ poll = {}
    /\ poll' = {e \in Executions : db[e].waitTill /\ db[e].status # "crashed"}
    /\ poll' # {}
    /\ UNCHANGED <<limiter, db, pc, registry, runs, waitingExecutions, main, stop, failures>>

\* ... whose answer arms a timer for each row that has none.
ArmTimers ==
    /\ poll # {}
    /\ poll' = {}
    /\ waitingExecutions' =
          [e \in Executions |-> IF e \in poll /\ waitingExecutions[e] = "none"
                                THEN "timer" ELSE waitingExecutions[e]]
    /\ UNCHANGED <<limiter, db, pc, registry, runs, main, stop, failures>>

\* startExecution(), as its timer fires.
StartWaiting(c) ==
    /\ waitingExecutions[Id(c)] = "timer" /\ NextCall(c)
    /\ waitingExecutions' = [waitingExecutions EXCEPT ![Id(c)] = "none"]
    /\ Goto(c, "loading")
    /\ UNCHANGED <<limiter, db, registry, runs, poll, main, stop, failures>>

LoadWaiting(c) ==
    /\ pc[c] = "loading"
    /\ \/ db[Id(c)].finished /\ Goto(c, "over")
       \/ ~db[Id(c)].finished /\ Goto(c, "created")
    /\ UNCHANGED <<limiter, db, registry, runs, waits, main, stop, failures>>

\* WaitingWebhooks.executeWebhook() on a row that is neither running nor done.
ResumeByWebhook(c) ==
    /\ process \in {"starting", "up"}
    /\ NextCall(c)
    /\ db[Id(c)].waitTill
    /\ db[Id(c)].status # "running" /\ ~db[Id(c)].finished
    /\ Goto(c, "created")
    /\ UNCHANGED <<limiter, db, registry, runs, waits, main, stop, failures>>

-----------------------------------------------------------------------------
(* Start, shutdown and crash of the process                                *)

\* The event bus marks the rows of the process that died; the wait tracker
\* and the server start.
Recover ==
    /\ process = "down"
    /\ process' = "starting"
    /\ db' = [e \in Executions |->
                 IF db[e].status = "running" THEN [db[e] EXCEPT !.status = "crashed"]
                 ELSE db[e]]
    /\ UNCHANGED <<limiter, pc, registry, runs, waits, enqueued, restarts, stop, failures>>

\* Mutant: only the first of the enqueued executions is found.
FindOneEnqueued ==
    /\ process = "starting"
    /\ process' = "up"
    /\ LET new == {e \in Executions : db[e].status = "new"}
       IN  enqueued' = IF new = {} THEN {} ELSE {CHOOSE e \in new : TRUE}
    /\ UNCHANGED <<limiter, db, pc, registry, runs, waits, restarts, stop, failures>>

\* runEnqueuedExecutions(): read the rows with status new ...
FindEnqueued ==
    /\ process = "starting"
    /\ process' = "up"
    /\ enqueued' = {e \in Executions : db[e].status = "new"}
    /\ UNCHANGED <<limiter, db, pc, registry, runs, waits, restarts, stop, failures>>

\* ... and run each of them.
RunEnqueued(c) ==
    /\ Id(c) \in enqueued /\ NextCall(c)
    /\ enqueued' = enqueued \ {Id(c)}
    /\ Goto(c, "created")
    /\ UNCHANGED <<limiter, db, registry, runs, waits, process, restarts, stop, failures>>

\* stopProcess() begins with stopTracking(): timers are cleared, their entries stay.
StopTracking ==
    /\ process = "up"
    /\ restarts < MaxRestarts
    /\ process' = "stopping"
    /\ waitingExecutions' =
          [e \in Executions |-> IF waitingExecutions[e] = "none" THEN "none" ELSE "dead"]
    /\ UNCHANGED <<limiter, db, pc, registry, runs, poll, enqueued, restarts, stop, failures>>

\* ActiveExecutions.shutdown(): disable the limiter, stop the executions with
\* a response promise, forget the waiting ones.
Drain ==
    LET waiting == {e \in Executions : Entry(e) # None /\ Entry(e).status = "waiting"}
        running == {e \in Executions : Entry(e) # None} \ waiting
        toCancel == {e \in running : Entry(e).responsePromise /\ Unsettled(Entry(e).call)}
        aborted == UNION {Cancellable(e) : e \in toCancel}
    IN  /\ process = "stopping"
        /\ process' = "draining"
        /\ isEnabled' = FALSE
        /\ request' = [c \in Calls |->
               IF c \in {Entry(e).call : e \in toCancel} THEN "idle" ELSE request[c]]
        /\ activeExecutions' = [e \in Executions |->
               IF e \in toCancel \cup waiting THEN None ELSE Entry(e)]
        /\ cancelled' = cancelled \cup aborted
        /\ cancelWrites' = cancelWrites \cup aborted
        /\ detached' = detached \cup {c \in {Entry(e).call : e \in waiting} : Unsettled(c)}
        /\ UNCHANGED <<capacity, queue, removals, db, pc, outcome, handled, waits, enqueued,
                       restarts, stop, failures>>

\* The memory of the process is gone, with the calls and stops in flight.
Die ==
    /\ process' = "down"
    /\ restarts' = restarts + 1
    /\ isEnabled' = TRUE
    /\ capacity' = [t \in {"production"} |-> Limit]
    /\ queue' = [t \in {"production"} |-> <<>>]
    /\ request' = [c \in Calls |-> "idle"]
    /\ removals' = [t \in {"production"} |-> 0]
    /\ outcome' = [c \in Calls |-> "none"]
    /\ activeExecutions' = [e \in Executions |-> None]
    /\ detached' = {}
    /\ handled' = {}
    /\ cancelled' = {}
    /\ cancelWrites' = {}
    /\ waitingExecutions' = [e \in Executions |-> "none"]
    /\ poll' = {}
    /\ enqueued' = {}
    /\ pc' = [c \in Calls |-> IF pc[c] = "unused" THEN "unused" ELSE "over"]
    /\ stop' = [s \in Stops |-> IF stop[s].at = "idle" THEN stop[s] ELSE [at |-> "done"]]
    /\ UNCHANGED <<db, failures>>

Exit ==
    /\ process = "draining"
    /\ \A e \in Executions : Entry(e) = None
    /\ Die

\* The forceShutdownTimer of onTerminationSignal() runs out.
ForceExit ==
    /\ process \in {"stopping", "draining"}
    /\ Die

Crash ==
    /\ process # "down"
    /\ restarts < MaxRestarts
    /\ Die

-----------------------------------------------------------------------------
\* What the process does by itself, once begun.
Proceed(c) ==
    \/ Throttle(c) \/ MarkRunning(c) \/ Register(c) \/ StartFails(c) \/ Start(c)
    \/ WriteProgress(c) \/ EndRun(c) \/ SaveOutcome(c) \/ Finalize(c) \/ SaveCancelled(c)
    \/ StartWaiting(c) \/ LoadWaiting(c) \/ RunEnqueued(c)

Next ==
    \/ \E c \in Calls :
          \/ Create(c) \/ Proceed(c) \/ MarkFails(c) \/ CheckFails(c) \/ PutToWait(c)
          \/ ReadProgress(c) \/ TimeOut(c) \/ ResumeByWebhook(c)
    \/ \E s \in Stops :
          \/ \E e \in Executions : ReadToStop(s, e)
          \/ StopQueued(s) \/ StopActive(s) \/ WriteStopped(s)
    \/ PollWaiting \/ ArmTimers
    \/ Recover \/ FindEnqueued \/ StopTracking \/ Drain \/ Exit \/ ForceExit \/ Crash

Spec == Init /\ [][Next]_vars

\* Queries return, workflows end (after finitely many progress saves) and timers fire; a process that is down is
\* started again; a shutdown ends by force at the latest.  Nobody has to trigger, stop, crash or shut down anything.
FairSpec ==
    /\ Spec
    /\ \A c \in Calls : WF_vars(Proceed(c)) /\ SF_vars(EndRun(c))
    /\ \A s \in Stops : WF_vars(StopQueued(s) \/ StopActive(s) \/ WriteStopped(s))
    /\ WF_vars(PollWaiting \/ ArmTimers)
    /\ WF_vars(Recover \/ FindEnqueued \/ ForceExit)

-----------------------------------------------------------------------------
TypeOK ==
    /\ db \in [Executions ->
          [status : {"none", "new", "running", "waiting", "success", "error", "canceled",
                     "crashed"},
           waitTill : BOOLEAN, finished : BOOLEAN]]
    /\ pc \in [Calls -> {"unused", "loading", "created", "throttled", "marked", "registered",
                         "running", "saving progress", "saving", "saved", "failing", "failed",
                         "over"}]
    /\ outcome \in [Calls -> {"none", "success", "error", "waiting"}]
    /\ activeExecutions \in [Executions -> ActiveExecution \cup {None}]
    /\ \A e \in Executions : Entry(e) # None => Id(Entry(e).call) = e
    /\ handled \subseteq Calls /\ cancelled \subseteq Calls
    /\ cancelWrites \subseteq Calls /\ detached \subseteq Calls
    /\ waitingExecutions \in [Executions -> {"none", "timer", "dead"}]
    /\ poll \subseteq Executions /\ enqueued \subseteq Executions
    /\ process \in {"down", "starting", "up", "stopping", "draining"}

\* A stop() of e that has acted but not yet written the row.
Stopping(e) ==
    \E s \in Stops : stop[s].at \in {"before run", "during run"} /\ stop[s].id = e

\* c will still write the row of its execution.
WillSave(c) ==
    \/ pc[c] \in {"marked", "registered", "saving", "failing"}
    \/ pc[c] \in {"running", "saving progress"} /\ c \notin cancelled
    \/ c \in cancelWrites

\* No execution is left showing as running: whatever stops, timeouts and
\* repeated resumptions did, somebody is still going to write its outcome,
\* unless its first call gave up as it found no entry for its response promise.
RunningRowIsPursued ==
    process # "down" =>
        \A e \in Executions : db[e].status = "running" =>
            \/ Stopping(e)
            \/ \E c \in Calls : Id(c) = e /\ (WillSave(c) \/ (pc[c] = "over" /\ Responds(c)))

\* An execution that was accepted is not forgotten, also not by a restart: a
\* row that is still new has a call on its way past the limiter, unless the
\* update of the row failed.
NewRowIsPursued ==
    process \in {"up", "stopping", "draining"} =>
        \A e \in Executions : db[e].status = "new" =>
            \/ e \in enqueued \/ Stopping(e)
            \/ \E c \in Calls :
                  /\ Id(c) = e
                  /\ \/ pc[c] = "created" \/ c \in detached
                     \/ pc[c] = "throttled" /\ request[c] # "idle"

\* A call that is over holds no capacity, unless its entry was replaced by a
\* second resumption, deleted by a stop or shutdown while its status was
\* already waiting, or never made because the update of the row failed.
LostSlotWasDetached ==
    \A c \in Calls : pc[c] = "over" /\ Unsettled(c) => c \in detached

\* Every accepted execution is run, in spite of crashes and shutdowns, unless
\* a slot was lost (or the bound MaxCalls is reached).
AcceptedIsRun ==
    \A e \in Executions :
        db[e].status = "new" ~>
            \/ db[e].status # "new" \/ detached # {}
            \/ \A c \in Calls : Id(c) = e => pc[c] = "over" \* the bound

\* What shutdown() waits for: an entry that shows running has a call that
\* will settle it or take its place.
RunningEntryIsLive ==
    \A e \in Executions : Entry(e) # None /\ Entry(e).status = "running" =>
        \E c \in Calls :
            /\ Id(c) = e
            /\ \/ pc[c] \in {"registered", "failing", "failed"}
               \/ pc[c] \in {"running", "saving progress", "saving", "saved"} /\ c \in handled

\* WaitTracker: "The execution did succeed and can so not be started again."
NotStartedAfterSuccess ==
    [][\A c \in Calls : pc[c] = "registered" /\ pc'[c] = "running" => ~db[Id(c)].finished]_vars
=============================================================================
