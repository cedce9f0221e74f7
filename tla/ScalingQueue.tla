---------------------------- MODULE ScalingQueue ----------------------------
(***************************************************************************)
(* The life of production executions in scaling mode: WorkflowRunner adds  *)
(* a Bull job and awaits its end, workers process jobs, executions are     *)
(* stopped by messages, jobs of dead workers stall and are processed again, *)
(* and the leader looks for dangling executions.                           *)
(*                                                                         *)
(* An attempt <<e, n>> is the n-th time a worker takes the job of e.  Bull *)
(* and Redis are modelled from how the code uses them.                     *)
(***************************************************************************)
EXTENDS Integers, FiniteSets

CONSTANTS Executions,      \* execution ids
          Mains, Workers,  \* processes
          MainOf,          \* the main process that is asked to run an execution
          FirstLeader,     \* the main that leads at the beginning
          None,            \* stands for undefined
          MaxStalledCount, \* QUEUE_WORKER_MAX_STALLED_COUNT
          WithResponse,    \* executions whose webhook waits for a response
          WithIssues,      \* executions whose workflow throws as it is started
          SaveProgress,    \* whether workflows save their execution progress
          Stops,           \* calls of ExecutionService.stop() that may be made
          MaxChains,       \* bound: chains of recovery timers in one main
          MaxFaults        \* bound: crashes, shutdowns, step-downs, lost locks, failures

ASSUME ScalingAssumption ==
    /\ IsFiniteSet(Executions) /\ IsFiniteSet(Mains) /\ IsFiniteSet(Workers)
    /\ MainOf \in [Executions -> Mains] /\ FirstLeader \in Mains
    /\ None \notin Mains \cup Workers
    /\ MaxStalledCount \in Nat /\ MaxFaults \in Nat
    /\ MaxChains \in Nat \ {0}
    /\ WithResponse \subseteq Executions /\ WithIssues \subseteq Executions
    /\ SaveProgress \in BOOLEAN

Attempts == Executions \X (1..(MaxStalledCount + 1))
Chains == 1..MaxChains

VARIABLES
    db,            \* the row of each execution
    pc,            \* where the call of run() for each execution is
    entry,         \* its entry in ActiveExecutions: none, added or attached
    stopping,      \* how far stopJob() is with the job of each execution
    stop,          \* per call of stop(): how far it is, and for which row
    job,           \* the Bull job of each execution
    attempt,       \* where each attempt is, and in which worker
    runningJobs,   \* per worker and job: the attempt in JobProcessor.runningJobs
    cancelled,     \* the attempts whose run was cancelled
    cancelWrites,  \* those among them whose onCancel hook still has to save
    aborts,        \* abort-job messages on their way to the workers
    main, worker,  \* up, stopping or down
    leader,        \* the main that leads, or None
    chain,         \* per main: chains of queue recovery timers and checks
    timeout,       \* per main: the chain that set queueRecoveryContext.timeout last
    reopened,      \* history: closed rows that a worker set to running again
    late,          \* history: jobs added while a check had read the jobs already
    caught,        \* history: step-downs that found the last timer's check under way
    faults         \* counter for the bound

calls == <<pc, entry>>
stops == <<stopping, stop>>
runs == <<attempt, runningJobs, cancelled, cancelWrites>>
workers == <<runs, aborts, worker>>
recovery == <<leader, chain, timeout, caught>>
mains == <<main, recovery>>
history == <<reopened, late>>
cancels == <<cancelled, cancelWrites, aborts>>
others == <<calls, stops, worker, mains>> \* what the run of a job leaves alone
vars == <<db, calls, stops, job, workers, mains, history, faults>>

Fault == faults < MaxFaults /\ faults' = faults + 1

Idle == [at |-> "off", ids |-> {}]

Init ==
    /\ db = [e \in Executions |-> [status |-> "none", finished |-> FALSE]]
    /\ pc = [e \in Executions |-> "unused"]
    /\ entry = [e \in Executions |-> "none"]
    /\ stopping = [e \in Executions |-> "no"]
    /\ stop = [s \in Stops |-> [at |-> "idle"]]
    /\ job = [e \in Executions |->
                [at |-> "none", worker |-> None, stalls |-> 0, reason |-> "none"]]
    /\ attempt = [a \in Attempts |-> [at |-> "none", worker |-> None]]
    /\ runningJobs = [w \in Workers |-> [e \in Executions |-> 0]]
    /\ cancelled = {}
    /\ cancelWrites = {}
    /\ aborts = {}
    /\ main = [m \in Mains |-> "up"]
    /\ worker = [w \in Workers |-> "up"]
    /\ leader = FirstLeader
    /\ chain = [m \in Mains |-> [k \in Chains |->
                  IF m = FirstLeader /\ k = 1 THEN [Idle EXCEPT !.at = "armed"] ELSE Idle]]
    /\ timeout = [m \in Mains |-> 1]
    /\ reopened = {}
    /\ late = {}
    /\ caught = [m \in Mains |-> 0]
    /\ faults = 0

-----------------------------------------------------------------------------
(* WorkflowRunner.run() and enqueueExecution() in a main                   *)

Goto(e, label) == pc' = [pc EXCEPT ![e] = label]

SetRow(e, status) ==
    db' = [db EXCEPT ![e] = [status |-> status, finished |-> status = "success"]]

Succeeded(e) == db[e] = [status |-> "success", finished |-> TRUE]

Open(e) == db[e].status \in {"new", "running"}

\* ActiveExecutions.finalizeExecution(): the entry is removed.
Finalize(e) == entry' = [entry EXCEPT ![e] = "none"]

\* add(): createNewExecution() ...
Create(e) ==
    /\ main[MainOf[e]] = "up"
    /\ pc[e] = "unused"
    /\ SetRow(e, "new")
    /\ Goto(e, "created")
    /\ UNCHANGED <<entry, stops, job, workers, mains, history, faults>>

\* ... and the entry.  The limiter is not asked in scaling mode.
Register(e) ==
    /\ pc[e] = "created"
    /\ entry' = [entry EXCEPT ![e] = "added"]
    /\ Goto(e, "registered")
    /\ UNCHANGED <<db, stops, job, workers, mains, history, faults>>

\* The credentials check fails: the run is saved as failed.
CheckFails(e) ==
    /\ pc[e] = "registered" /\ Fault
    /\ SetRow(e, "error")
    /\ Goto(e, "over") /\ Finalize(e)
    /\ UNCHANGED <<stops, job, workers, mains, history>>

\* attachResponsePromise() throws when the execution was stopped meanwhile.
AttachFails(e) ==
    /\ pc[e] = "registered"
    /\ e \in WithResponse /\ entry[e] = "none"
    /\ Goto(e, "over")
    /\ UNCHANGED <<db, entry, stops, job, workers, mains, history, faults>>

\* A recovery check has read the jobs.
Checking == \E m \in Mains, k \in Chains : chain[m][k].at = "jobs read"

AddJob(e) ==
    /\ pc[e] = "registered"
    /\ e \in WithResponse => entry[e] # "none"
    /\ job' = [job EXCEPT ![e].at = "waiting"]
    /\ Goto(e, "enqueued")
    /\ late' = late \cup {d \in {e} : Checking}
    /\ UNCHANGED <<db, entry, stops, workers, mains, reopened, faults>>

\* queue.add() rejects: processError().
AddFails(e) ==
    /\ pc[e] = "registered" /\ Fault
    /\ e \in WithResponse => entry[e] # "none"
    /\ Goto(e, "failing") /\ Finalize(e)
    /\ UNCHANGED <<db, stops, job, workers, mains, history>>

Ended(e) == job[e].at \in {"completed", "failed"}

\* The hook workflowExecuteBefore returned: await job.finished(), and attach
\* the PCancelable.  A job that ended and was removed before may not be heard of.
AwaitJob(e) ==
    /\ pc[e] = "enqueued"
    /\ entry' = [entry EXCEPT ![e] = IF @ = "added" THEN "attached" ELSE @]
    /\ \/ Goto(e, "awaiting")
       \/ Ended(e) /\ Goto(e, "unheard")
    /\ UNCHANGED <<db, stops, job, workers, mains, history, faults>>

\* job.finished() resolves: read the row, finalize.
JobFinished(e) ==
    /\ pc[e] = "awaiting" /\ job[e].at = "completed"
    /\ Goto(e, "over") /\ Finalize(e)
    /\ UNCHANGED <<db, stops, job, workers, mains, history, faults>>

\* job.finished() rejects: processError() does nothing for a cancelled one, or
\* one that is found to have succeeded; the call goes on to read and finalize.
JobFailed(e) ==
    /\ pc[e] = "awaiting" /\ job[e].at = "failed"
    /\ Finalize(e)
    /\ Goto(e, IF job[e].reason = "cancelled" \/ Succeeded(e) THEN "over" ELSE "failing")
    /\ UNCHANGED <<db, stops, job, workers, mains, history, faults>>

\* processError(): its workflowExecuteAfter hook saves the error.
SaveError(e) ==
    /\ pc[e] = "failing"
    /\ SetRow(e, "error")
    /\ Goto(e, "over")
    /\ UNCHANGED <<entry, stops, job, workers, mains, history, faults>>

-----------------------------------------------------------------------------
(* ExecutionService.stop() and ScalingService.stopJob()                    *)

\* Mutant: the entry stays until its job has ended.
StopKeepsEntry(E) ==
    /\ entry' = [e \in Executions |->
           IF e \in E /\ entry[e] = "added" THEN "none" ELSE entry[e]]
    /\ stopping' = [e \in Executions |->
           IF e \in E /\ entry[e] = "attached" THEN "asked" ELSE stopping[e]]

\* ActiveExecutions.stopExecution(): the entry goes, the run is cancelled.
StopExecutions(E) ==
    /\ entry' = [e \in Executions |-> IF e \in E THEN "none" ELSE entry[e]]
    /\ stopping' = [e \in Executions |->
           IF e \in E /\ entry[e] = "attached" THEN "asked" ELSE stopping[e]]

ReadToStop(s, e) ==
    /\ stop[s].at = "idle"
    /\ Open(e)
    /\ \E m \in {n \in Mains : main[n] # "down"} :
          stop' = [stop EXCEPT ![s] = [at |-> "read", id |-> e, main |-> m,
                                       finished |-> db[e].finished]]
    /\ UNCHANGED <<db, calls, stopping, job, workers, mains, history, faults>>

\* stopInScalingMode(): only the main that has the entry stops the run.
StopActive(s) ==
    /\ stop[s].at = "read"
    /\ StopExecutions({e \in {stop[s].id} : MainOf[e] = stop[s].main})
    /\ stop' = [stop EXCEPT ![s].at = "stopped"]
    /\ UNCHANGED <<db, pc, job, workers, mains, history, faults>>

\* stopDuringRun() writes the row it read back, as canceled.
WriteStopped(s) ==
    /\ stop[s].at = "stopped"
    /\ db' = [db EXCEPT ![stop[s].id] =
                 [status |-> "canceled", finished |-> stop[s].finished]]
    /\ stop' = [stop EXCEPT ![s] = [at |-> "done"]]
    /\ UNCHANGED <<calls, stopping, job, workers, mains, history, faults>>

\* stopJob(): is the job active?
AskActive(e) ==
    /\ stopping[e] = "asked"
    /\ stopping' = [stopping EXCEPT ![e] = IF job[e].at = "active" THEN "active" ELSE "inactive"]
    /\ UNCHANGED <<db, calls, stop, job, workers, mains, history, faults>>

\* job.remove() throws, and stopJob() gives up, when the job was picked up.
RemoveJob(e) ==
    /\ stopping[e] = "inactive"
    /\ stopping' = [stopping EXCEPT ![e] = "no"]
    /\ job' = [job EXCEPT ![e].at = IF @ = "waiting" THEN "removed" ELSE @]
    /\ UNCHANGED <<db, calls, stop, workers, mains, history, faults>>

AbortJob(e) ==
    /\ stopping[e] = "active"
    /\ stopping' = [stopping EXCEPT ![e] = "aborted"]
    /\ aborts' = aborts \cup {<<e, w>> : w \in {v \in Workers : worker[v] # "down"}}
    /\ UNCHANGED <<db, calls, stop, job, runs, worker, mains, history, faults>>

\* job.moveToFailed() without regard to the lock of the worker.
MoveToFailed(e) ==
    /\ stopping[e] = "aborted"
    /\ stopping' = [stopping EXCEPT ![e] = "no"]
    /\ job' = [job EXCEPT ![e] = IF @.at \in {"waiting", "active"}
                  THEN [@ EXCEPT !.at = "failed", !.reason = "cancelled"] ELSE @]
    /\ UNCHANGED <<db, calls, stop, workers, mains, history, faults>>

-----------------------------------------------------------------------------
(* JobProcessor.processJob() in a worker                                   *)

Id(a) == a[1]
Worker(a) == attempt[a].worker
At(a, labels) == attempt[a].at \in labels
Move(a, label) == attempt' = [attempt EXCEPT ![a].at = label]

\* Bull gives a waiting job to a worker.
PickUp(w, e) ==
    /\ worker[w] = "up" /\ job[e].at = "waiting"
    /\ job' = [job EXCEPT ![e].at = "active", ![e].worker = w]
    /\ attempt' = [attempt EXCEPT ![<<e, job[e].stalls + 1>>] = [at |-> "picked", worker |-> w]]
    /\ UNCHANGED <<others, db, runningJobs, cancels, history, faults>>

\* A crashed execution is not processed.
FindExecution(a) ==
    /\ At(a, {"picked"})
    /\ Move(a, IF db[Id(a)].status = "crashed" THEN "returning" ELSE "found")
    /\ UNCHANGED <<others, db, job, runningJobs, cancels, history, faults>>

Reopens(e) == reopened' = reopened \cup IF Open(e) THEN {} ELSE {e}

\* setRunning(), whatever the row says by now.
SetRunning(a) ==
    /\ At(a, {"found"})
    /\ db' = [db EXCEPT ![Id(a)].status = "running"]
    /\ Reopens(Id(a))
    /\ Move(a, "marked")
    /\ UNCHANGED <<others, job, runningJobs, cancels, late, faults>>

\* processRunExecutionData() throws: the job is to fail.
RunThrows(a) ==
    /\ At(a, {"marked"}) /\ Id(a) \in WithIssues
    /\ Move(a, "throwing")
    /\ UNCHANGED <<others, db, job, runningJobs, cancels, history, faults>>

StartRun(a) ==
    /\ At(a, {"marked"}) /\ Id(a) \notin WithIssues
    /\ Move(a, "running")
    /\ runningJobs' = [runningJobs EXCEPT ![Worker(a)][Id(a)] = a[2]]
    /\ UNCHANGED <<others, db, job, cancels, history, faults>>

\* stopJob() of the processor; it knows only runs that have started.
ReceiveAbort(e, w) ==
    LET run == {a \in Attempts : a = <<e, runningJobs[w][e]>>}
        pending == {a \in run \ cancelled :
                       At(a, {"running", "saving progress", "saving", "saving again"})}
    IN  /\ <<e, w>> \in aborts
        /\ aborts' = aborts \ {<<e, w>>}
        /\ cancelled' = cancelled \cup pending
        /\ cancelWrites' = cancelWrites \cup pending
        /\ runningJobs' = [runningJobs EXCEPT ![w][e] = 0]
        /\ UNCHANGED <<others, db, job, attempt, history, faults>>

\* The onCancel hook saves the run as canceled.
SaveCancelled(a) ==
    /\ a \in cancelWrites
    /\ cancelWrites' = cancelWrites \ {a}
    /\ SetRow(Id(a), "canceled")
    /\ UNCHANGED <<others, job, attempt, runningJobs, cancelled, aborts, history, faults>>

\* saveExecutionProgress(): read the row; skip if it is finished ...
ReadProgress(a) ==
    /\ SaveProgress
    /\ At(a, {"running"}) /\ a \notin cancelled
    /\ ~db[Id(a)].finished
    /\ Move(a, "saving progress")
    /\ UNCHANGED <<others, db, job, runningJobs, cancels, history, faults>>

\* ... and write it back as running, whatever it says by now.
WriteProgress(a) ==
    /\ At(a, {"saving progress"})
    /\ SetRow(Id(a), "running")
    /\ Reopens(Id(a))
    /\ Move(a, "running")
    /\ UNCHANGED <<others, job, runningJobs, cancels, late, faults>>

\* Mutant: the run stops counting before its hook has saved it.
EndRunUncounted(a) ==
    /\ At(a, {"running"})
    /\ Move(a, IF a \in cancelled THEN "ended" ELSE "saving")
    /\ runningJobs' = [runningJobs EXCEPT ![Worker(a)][Id(a)] = 0]
    /\ UNCHANGED <<others, db, job, cancels, history, faults>>

\* processSuccessExecution(): a cancelled run skips workflowExecuteAfter.
EndRun(a) ==
    /\ At(a, {"running"})
    /\ Move(a, IF a \in cancelled THEN "ended" ELSE "saving")
    /\ UNCHANGED <<others, db, job, runningJobs, cancels, history, faults>>

\* The hook saves the outcome ...
SaveOutcome(a) ==
    /\ At(a, {"saving"})
    /\ \E status \in {"success", "error"} : SetRow(Id(a), status)
    /\ Move(a, "ended")
    /\ UNCHANGED <<others, job, runningJobs, cancels, history, faults>>

\* Mutant: a failing hook ends the run.
SaveFailsOnce(a) ==
    /\ At(a, {"saving"}) /\ Fault
    /\ Move(a, "ended")
    /\ UNCHANGED <<others, db, job, runningJobs, cancels, history>>

\* ... or fails, and is run again for the error.
SaveFails(a) ==
    /\ At(a, {"saving"}) /\ Fault
    /\ Move(a, "saving again")
    /\ UNCHANGED <<others, db, job, runningJobs, cancels, history>>

SaveAgain(a) ==
    /\ At(a, {"saving again"})
    /\ SetRow(Id(a), "error")
    /\ Move(a, "ended")
    /\ UNCHANGED <<others, job, runningJobs, cancels, history, faults>>

\* The run has ended: it no longer counts as running.
RunEnded(a) ==
    /\ At(a, {"ended"})
    /\ runningJobs' = [runningJobs EXCEPT ![Worker(a)][Id(a)] = 0]
    /\ Move(a, "returning")
    /\ UNCHANGED <<others, db, job, cancels, history, faults>>

\* Bull takes the end of a job from the worker that holds its lock.
EndJob(a) ==
    LET held == job[Id(a)].at = "active" /\ job[Id(a)].worker = Worker(a)
    IN  /\ At(a, {"returning", "throwing"})
        /\ Move(a, "over")
        /\ job' = [job EXCEPT ![Id(a)] =
               IF ~held THEN @
               ELSE IF At(a, {"returning"}) THEN [@ EXCEPT !.at = "completed"]
               ELSE [@ EXCEPT !.at = "failed", !.reason = "error"]]
        /\ UNCHANGED <<others, db, runningJobs, cancels, history, faults>>

-----------------------------------------------------------------------------
(* Stalled jobs; start, shutdown and crash of a worker                     *)

Alive(a) == ~At(a, {"none", "over"})

\* Mutant: a stalled job is processed again however often.
StallForever(e) ==
    /\ job[e].at = "active"
    /\ \/ ~Alive(<<e, job[e].stalls + 1>>) /\ UNCHANGED faults
       \/ Alive(<<e, job[e].stalls + 1>>) /\ Fault
    /\ job' = [job EXCEPT ![e].at = "waiting", ![e].worker = None, ![e].stalls = @ + 1]
    /\ UNCHANGED <<db, calls, stops, workers, mains, history>>

\* The lock of a job runs out, as its worker is gone or too busy to renew it.
Stall(e) ==
    /\ job[e].at = "active"
    /\ \/ ~Alive(<<e, job[e].stalls + 1>>) /\ UNCHANGED faults
       \/ Alive(<<e, job[e].stalls + 1>>) /\ Fault
    /\ job' = [job EXCEPT ![e] =
           IF @.stalls < MaxStalledCount
           THEN [@ EXCEPT !.at = "waiting", !.worker = None,
                         !.stalls = job[e].stalls + 1]
           ELSE [@ EXCEPT !.at = "failed", !.reason = "stalled"]]
    /\ UNCHANGED <<db, calls, stops, workers, mains, history>>

\* The memory of a worker is gone.
WorkerDies(w) ==
    LET gone == {a \in Attempts : Worker(a) = w}
    IN  /\ worker' = [worker EXCEPT ![w] = "down"]
        /\ attempt' = [a \in Attempts |->
               IF a \in gone THEN [attempt[a] EXCEPT !.at = "over"] ELSE attempt[a]]
        /\ runningJobs' = [runningJobs EXCEPT ![w] = [e \in Executions |-> 0]]
        /\ cancelled' = cancelled \ gone
        /\ cancelWrites' = cancelWrites \ gone
        /\ aborts' = {b \in aborts : b[2] # w}
        /\ UNCHANGED <<db, calls, stops, job, mains, history>>

WorkerCrashes(w) == worker[w] # "down" /\ Fault /\ WorkerDies(w)

\* stopWorker(): pick up no more jobs ...
StopWorker(w) ==
    /\ worker[w] = "up" /\ Fault
    /\ worker' = [worker EXCEPT ![w] = "stopping"]
    /\ UNCHANGED <<db, calls, stops, job, runs, aborts, mains, history>>

\* ... and exit when no run is left.
ExitWorker(w) ==
    /\ worker[w] = "stopping"
    /\ \A e \in Executions : runningJobs[w][e] = 0
    /\ WorkerDies(w)
    /\ UNCHANGED faults

StartWorker(w) ==
    /\ worker[w] = "down"
    /\ worker' = [worker EXCEPT ![w] = "up"]
    /\ UNCHANGED <<db, calls, stops, job, runs, aborts, mains, history, faults>>

-----------------------------------------------------------------------------
(* Leadership and queue recovery                                           *)

SetChain(m, k, at, ids) == chain' = [chain EXCEPT ![m][k] = [at |-> at, ids |-> ids]]

\* scheduleQueueRecovery()
Schedule(m, k) ==
    /\ SetChain(m, k, "armed", {})
    /\ timeout' = [timeout EXCEPT ![m] = k]

\* leader-takeover
TakeOver(m) ==
    /\ leader = None /\ main[m] = "up"
    /\ leader' = m
    /\ \E k \in Chains : /\ chain[m][k].at = "off"
                         /\ \A j \in 1..(k - 1) : chain[m][j].at # "off"
                         /\ Schedule(m, k)
    /\ UNCHANGED <<db, calls, stops, job, workers, main, caught, history, faults>>

\* stopQueueRecovery() clears the last timer, if that has not fired.
StopRecovery(m) ==
    LET k == timeout[m]
    IN  IF chain[m][k].at = "armed"
        THEN SetChain(m, k, "off", {}) /\ UNCHANGED caught
        ELSE /\ caught' = [caught EXCEPT ![m] = @ + 1]
             /\ UNCHANGED chain

\* leader-stepdown
StepDown(m) ==
    /\ leader = m /\ Fault
    /\ leader' = None
    /\ StopRecovery(m)
    /\ UNCHANGED <<db, calls, stops, job, workers, main, timeout, history>>

\* Mutant: rows that are new are not looked for.
GetRunning(m, k) ==
    LET ids == {e \in Executions : db[e].status = "running"}
    IN  /\ chain[m][k].at = "armed"
        /\ IF ids = {} THEN Schedule(m, k)
           ELSE SetChain(m, k, "rows read", ids) /\ UNCHANGED timeout
        /\ UNCHANGED <<db, calls, stops, job, workers, main, leader, caught, history, faults>>

\* recoverFromQueue(): read the open rows ...
GetInProgress(m, k) ==
    LET ids == {e \in Executions : Open(e)}
    IN  /\ chain[m][k].at = "armed"
        /\ IF ids = {} THEN Schedule(m, k)
           ELSE SetChain(m, k, "rows read", ids) /\ UNCHANGED timeout
        /\ UNCHANGED <<db, calls, stops, job, workers, main, leader, caught, history, faults>>

Queued == {e \in Executions : job[e].at \in {"active", "waiting"}}

\* Mutant: only waiting jobs are looked for.
FindWaitingJobs(m, k) ==
    LET danglingIds == chain[m][k].ids \ {e \in Executions : job[e].at = "waiting"}
    IN  /\ chain[m][k].at = "rows read"
        /\ IF Queued = {} \/ danglingIds = {} THEN Schedule(m, k)
           ELSE SetChain(m, k, "jobs read", danglingIds) /\ UNCHANGED timeout
        /\ UNCHANGED <<db, calls, stops, job, workers, main, leader, caught, history, faults>>

\* ... then the jobs ...
FindJobs(m, k) ==
    LET danglingIds == chain[m][k].ids \ Queued
    IN  /\ chain[m][k].at = "rows read"
        /\ IF Queued = {} \/ danglingIds = {} THEN Schedule(m, k)
           ELSE SetChain(m, k, "jobs read", danglingIds) /\ UNCHANGED timeout
        /\ UNCHANGED <<db, calls, stops, job, workers, main, leader, caught, history, faults>>

\* ... and mark the rest, whatever the rows say by now.
MarkAsCrashed(m, k) ==
    /\ chain[m][k].at = "jobs read"
    /\ db' = [e \in Executions |-> IF e \in chain[m][k].ids
                 THEN [db[e] EXCEPT !.status = "crashed"] ELSE db[e]]
    /\ Schedule(m, k)
    /\ UNCHANGED <<calls, stops, job, workers, main, leader, caught, history, faults>>

\* Mutant: no catch block.
RecoveryFailsForGood(m, k) ==
    /\ chain[m][k].at \in {"rows read", "jobs read"} /\ Fault
    /\ SetChain(m, k, "off", {})
    /\ UNCHANGED <<db, calls, stops, job, workers, main, leader, timeout, caught, history>>

RecoveryFails(m, k) ==
    /\ chain[m][k].at \in {"rows read", "jobs read"} /\ Fault
    /\ Schedule(m, k)
    /\ UNCHANGED <<db, calls, stops, job, workers, main, leader, caught, history>>

-----------------------------------------------------------------------------
(* Start, shutdown and crash of a main                                     *)

Of(m) == {e \in Executions : MainOf[e] = m}

\* The memory of a main is gone, with its calls.
MainDies(m) ==
    /\ main' = [main EXCEPT ![m] = "down"]
    /\ pc' = [e \in Executions |->
           IF e \in Of(m) /\ pc[e] # "unused" THEN "lost" ELSE pc[e]]
    /\ entry' = [e \in Executions |-> IF e \in Of(m) THEN "none" ELSE entry[e]]
    /\ stopping' = [e \in Executions |-> IF e \in Of(m) THEN "no" ELSE stopping[e]]
    /\ stop' = [s \in Stops |-> IF stop[s].at \in {"read", "stopped"} /\ stop[s].main = m
                                THEN [at |-> "done"] ELSE stop[s]]
    /\ leader' = IF leader = m THEN None ELSE leader
    /\ chain' = [chain EXCEPT ![m] = [k \in Chains |-> Idle]]
    /\ caught' = [caught EXCEPT ![m] = 0]
    /\ UNCHANGED <<db, job, workers, timeout, history>>

MainCrashes(m) == main[m] # "down" /\ Fault /\ MainDies(m)

\* stopMain() and ActiveExecutions.shutdown(): recovery stops, executions with
\* a response promise are stopped, the others awaited.
StopMain(m) ==
    /\ main[m] = "up" /\ Fault
    /\ main' = [main EXCEPT ![m] = "stopping"]
    /\ StopExecutions({e \in Of(m) \cap WithResponse : pc[e] \notin {"created", "registered"}})
    /\ leader' = IF leader = m THEN None ELSE leader
    /\ chain' = [chain EXCEPT ![m][timeout[m]] = IF @.at = "armed" THEN Idle ELSE @]
    /\ UNCHANGED <<db, pc, stop, job, workers, timeout, caught, history>>

ExitMain(m) ==
    /\ main[m] = "stopping"
    /\ \A e \in Of(m) : entry[e] = "none"
    /\ MainDies(m)
    /\ UNCHANGED faults

\* The force-shutdown timer.
ForceExit(m) ==
    /\ main[m] = "stopping"
    /\ MainDies(m)
    /\ UNCHANGED faults

StartMain(m) ==
    /\ main[m] = "down"
    /\ main' = [main EXCEPT ![m] = "up"]
    /\ UNCHANGED <<db, calls, stops, job, workers, recovery, history, faults>>

-----------------------------------------------------------------------------

Call(e) ==
    \/ Create(e) \/ Register(e) \/ CheckFails(e) \/ AttachFails(e)
    \/ AddJob(e) \/ AddFails(e) \/ AwaitJob(e)
    \/ JobFinished(e) \/ JobFailed(e) \/ SaveError(e)

StopJob(e) == AskActive(e) \/ RemoveJob(e) \/ AbortJob(e) \/ MoveToFailed(e)

StopCall(s) == (\E e \in Executions : ReadToStop(s, e)) \/ StopActive(s) \/ WriteStopped(s)

ProcessJob(a) ==
    \/ FindExecution(a) \/ SetRunning(a) \/ RunThrows(a) \/ StartRun(a)
    \/ ReadProgress(a) \/ WriteProgress(a) \/ EndRun(a)
    \/ SaveOutcome(a) \/ SaveFails(a) \/ SaveAgain(a) \/ SaveCancelled(a)
    \/ RunEnded(a) \/ EndJob(a)

WorkerStep(w) ==
    \/ \E e \in Executions : PickUp(w, e) \/ ReceiveAbort(e, w)
    \/ WorkerCrashes(w) \/ StopWorker(w) \/ ExitWorker(w) \/ StartWorker(w)

Recovery(m, k) ==
    GetInProgress(m, k) \/ FindJobs(m, k) \/ MarkAsCrashed(m, k) \/ RecoveryFails(m, k)

MainStep(m) ==
    \/ TakeOver(m) \/ StepDown(m) \/ (\E k \in Chains : Recovery(m, k))
    \/ MainCrashes(m) \/ StopMain(m) \/ ExitMain(m)
    \/ ForceExit(m) \/ StartMain(m)

Next ==
    \/ \E e \in Executions : Call(e) \/ StopJob(e) \/ Stall(e)
    \/ \E s \in Stops : StopCall(s)
    \/ \E a \in Attempts : ProcessJob(a)
    \/ \E w \in Workers : WorkerStep(w)
    \/ \E m \in Mains : MainStep(m)

Spec == Init /\ [][Next]_vars

\* Queries and Redis answer, timers fire, processes come back, a leader is found.
\* Triggers, stops, shutdowns and faults are not fair.
Fairness ==
    /\ \A e \in Executions :
          /\ WF_vars(Register(e)) /\ WF_vars(AttachFails(e)) /\ WF_vars(AddJob(e))
          /\ WF_vars(AwaitJob(e)) /\ WF_vars(JobFinished(e)) /\ WF_vars(JobFailed(e))
          /\ WF_vars(SaveError(e)) /\ WF_vars(StopJob(e))
          /\ WF_vars(Stall(e) /\ UNCHANGED faults)
          /\ WF_vars(\E w \in Workers : PickUp(w, e))
    /\ \A s \in Stops : WF_vars(StopActive(s)) /\ WF_vars(WriteStopped(s))
    /\ \A a \in Attempts :
          /\ WF_vars(FindExecution(a) \/ SetRunning(a) \/ RunThrows(a) \/ StartRun(a))
          /\ WF_vars(WriteProgress(a))
          /\ WF_vars(SaveOutcome(a)) /\ WF_vars(SaveAgain(a)) /\ WF_vars(SaveCancelled(a))
          /\ WF_vars(RunEnded(a) \/ EndJob(a))
    /\ \A w \in Workers :
          /\ WF_vars(ExitWorker(w)) /\ WF_vars(StartWorker(w))
          /\ \A e \in Executions : WF_vars(ReceiveAbort(e, w))
    /\ \A m \in Mains :
          /\ WF_vars(ExitMain(m)) /\ WF_vars(StartMain(m)) /\ WF_vars(TakeOver(m))
          /\ \A k \in Chains : /\ WF_vars(GetInProgress(m, k)) /\ WF_vars(FindJobs(m, k))
                               /\ WF_vars(MarkAsCrashed(m, k))

\* A workflow may run on, but a shutdown is ended by its timer.
TimedSpec == Spec /\ Fairness /\ \A m \in Mains : WF_vars(ForceExit(m))

\* Workflows end, and no timer helps.
EndingSpec == Spec /\ Fairness /\ \A a \in Attempts : SF_vars(EndRun(a))

-----------------------------------------------------------------------------
(* Properties                                                              *)

Statuses == {"none", "new", "running", "success", "error", "canceled", "crashed"}

\* Type invariant.
TypeOK ==
    /\ db \in [Executions -> [status : Statuses, finished : BOOLEAN]]
    /\ pc \in [Executions -> {"unused", "created", "registered", "enqueued", "awaiting",
                              "failing", "unheard", "over", "lost"}]
    /\ entry \in [Executions -> {"none", "added", "attached"}]
    /\ stopping \in [Executions -> {"no", "asked", "active", "inactive", "aborted"}]
    /\ \A s \in Stops : stop[s].at \in {"idle", "read", "stopped", "done"}
    /\ job \in [Executions ->
           [at : {"none", "waiting", "active", "completed", "failed", "removed"},
            worker : Workers \cup {None}, stalls : 0..MaxStalledCount,
            reason : {"none", "cancelled", "error", "stalled"}]]
    /\ attempt \in [Attempts ->
           [at : {"none", "picked", "found", "marked", "throwing", "running",
                  "saving progress", "saving", "saving again", "ended", "returning", "over"},
            worker : Workers \cup {None}]]
    /\ runningJobs \in [Workers -> [Executions -> 0..(MaxStalledCount + 1)]]
    /\ cancelWrites \subseteq cancelled /\ cancelled \subseteq Attempts
    /\ aborts \subseteq Executions \X Workers
    /\ main \in [Mains -> {"up", "stopping", "down"}]
    /\ worker \in [Workers -> {"up", "stopping", "down"}]
    /\ leader \in Mains \cup {None}
    /\ chain \in [Mains -> [Chains -> [at : {"off", "armed", "rows read", "jobs read"},
                                       ids : SUBSET Executions]]]
    /\ timeout \in [Mains -> Chains]
    /\ reopened \subseteq Executions /\ late \subseteq Executions
    /\ caught \in [Mains -> Nat]
    /\ faults \in 0..MaxFaults

\* Somebody is going to write the row of e once more.
Pursued(e) ==
    \/ pc[e] \in {"created", "registered", "enqueued", "failing"}
    \/ pc[e] = "awaiting" /\ job[e].at = "failed" /\ job[e].reason # "cancelled"
    \/ e \in Queued
    \/ \E a \in Attempts : Id(a) = e /\ (Alive(a) \/ a \in cancelWrites)
    \/ \E s \in Stops : stop[s].at \in {"read", "stopped"} /\ stop[s].id = e

\* A row that is new or running is pursued, unless the main that is to hear of
\* it is gone, is stopping, or missed the end of the job, or a worker opened the
\* row again after it was closed.
OpenRowIsPursued ==
    \A e \in Executions :
        Open(e) => \/ Pursued(e) \/ pc[e] \in {"lost", "unheard"} \/ e \in reopened
                   \/ main[MainOf[e]] = "stopping"

\* stopWorker() waits for every run: a run that was not cancelled counts in
\* runningJobs until it is saved, unless its worker took the stalled job twice.
RunIsCounted ==
    \A a \in Attempts :
        /\ At(a, {"running", "saving progress", "saving", "saving again"})
        /\ a \notin cancelled
        => \/ runningJobs[Worker(a)][Id(a)] = a[2]
           \/ \E b \in Attempts \ {a} : Id(b) = Id(a) /\ Worker(b) = Worker(a)

\* A recovery check marks no execution as crashed whose job is in the queue,
\* except one whose job was added after a check had read the jobs.
QueuedIsNotMarked ==
    [][\A e \in Executions :
          db[e].status # "crashed" /\ db'[e].status = "crashed" /\ e \in Queued => e \in late]_vars

\* The leader has a chain of recovery checks, whatever fails; beyond that a main
\* has as many chains as step-downs came while a check was under way.
ChainsAccounted ==
    \A m \in Mains :
        main[m] = "up" =>
            Cardinality({k \in Chains : chain[m][k].at # "off"})
               = caught[m] + IF leader = m THEN 1 ELSE 0

\* Provided that workflows end, an entry of ActiveExecutions goes, so that a
\* main can exit, unless it missed the end of the job.
EntryIsSettled ==
    \A e \in Executions : entry[e] # "none" ~> entry[e] = "none" \/ pc[e] = "unheard"

\* An open row that nobody pursues is marked by a later check, unless one finds
\* the queue empty.
DanglingIsMarked ==
    \A e \in Executions :
        Open(e) /\ ~Pursued(e) ~> ~Open(e) \/ Pursued(e) \/ Queued = {}

=============================================================================
