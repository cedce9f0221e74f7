------------------------- MODULE ScalingQueueProofs -------------------------
(***************************************************************************)
(* The queue of the scaling mode for any number of executions, mains and   *)
(* workers, and any number of faults: types, recovery checks, the runs a   *)
(* worker waits for, and what becomes of an open row.                      *)
(*                                                                         *)
(* An open row is pursued since everything that takes a hand off it has    *)
(* settled it: the row is closed, or a stop is about to close it, or the   *)
(* execution is one of the exceptions that OpenRowIsPursued names.  Being  *)
(* settled is stable, which makes the places that know of it independent.  *)
(***************************************************************************)
EXTENDS ScalingQueue, FiniteSetTheorems, TLAPS

-----------------------------------------------------------------------------
(* Types                                                                   *)

\* The type invariant in parts, so that a step has to show only those it touches.  A call of
\* stop() has read a row, and knows it until the row is written.
RowTypes == db \in [Executions -> [status : Statuses, finished : BOOLEAN]]
CallTypes ==
    /\ pc \in [Executions -> {"unused", "created", "registered", "enqueued", "awaiting",
                              "failing", "unheard", "over", "lost"}]
    /\ entry \in [Executions -> {"none", "added", "attached"}]
StopTypes ==
    /\ stopping \in [Executions -> {"no", "asked", "active", "inactive", "aborted"}]
    /\ stop \in [Stops -> [at : {"idle", "done"}] \cup
                          [at : {"read", "stopped"}, id : Executions, main : Mains,
                           finished : BOOLEAN]]
JobTypes ==
    job \in [Executions ->
           [at : {"none", "waiting", "active", "completed", "failed", "removed"},
            worker : Workers \cup {None}, stalls : 0..MaxStalledCount,
            reason : {"none", "cancelled", "error", "stalled"}]]
AttemptTypes ==
    attempt \in [Attempts ->
           [at : {"none", "picked", "found", "marked", "throwing", "running",
                  "saving progress", "saving", "saving again", "ended", "returning", "over"},
            worker : Workers \cup {None}]]
CountTypes == runningJobs \in [Workers -> [Executions -> 0..(MaxStalledCount + 1)]]
CancelTypes ==
    /\ cancelWrites \subseteq cancelled /\ cancelled \subseteq Attempts
    /\ aborts \subseteq Executions \X Workers
ProcessTypes ==
    /\ main \in [Mains -> {"up", "stopping", "down"}]
    /\ worker \in [Workers -> {"up", "stopping", "down"}]
RecoveryTypes ==
    /\ leader \in Mains \cup {None}
    /\ chain \in [Mains -> [Chains -> [at : {"off", "armed", "rows read", "jobs read"},
                                       ids : SUBSET Executions]]]
    /\ timeout \in [Mains -> Chains]
    /\ caught \in [Mains -> Nat]
HistoryTypes == reopened \subseteq Executions /\ late \subseteq Executions
FaultTypes == faults \in 0..MaxFaults

Types ==
    /\ RowTypes /\ CallTypes /\ StopTypes /\ JobTypes /\ AttemptTypes /\ CountTypes
    /\ CancelTypes /\ ProcessTypes /\ RecoveryTypes /\ HistoryTypes /\ FaultTypes

\* Together the parts are the type invariant.
LEMMA TypesTypeOK == Types => TypeOK
  BY ZenonT(60) DEF Types, RowTypes, CallTypes, StopTypes, JobTypes, AttemptTypes, CountTypes,
         CancelTypes, ProcessTypes, RecoveryTypes, HistoryTypes, FaultTypes, TypeOK

\* The types hold at the start.
LEMMA InitTypes == Init => Types
  <1> SUFFICES ASSUME Init PROVE Types
    OBVIOUS
  <1> USE ScalingAssumption
  <1>1. RowTypes /\ CallTypes /\ CancelTypes /\ ProcessTypes /\ HistoryTypes /\ FaultTypes
    BY DEF Init, RowTypes, CallTypes, CancelTypes, ProcessTypes, HistoryTypes, FaultTypes,
           Statuses
  <1>2. StopTypes
    BY DEF Init, StopTypes
  <1>3. JobTypes
    BY DEF Init, JobTypes
  <1>4. AttemptTypes
    BY DEF Init, AttemptTypes
  <1>5. CountTypes
    BY DEF Init, CountTypes
  <1>6. RecoveryTypes
    <2>1. 1 \in Chains
      BY DEF Chains
    <2> DEFINE Chain == [at : {"off", "armed", "rows read", "jobs read"}, ids : SUBSET Executions]
    <2>2. Idle \in Chain /\ [Idle EXCEPT !.at = "armed"] \in Chain
      BY DEF Idle
    <2> HIDE DEF Chain
    <2>3. chain \in [Mains -> [Chains -> Chain]]
      BY <2>2 DEF Init
    <2>4. timeout \in [Mains -> Chains] /\ caught \in [Mains -> Nat] /\ leader \in Mains
      BY <2>1 DEF Init
    <2> QED BY <2>3, <2>4 DEF RecoveryTypes, Chain
  <1> QED BY <1>1, <1>2, <1>3, <1>4, <1>5, <1>6 DEF Types

\* What a step leaves alone keeps its type; the faults stay within their bound.
LEMMA Unchanged ==
    ASSUME Types
    PROVE /\ UNCHANGED db => RowTypes'
          /\ UNCHANGED <<pc, entry>> => CallTypes'
          /\ UNCHANGED <<stopping, stop>> => StopTypes'
          /\ UNCHANGED job => JobTypes'
          /\ UNCHANGED attempt => AttemptTypes'
          /\ UNCHANGED runningJobs => CountTypes'
          /\ UNCHANGED <<cancelled, cancelWrites, aborts>> => CancelTypes'
          /\ UNCHANGED <<main, worker>> => ProcessTypes'
          /\ UNCHANGED <<leader, chain, timeout, caught>> => RecoveryTypes'
          /\ UNCHANGED <<reopened, late>> => HistoryTypes'
          /\ UNCHANGED faults \/ Fault => FaultTypes'
  <1>1. UNCHANGED faults \/ Fault => FaultTypes'
    BY ScalingAssumption DEF Types, FaultTypes, Fault
  <1> QED
    BY <1>1, ZenonT(60) DEF Types, RowTypes, CallTypes, StopTypes, JobTypes, AttemptTypes,
           CountTypes, CancelTypes, ProcessTypes, RecoveryTypes, HistoryTypes

\* Writing a status into a row keeps the types of the rows.
LEMMA RowsKept ==
    ASSUME RowTypes, NEW e \in Executions, NEW status \in Statuses, SetRow(e, status)
    PROVE RowTypes'
  BY DEF RowTypes, SetRow

\* run() and enqueueExecution() keep the types.
LEMMA CallsTyped ==
    ASSUME Types, NEW e \in Executions, Call(e)
    PROVE Types'
  <1> USE Unchanged DEF calls, stops, runs, workers, recovery, mains, history
  <1>0. RowTypes /\ CallTypes /\ JobTypes /\ HistoryTypes
    BY DEF Types
  <1>1. CASE Create(e)
    BY <1>0, <1>1, RowsKept DEF Create, CallTypes, Goto, Types, Statuses
  <1>2. CASE Register(e)
    BY <1>0, <1>2 DEF Register, CallTypes, Goto, Types
  <1>3. CASE CheckFails(e)
    BY <1>0, <1>3, RowsKept DEF CheckFails, CallTypes, Goto, Finalize, Types, Statuses
  <1>4. CASE AttachFails(e)
    BY <1>0, <1>4 DEF AttachFails, CallTypes, Goto, Types
  <1>5. CASE AddJob(e)
    BY <1>0, <1>5 DEF AddJob, CallTypes, JobTypes, HistoryTypes, Goto, Types
  <1>6. CASE AddFails(e)
    BY <1>0, <1>6 DEF AddFails, CallTypes, Goto, Finalize, Types
  <1>7. CASE AwaitJob(e)
    BY <1>0, <1>7 DEF AwaitJob, CallTypes, Goto, Types
  <1>8. CASE JobFinished(e)
    BY <1>0, <1>8 DEF JobFinished, CallTypes, Goto, Finalize, Types
  <1>9. CASE JobFailed(e)
    BY <1>0, <1>9 DEF JobFailed, CallTypes, Goto, Finalize, Types
  <1>10. CASE SaveError(e)
    BY <1>0, <1>10, RowsKept DEF SaveError, CallTypes, Goto, Types, Statuses
  <1> QED BY <1>1, <1>2, <1>3, <1>4, <1>5, <1>6, <1>7, <1>8, <1>9, <1>10 DEF Call

\* stopJob() and Bull's handling of a stalled job keep the types: a stalled job goes back
\* to the queue only while its count is below the maximum.
LEMMA StopJobsTyped ==
    ASSUME Types, NEW e \in Executions, StopJob(e) \/ Stall(e)
    PROVE Types'
  <1> USE Unchanged DEF calls, stops, runs, workers, recovery, mains, history
  <1>0. StopTypes /\ JobTypes /\ CancelTypes
    BY DEF Types
  <1>1. CASE AskActive(e)
    BY <1>0, <1>1 DEF AskActive, StopTypes, Types
  <1>2. CASE RemoveJob(e)
    <2>1. StopTypes'
      BY <1>0, <1>2 DEF RemoveJob, StopTypes
    <2>2. JobTypes'
      BY <1>0, <1>2 DEF RemoveJob, JobTypes
    <2> QED BY <1>2, <2>1, <2>2 DEF RemoveJob, Types
  <1>3. CASE AbortJob(e)
    BY <1>0, <1>3 DEF AbortJob, StopTypes, CancelTypes, Types
  <1>4. CASE MoveToFailed(e)
    <2>1. StopTypes'
      BY <1>0, <1>4 DEF MoveToFailed, StopTypes
    <2>2. JobTypes'
      BY <1>0, <1>4 DEF MoveToFailed, JobTypes
    <2> QED BY <1>4, <2>1, <2>2 DEF MoveToFailed, Types
  <1>5. CASE Stall(e)
    <2>1. CASE job[e].stalls < MaxStalledCount
      <3>1. job' = [job EXCEPT ![e] = [job[e] EXCEPT !.at = "waiting", !.worker = None,
                                                     !.stalls = job[e].stalls + 1]]
        BY <1>5, <2>1, Zenon DEF Stall
      <3>2. job[e].stalls + 1 \in 0..MaxStalledCount
        BY <1>0, <2>1, ScalingAssumption DEF JobTypes
      <3>3. JobTypes'
        BY <1>0, <3>1, <3>2 DEF JobTypes
      <3> QED BY <1>5, <3>3 DEF Stall, Types
    <2>2. CASE ~(job[e].stalls < MaxStalledCount)
      <3>1. job' = [job EXCEPT ![e] = [job[e] EXCEPT !.at = "failed", !.reason = "stalled"]]
        BY <1>5, <2>2, Zenon DEF Stall
      <3>2. JobTypes'
        BY <1>0, <3>1 DEF JobTypes
      <3> QED BY <1>5, <3>2 DEF Stall, Types
    <2> QED BY <2>1, <2>2
  <1> QED BY <1>1, <1>2, <1>3, <1>4, <1>5 DEF StopJob

\* stop() keeps the types: what it writes back is the row it read.
LEMMA StopCallsTyped ==
    ASSUME Types, NEW s \in Stops, StopCall(s)
    PROVE Types'
  <1> USE Unchanged DEF calls, stops, runs, workers, recovery, mains, history
  <1>0. StopTypes /\ CallTypes /\ RowTypes
    BY DEF Types
  <1>1. CASE \E e \in Executions : ReadToStop(s, e)
    <2>1. StopTypes'
      BY <1>0, <1>1 DEF ReadToStop, StopTypes, RowTypes
    <2> QED BY <1>1, <2>1 DEF ReadToStop, Types
  <1>2. CASE StopActive(s)
    <2>1. stop[s].id \in Executions
      BY <1>0, <1>2 DEF StopActive, StopTypes
    <2>2. CallTypes'
      BY <1>0, <1>2 DEF StopActive, StopExecutions, CallTypes
    <2>3. StopTypes'
      BY <1>0, <1>2 DEF StopActive, StopExecutions, StopTypes
    <2> QED BY <1>2, <2>2, <2>3 DEF StopActive, Types
  <1>3. CASE WriteStopped(s)
    <2>1. StopTypes'
      BY <1>0, <1>3 DEF WriteStopped, StopTypes
    <2>2. RowTypes'
      BY <1>0, <1>3 DEF WriteStopped, RowTypes, StopTypes, Statuses
    <2> QED BY <1>3, <2>1, <2>2 DEF WriteStopped, Types
  <1> QED BY <1>1, <1>2, <1>3 DEF StopCall

\* The processing of a job in a worker keeps the types.
LEMMA ProcessJobTyped ==
    ASSUME Types, NEW a \in Attempts, ProcessJob(a)
    PROVE Types'
  <1> USE Unchanged DEF calls, stops, runs, workers, recovery, mains, history, others, cancels
  <1>0. AttemptTypes /\ CountTypes /\ RowTypes /\ JobTypes /\ HistoryTypes /\ CancelTypes
    BY DEF Types
  <1>0a. a[1] \in Executions /\ a[2] \in 1..(MaxStalledCount + 1)
    BY DEF Attempts
  <1>0b. ASSUME NEW label \in {"none", "picked", "found", "marked", "throwing", "running",
                  "saving progress", "saving", "saving again", "ended", "returning", "over"},
                Move(a, label)
         PROVE AttemptTypes'
    BY <1>0, <1>0b DEF Move, AttemptTypes
  <1>0c. ASSUME NEW e \in Executions, Reopens(e), UNCHANGED late
         PROVE HistoryTypes'
    BY <1>0, <1>0c DEF Reopens, HistoryTypes
  <1>1. CASE FindExecution(a)
    BY <1>0b, <1>1 DEF FindExecution, Types
  <1>2. CASE SetRunning(a)
    <2>1. RowTypes'
      BY <1>0, <1>0a, <1>2 DEF SetRunning, RowTypes, Statuses, Id
    <2> QED BY <1>0a, <1>0b, <1>0c, <1>2, <2>1 DEF SetRunning, Types, Id
  <1>3. CASE RunThrows(a)
    BY <1>0b, <1>3 DEF RunThrows, Types
  <1>4. CASE StartRun(a)
    <2>1. CountTypes'
      BY <1>0, <1>0a, <1>4, ScalingAssumption DEF StartRun, CountTypes, Id
    <2> QED BY <1>0b, <1>4, <2>1 DEF StartRun, Types
  <1>5. CASE ReadProgress(a)
    BY <1>0b, <1>5 DEF ReadProgress, Types
  <1>6. CASE WriteProgress(a)
    <2>1. RowTypes'
      BY <1>0, <1>0a, <1>6, RowsKept DEF WriteProgress, Statuses, Id
    <2> QED BY <1>0a, <1>0b, <1>0c, <1>6, <2>1 DEF WriteProgress, Types, Id
  <1>7. CASE EndRun(a)
    BY <1>0b, <1>7 DEF EndRun, Types
  <1>8. CASE SaveOutcome(a)
    <2>1. RowTypes'
      BY <1>0, <1>0a, <1>8, RowsKept DEF SaveOutcome, Statuses, Id
    <2> QED BY <1>0b, <1>8, <2>1 DEF SaveOutcome, Types
  <1>9. CASE SaveFails(a)
    BY <1>0b, <1>9 DEF SaveFails, Types
  <1>10. CASE SaveAgain(a)
    <2>1. RowTypes'
      BY <1>0, <1>0a, <1>10, RowsKept DEF SaveAgain, Statuses, Id
    <2> QED BY <1>0b, <1>10, <2>1 DEF SaveAgain, Types
  <1>11. CASE SaveCancelled(a)
    <2>1. RowTypes'
      BY <1>0, <1>0a, <1>11, RowsKept DEF SaveCancelled, Statuses, Id
    <2>2. CancelTypes'
      BY <1>0, <1>11 DEF SaveCancelled, CancelTypes
    <2> QED BY <1>11, <2>1, <2>2 DEF SaveCancelled, Types
  <1>12. CASE RunEnded(a)
    <2>1. CountTypes'
      BY <1>0, <1>0a, <1>12, ScalingAssumption DEF RunEnded, CountTypes, Id
    <2> QED BY <1>0b, <1>12, <2>1 DEF RunEnded, Types
  <1>13. CASE EndJob(a)
    <2> DEFINE held == job[Id(a)].at = "active" /\ job[Id(a)].worker = Worker(a)
    <2>1. job' = [job EXCEPT ![Id(a)] =
               IF ~held THEN @
               ELSE IF At(a, {"returning"}) THEN [@ EXCEPT !.at = "completed"]
               ELSE [@ EXCEPT !.at = "failed", !.reason = "error"]]
      BY <1>13 DEF EndJob
    <2>2. Id(a) \in Executions
      BY <1>0a DEF Id
    <2> HIDE DEF held
    <2>3. JobTypes'
      BY <1>0, <2>1, <2>2 DEF JobTypes
    <2> QED BY <1>0b, <1>13, <2>3 DEF EndJob, Types
  <1> QED
    BY <1>1, <1>2, <1>3, <1>4, <1>5, <1>6, <1>7, <1>8, <1>9, <1>10, <1>11, <1>12, <1>13
    DEF ProcessJob

\* Pick-ups, abort messages, and the start, shutdown and crash of a worker keep them.
LEMMA WorkerStepTyped ==
    ASSUME Types, NEW w \in Workers, WorkerStep(w)
    PROVE Types'
  <1> USE Unchanged DEF calls, stops, runs, workers, recovery, mains, history, others, cancels
  <1>0. AttemptTypes /\ CountTypes /\ JobTypes /\ CancelTypes /\ ProcessTypes
    BY DEF Types
  <1>1. ASSUME NEW e \in Executions, PickUp(w, e)
        PROVE Types'
    <2>1. JobTypes'
      BY <1>0, <1>1 DEF PickUp, JobTypes
    <2>2. AttemptTypes'
      BY <1>0, <1>1 DEF PickUp, AttemptTypes
    <2> QED BY <1>1, <2>1, <2>2 DEF PickUp, Types
  <1>2. ASSUME NEW e \in Executions, ReceiveAbort(e, w)
        PROVE Types'
    <2>1. CountTypes'
      <3>1. runningJobs' = [runningJobs EXCEPT ![w][e] = 0]
        BY <1>2 DEF ReceiveAbort
      <3>2. 0 \in 0..(MaxStalledCount + 1)
        BY ScalingAssumption
      <3> QED BY <1>0, <3>1, <3>2 DEF CountTypes
    <2>2. CancelTypes'
      BY <1>0, <1>2 DEF ReceiveAbort, CancelTypes
    <2> QED BY <1>2, <2>1, <2>2 DEF ReceiveAbort, Types
  <1>3. ASSUME WorkerDies(w), UNCHANGED faults \/ Fault
        PROVE Types'
    <2>1. CountTypes'
      BY <1>0, <1>3, ScalingAssumption DEF WorkerDies, CountTypes
    <2>2. CancelTypes'
      BY <1>0, <1>3 DEF WorkerDies, CancelTypes
    <2>3. AttemptTypes'
      BY <1>0, <1>3 DEF WorkerDies, AttemptTypes
    <2>4. ProcessTypes'
      BY <1>0, <1>3 DEF WorkerDies, ProcessTypes
    <2> QED BY <1>3, <2>1, <2>2, <2>3, <2>4 DEF WorkerDies, Types
  <1>4. CASE WorkerCrashes(w)
    BY <1>3, <1>4 DEF WorkerCrashes
  <1>5. CASE StopWorker(w)
    BY <1>0, <1>5 DEF StopWorker, ProcessTypes, Types
  <1>6. CASE ExitWorker(w)
    BY <1>3, <1>6 DEF ExitWorker
  <1>7. CASE StartWorker(w)
    BY <1>0, <1>7 DEF StartWorker, ProcessTypes, Types
  <1> QED BY <1>1, <1>2, <1>4, <1>5, <1>6, <1>7 DEF WorkerStep

\* Setting one chain of recovery checks keeps the types of the chains.
LEMMA ScheduleTyped ==
    ASSUME RecoveryTypes, NEW m \in Mains, NEW k \in Chains,
           leader' \in Mains \cup {None}, UNCHANGED caught,
           \/ Schedule(m, k)
           \/ /\ UNCHANGED timeout
              /\ \E ids \in SUBSET Executions, at \in {"off", "rows read", "jobs read"} :
                    SetChain(m, k, at, ids)
    PROVE RecoveryTypes'
  <1>1. CASE Schedule(m, k)
    BY <1>1 DEF Schedule, SetChain, RecoveryTypes
  <1>2. CASE ~Schedule(m, k)
    <2>1. PICK ids \in SUBSET Executions, at \in {"off", "rows read", "jobs read"} :
             SetChain(m, k, at, ids)
      BY <1>2
    <2> DEFINE r == [at |-> at, ids |-> ids]
    <2>2. r \in [at : {"off", "armed", "rows read", "jobs read"}, ids : SUBSET Executions]
      OBVIOUS
    <2>3. chain' = [chain EXCEPT ![m][k] = r]
      BY <2>1 DEF SetChain
    <2> HIDE DEF r
    <2> QED BY <1>2, <2>2, <2>3 DEF RecoveryTypes
  <1> QED BY <1>1, <1>2

\* Leadership, queue recovery, and the start, shutdown and crash of a main keep the types.
LEMMA MainStepTyped ==
    ASSUME Types, NEW m \in Mains, MainStep(m)
    PROVE Types'
  <1> USE Unchanged DEF calls, stops, runs, workers, recovery, mains, history, others, cancels
  <1>0. CallTypes /\ StopTypes /\ RowTypes /\ RecoveryTypes /\ ProcessTypes
    BY DEF Types
  <1>0a. leader \in Mains \cup {None} /\ timeout[m] \in Chains
    BY <1>0 DEF RecoveryTypes
  <1>1. CASE TakeOver(m)
    <2>1. leader' = m /\ \E k \in Chains : Schedule(m, k)
      BY <1>1 DEF TakeOver
    <2>2. RecoveryTypes'
      BY <1>0, <1>1, <2>1, ScheduleTyped DEF TakeOver
    <2> QED BY <1>1, <2>1, <2>2 DEF TakeOver, Types
  <1>2. CASE StepDown(m)
    <2>1. CASE chain[m][timeout[m]].at = "armed"
      <3>1. SetChain(m, timeout[m], "off", {}) /\ UNCHANGED caught
        BY <1>2, <2>1 DEF StepDown, StopRecovery
      <3>2. RecoveryTypes'
        BY <1>0, <1>0a, <1>2, <3>1, ScheduleTyped DEF StepDown
      <3> QED BY <1>2, <3>2 DEF StepDown, Types
    <2>2. CASE chain[m][timeout[m]].at # "armed"
      <3>1. RecoveryTypes'
        <4>1. caught' = [caught EXCEPT ![m] = caught[m] + 1] /\ UNCHANGED <<chain, timeout>>
          BY <1>2, <2>2, Zenon DEF StepDown, StopRecovery
        <4>2. caught' \in [Mains -> Nat]
          <5>1. caught \in [Mains -> Nat]
            BY <1>0 DEF RecoveryTypes
          <5>2. caught[m] + 1 \in Nat
            BY <5>1
          <5> QED BY <4>1, <5>1, <5>2
        <4>3. leader' = None
          BY <1>2 DEF StepDown
        <4> QED BY <1>0, <4>1, <4>2, <4>3 DEF RecoveryTypes
      <3> QED BY <1>2, <3>1 DEF StepDown, Types
    <2> QED BY <2>1, <2>2
  <1>3. ASSUME NEW k \in Chains, GetInProgress(m, k)
        PROVE Types'
    <2>1. {e \in Executions : Open(e)} \in SUBSET Executions
      OBVIOUS
    <2>2. RecoveryTypes'
      BY <1>0, <1>0a, <1>3, <2>1, ScheduleTyped DEF GetInProgress
    <2> QED BY <1>3, <2>2 DEF GetInProgress, Types
  <1>4. ASSUME NEW k \in Chains, FindJobs(m, k)
        PROVE Types'
    <2>1. chain[m][k].ids \ Queued \in SUBSET Executions
      BY <1>0 DEF RecoveryTypes
    <2>2. RecoveryTypes'
      BY <1>0, <1>0a, <1>4, <2>1, ScheduleTyped DEF FindJobs
    <2> QED BY <1>4, <2>2 DEF FindJobs, Types
  <1>5. ASSUME NEW k \in Chains, MarkAsCrashed(m, k)
        PROVE Types'
    <2>1. RowTypes'
      BY <1>0, <1>5 DEF MarkAsCrashed, RowTypes, Statuses
    <2>2. RecoveryTypes'
      BY <1>0, <1>0a, <1>5, ScheduleTyped DEF MarkAsCrashed
    <2> QED BY <1>5, <2>1, <2>2 DEF MarkAsCrashed, Types
  <1>6. ASSUME NEW k \in Chains, RecoveryFails(m, k)
        PROVE Types'
    <2>1. RecoveryTypes'
      BY <1>0, <1>0a, <1>6, ScheduleTyped DEF RecoveryFails
    <2> QED BY <1>6, <2>1 DEF RecoveryFails, Types
  <1>7. ASSUME MainDies(m), UNCHANGED faults \/ Fault
        PROVE Types'
    <2>1. CallTypes'
      BY <1>0, <1>7 DEF MainDies, CallTypes
    <2>2. StopTypes'
      BY <1>0, <1>7 DEF MainDies, StopTypes
    <2>3. ProcessTypes'
      BY <1>0, <1>7 DEF MainDies, ProcessTypes
    <2>4. RecoveryTypes'
      BY <1>0, <1>7 DEF MainDies, RecoveryTypes, Idle
    <2> QED BY <1>7, <2>1, <2>2, <2>3, <2>4 DEF MainDies, Types
  <1>8. CASE MainCrashes(m)
    BY <1>7, <1>8 DEF MainCrashes
  <1>9. CASE StopMain(m)
    <2>1. CallTypes'
      BY <1>0, <1>9 DEF StopMain, StopExecutions, CallTypes
    <2>2. StopTypes'
      BY <1>0, <1>9 DEF StopMain, StopExecutions, StopTypes
    <2>3. ProcessTypes'
      BY <1>0, <1>9 DEF StopMain, ProcessTypes
    <2>4. RecoveryTypes'
      <3> DEFINE k == timeout[m]
                 r == IF chain[m][k].at = "armed" THEN Idle ELSE chain[m][k]
      <3>1. r \in [at : {"off", "armed", "rows read", "jobs read"}, ids : SUBSET Executions]
        BY <1>0, <1>0a DEF RecoveryTypes, Idle
      <3>2. chain' = [chain EXCEPT ![m][k] = r] /\ leader' \in {None, leader}
        BY <1>9, Zenon DEF StopMain
      <3>3. k \in Chains
        BY <1>0a
      <3> HIDE DEF k, r
      <3>4. chain' \in [Mains -> [Chains ->
               [at : {"off", "armed", "rows read", "jobs read"}, ids : SUBSET Executions]]]
        BY <1>0, <3>1, <3>2, <3>3 DEF RecoveryTypes
      <3>5. UNCHANGED <<timeout, caught>>
        BY <1>9 DEF StopMain
      <3> QED BY <1>0, <3>2, <3>4, <3>5 DEF RecoveryTypes
    <2> QED BY <1>9, <2>1, <2>2, <2>3, <2>4 DEF StopMain, Types
  <1>10. CASE ExitMain(m)
    BY <1>7, <1>10 DEF ExitMain
  <1>11. CASE ForceExit(m)
    BY <1>7, <1>11 DEF ForceExit
  <1>12. CASE StartMain(m)
    BY <1>0, <1>12 DEF StartMain, ProcessTypes, Types
  <1> QED
    BY <1>1, <1>2, <1>3, <1>4, <1>5, <1>6, <1>8, <1>9, <1>10, <1>11, <1>12
    DEF MainStep, Recovery

\* Every step keeps the types.
LEMMA NextTypes == Types /\ [Next]_vars => Types'
  <1> SUFFICES ASSUME Types, [Next]_vars PROVE Types'
    OBVIOUS
  <1>1. CASE UNCHANGED vars
    BY <1>1, Unchanged DEF vars, calls, stops, runs, workers, recovery, mains, history, Types
  <1> QED
    BY <1>1, CallsTyped, StopJobsTyped, StopCallsTyped, ProcessJobTyped, WorkerStepTyped,
       MainStepTyped
    DEF Next

\* Rows, calls, jobs, attempts, counters and chains keep their types: a job is never taken
\* more often than the maximum of stalls allows, and stop() finds the row it read.
THEOREM TypeCorrect == Spec => []TypeOK
  BY InitTypes, NextTypes, TypesTypeOK, PTL DEF Spec

-----------------------------------------------------------------------------
(* Chains of recovery checks                                               *)

\* The chains of recovery checks that run in m.
Running(m) == {k \in Chains : chain[m][k].at # "off"}

\* As many chains run in m as it leads and has missed.  A main leads only while it is up,
\* and takes nothing with it when it comes back.
Accounted(m) ==
    /\ main[m] = "up" => Cardinality(Running(m)) = caught[m] + IF leader = m THEN 1 ELSE 0
    /\ leader = m => main[m] = "up"
    /\ main[m] = "down" => caught[m] = 0 /\ Running(m) = {}

ChainInv == \A m \in Mains : Accounted(m)

\* The running chains of a main can be counted.
LEMMA RunningFinite ==
    ASSUME NEW m \in Mains
    PROVE IsFiniteSet(Running(m)) /\ Cardinality(Running(m)) \in Nat
  <1>1. IsFiniteSet(Chains)
    BY ScalingAssumption, FS_Interval DEF Chains
  <1>2. Running(m) \subseteq Chains
    BY DEF Running
  <1>3. IsFiniteSet(Running(m))
    BY <1>1, <1>2, FS_Subset
  <1> QED BY <1>3, FS_CardinalityType

\* At the start the first leader has one chain, and nobody else has any.
LEMMA InitChains == Init => ChainInv
  <1> SUFFICES ASSUME Init, NEW m \in Mains PROVE Accounted(m)
    BY DEF ChainInv
  <1>1. main[m] = "up" /\ caught[m] = 0 /\ leader = FirstLeader
    BY DEF Init
  <1>2. CASE m = FirstLeader
    <2>1. 1 \in Chains
      BY ScalingAssumption DEF Chains
    <2>2. \A k \in Chains : chain[m][k].at # "off" <=> k = 1
      BY <1>2 DEF Init, Idle
    <2>3. Running(m) = {1}
      BY <2>1, <2>2 DEF Running
    <2>4. Cardinality({1}) = 1
      BY FS_Singleton
    <2> QED BY <1>1, <1>2, <2>3, <2>4 DEF Accounted
  <1>3. CASE m # FirstLeader
    <2>1. \A k \in Chains : chain[m][k].at = "off"
      BY <1>3 DEF Init, Idle
    <2>2. Running(m) = {}
      BY <2>1 DEF Running
    <2> QED BY <1>1, <1>3, <2>2, FS_EmptySet DEF Accounted
  <1> QED BY <1>2, <1>3

\* One chain of one main is set: the others are as they were.
LEMMA ChainSet ==
    ASSUME Types, NEW m \in Mains, NEW k \in Chains,
           NEW at \in {"off", "armed", "rows read", "jobs read"},
           NEW ids, SetChain(m, k, at, ids)
    PROVE /\ \A n \in Mains \ {m} : chain'[n] = chain[n] /\ Running(n)' = Running(n)
          /\ chain'[m][k] = [at |-> at, ids |-> ids]
          /\ \A j \in Chains \ {k} : chain'[m][j] = chain[m][j]
          /\ Running(m)' = IF at = "off" THEN Running(m) \ {k} ELSE Running(m) \cup {k}
  <1>1. chain \in [Mains -> [Chains -> [at : {"off", "armed", "rows read", "jobs read"},
                                        ids : SUBSET Executions]]]
    BY DEF Types, RecoveryTypes
  <1> DEFINE r == [at |-> at, ids |-> ids]
  <1>2. r.at = at
    OBVIOUS
  <1>3. chain' = [chain EXCEPT ![m][k] = r]
    BY DEF SetChain
  <1> HIDE DEF r
  <1>4. /\ \A n \in Mains \ {m} : chain'[n] = chain[n]
        /\ chain'[m][k] = r
        /\ \A j \in Chains \ {k} : chain'[m][j] = chain[m][j]
    BY <1>1, <1>3
  <1>5. Running(m)' = IF at = "off" THEN Running(m) \ {k} ELSE Running(m) \cup {k}
    BY <1>2, <1>4 DEF Running
  <1>6. \A n \in Mains \ {m} : Running(n)' = Running(n)
    BY <1>4 DEF Running
  <1> QED BY <1>4, <1>5, <1>6 DEF r

\* A main that a step leaves alone stays accounted for.
LEMMA AccountedKept ==
    ASSUME NEW n \in Mains, ChainInv, Running(n)' = Running(n), main'[n] = main[n],
           caught'[n] = caught[n], leader' = n <=> leader = n
    PROVE Accounted(n)'
  BY DEF Accounted, ChainInv

\* A step of a main that keeps its running chains and the rest keeps the count.
LEMMA ChainsKept ==
    ASSUME ChainInv, UNCHANGED <<main, leader, caught>>,
           \A m \in Mains : Running(m)' = Running(m)
    PROVE ChainInv'
  BY DEF ChainInv, Accounted

\* A recovery check, failed or not, leaves its chain running.
LEMMA RecoveryChains ==
    ASSUME Types, ChainInv, NEW m \in Mains, NEW k \in Chains, Recovery(m, k)
    PROVE ChainInv'
  <1>1. k \in Running(m)
    BY DEF Recovery, GetInProgress, FindJobs, MarkAsCrashed, RecoveryFails, Running
  <1>2. UNCHANGED <<main, leader, caught>>
    BY DEF Recovery, GetInProgress, FindJobs, MarkAsCrashed, RecoveryFails
  <1>3. \E at \in {"armed", "rows read", "jobs read"} : \E ids : SetChain(m, k, at, ids)
    BY DEF Recovery, GetInProgress, FindJobs, MarkAsCrashed, RecoveryFails, Schedule
  <1>4. PICK at \in {"armed", "rows read", "jobs read"} : \E ids : SetChain(m, k, at, ids)
    BY <1>3
  <1>5. PICK ids : SetChain(m, k, at, ids)
    BY <1>4
  <1>6. \A n \in Mains : Running(n)' = Running(n)
    <2>0. at # "off" /\ at \in {"off", "armed", "rows read", "jobs read"}
      OBVIOUS
    <2>1. Running(m)' = Running(m) \cup {k}
      BY <1>5, <2>0, ChainSet
    <2>2. Running(m)' = Running(m)
      BY <1>1, <2>1
    <2>3. ASSUME NEW n \in Mains \ {m} PROVE Running(n)' = Running(n)
      <3>1. chain'[n] = chain[n]
        BY <1>5, <2>3 DEF SetChain, Types, RecoveryTypes
      <3> QED BY <3>1 DEF Running
    <2> QED BY <2>2, <2>3
  <1> QED BY <1>2, <1>6, ChainsKept

\* leader-takeover starts one chain, for the new leader.
LEMMA TakeOverChains ==
    ASSUME Types, ChainInv, NEW m \in Mains, TakeOver(m)
    PROVE ChainInv'
  <1>1. PICK k \in Chains : chain[m][k].at = "off" /\ Schedule(m, k)
    BY DEF TakeOver
  <1>2. /\ \A n \in Mains \ {m} : Running(n)' = Running(n)
        /\ Running(m)' = Running(m) \cup {k} /\ k \notin Running(m)
    BY <1>1, ChainSet, ZenonT(60) DEF Schedule, Running
  <1>3. leader = None /\ leader' = m /\ main[m] = "up" /\ UNCHANGED <<main, caught>>
    BY DEF TakeOver
  <1>4. ASSUME NEW n \in Mains \ {m} PROVE Accounted(n)'
    BY <1>2, <1>3, <1>4, ScalingAssumption DEF Accounted, ChainInv
  <1>5. Cardinality(Running(m)') = Cardinality(Running(m)) + 1
    BY <1>2, RunningFinite, FS_AddElement
  <1>6. Cardinality(Running(m)) = caught[m] /\ caught[m] \in Nat
    <2>1. caught \in [Mains -> Nat] /\ Accounted(m) /\ m # None
      BY ScalingAssumption DEF Types, RecoveryTypes, ChainInv
    <2> QED BY <1>3, <2>1 DEF Accounted
  <1>7. Accounted(m)'
    BY <1>3, <1>5, <1>6 DEF Accounted
  <1> QED BY <1>4, <1>7 DEF ChainInv

\* leader-stepdown stops the chain whose timer is set, or misses a check under way.
LEMMA StepDownChains ==
    ASSUME Types, ChainInv, NEW m \in Mains, StepDown(m)
    PROVE ChainInv'
  <1>1. /\ leader = m /\ leader' = None /\ UNCHANGED main /\ main[m] = "up"
        /\ caught \in [Mains -> Nat] /\ timeout[m] \in Chains
    BY DEF StepDown, ChainInv, Accounted, Types, RecoveryTypes
  <1>2. None \notin Mains
    BY ScalingAssumption
  <1>3. Cardinality(Running(m)) = caught[m] + 1 /\ caught[m] \in Nat
    BY <1>1 DEF ChainInv, Accounted
  <1>4. CASE chain[m][timeout[m]].at = "armed"
    <2>1. SetChain(m, timeout[m], "off", {}) /\ UNCHANGED caught
      BY <1>4 DEF StepDown, StopRecovery
    <2>2. /\ \A n \in Mains \ {m} : Running(n)' = Running(n)
          /\ Running(m)' = Running(m) \ {timeout[m]} /\ timeout[m] \in Running(m)
      <3>1. timeout[m] \in Running(m)
        BY <1>1, <1>4 DEF Running
      <3> QED BY <1>1, <2>1, <3>1, ChainSet
    <2>3. Cardinality(Running(m)') = Cardinality(Running(m)) - 1
      BY <2>2, RunningFinite, FS_RemoveElement
    <2>4. Accounted(m)'
      BY <1>1, <1>2, <1>3, <2>1, <2>3 DEF Accounted
    <2>5. ASSUME NEW n \in Mains \ {m} PROVE Accounted(n)'
      BY <1>1, <1>2, <2>1, <2>2, <2>5 DEF Accounted, ChainInv
    <2> QED BY <2>4, <2>5 DEF ChainInv
  <1>5. CASE chain[m][timeout[m]].at # "armed"
    <2>1. caught' = [caught EXCEPT ![m] = @ + 1] /\ UNCHANGED chain
      BY <1>5 DEF StepDown, StopRecovery
    <2>2. \A n \in Mains : Running(n)' = Running(n)
      BY <2>1 DEF Running
    <2>3. caught'[m] = caught[m] + 1 /\ \A n \in Mains \ {m} : caught'[n] = caught[n]
      BY <1>1, <2>1
    <2>4. Accounted(m)'
      BY <1>1, <1>2, <1>3, <2>2, <2>3 DEF Accounted
    <2>5. ASSUME NEW n \in Mains \ {m} PROVE Accounted(n)'
      BY <1>1, <1>2, <2>2, <2>3, <2>5 DEF Accounted, ChainInv
    <2> QED BY <2>4, <2>5 DEF ChainInv
  <1> QED BY <1>4, <1>5

\* The chains of a main end with its process.
LEMMA MainStatusChains ==
    ASSUME Types, ChainInv, NEW m \in Mains, MainDies(m) \/ StopMain(m) \/ StartMain(m)
    PROVE ChainInv'
  <1>0. /\ main \in [Mains -> {"up", "stopping", "down"}]
        /\ caught \in [Mains -> Nat] /\ timeout[m] \in Chains
        /\ chain \in [Mains -> [Chains -> [at : {"off", "armed", "rows read", "jobs read"},
                                           ids : SUBSET Executions]]]
    BY DEF Types, RecoveryTypes, ProcessTypes
  <1>1. None \notin Mains
    BY ScalingAssumption
  <1>2. CASE MainDies(m)
    <2>1. /\ main' = [main EXCEPT ![m] = "down"]
          /\ leader' = (IF leader = m THEN None ELSE leader)
          /\ chain' = [chain EXCEPT ![m] = [k \in Chains |-> Idle]]
          /\ caught' = [caught EXCEPT ![m] = 0]
      BY <1>2 DEF MainDies
    <2>2. Running(m)' = {}
      BY <1>0, <2>1 DEF Running, Idle
    <2>3. Accounted(m)'
      BY <1>0, <1>1, <2>1, <2>2 DEF Accounted
    <2>4. ASSUME NEW n \in Mains \ {m} PROVE Running(n)' = Running(n)
      BY <1>0, <2>1, <2>4 DEF Running
    <2>5. ASSUME NEW n \in Mains \ {m} PROVE Accounted(n)'
      BY <1>0, <1>1, <2>1, <2>4, <2>5, AccountedKept
    <2> QED BY <2>3, <2>5 DEF ChainInv
  <1>3. CASE StopMain(m)
    <2> DEFINE r == IF chain[m][timeout[m]].at = "armed" THEN Idle ELSE chain[m][timeout[m]]
    <2>1. /\ main' = [main EXCEPT ![m] = "stopping"]
          /\ leader' = (IF leader = m THEN None ELSE leader)
          /\ UNCHANGED caught
      BY <1>3 DEF StopMain
    <2>2. chain' = [chain EXCEPT ![m][timeout[m]] = r]
      BY <1>3, Zenon DEF StopMain
    <2> HIDE DEF r
    <2>3. Accounted(m)'
      BY <1>0, <1>1, <2>1 DEF Accounted
    <2>4. ASSUME NEW n \in Mains \ {m} PROVE Running(n)' = Running(n)
      <3>1. chain'[n] = chain[n]
        BY <1>0, <2>2, <2>4
      <3> QED BY <3>1 DEF Running
    <2>5. ASSUME NEW n \in Mains \ {m} PROVE Accounted(n)'
      BY <1>0, <1>1, <2>1, <2>4, <2>5, AccountedKept
    <2> QED BY <2>3, <2>5 DEF ChainInv
  <1>4. CASE StartMain(m)
    <2>1. /\ main[m] = "down" /\ main' = [main EXCEPT ![m] = "up"]
          /\ UNCHANGED <<leader, chain, caught>>
      BY <1>4 DEF StartMain, recovery
    <2>2. \A n \in Mains : Running(n)' = Running(n)
      BY <2>1 DEF Running
    <2>3. Running(m) = {} /\ caught[m] = 0 /\ leader # m
      BY <2>1 DEF ChainInv, Accounted
    <2>4. Accounted(m)'
      <3>1. main'[m] = "up" /\ caught'[m] = 0 /\ leader' # m
        BY <1>0, <2>1, <2>3
      <3>2. Running(m)' = {}
        BY <2>2, <2>3
      <3> QED BY <3>1, <3>2, FS_EmptySet DEF Accounted
    <2>5. ASSUME NEW n \in Mains \ {m} PROVE Accounted(n)'
      BY <1>0, <2>1, <2>2, <2>5, AccountedKept
    <2> QED BY <2>4, <2>5 DEF ChainInv
  <1> QED BY <1>2, <1>3, <1>4

\* What run() leaves alone.
LEMMA CallFrame ==
    ASSUME NEW e \in Executions, Call(e)
    PROVE UNCHANGED <<stopping, stop, attempt, runningJobs, cancelled, cancelWrites, aborts,
                      worker, main, leader, chain, timeout, caught, reopened>>
  BY Zenon DEF Call, Create, Register, CheckFails, AttachFails, AddJob, AddFails, AwaitJob,
         JobFinished, JobFailed, SaveError, stops, workers, runs, mains, recovery, history

\* What stopJob() and a stalled job leave alone.
LEMMA StopJobFrame ==
    ASSUME NEW e \in Executions, StopJob(e) \/ Stall(e)
    PROVE UNCHANGED <<db, pc, entry, stop, attempt, runningJobs, cancelled, cancelWrites,
                      worker, main, leader, chain, timeout, caught, reopened, late>>
  BY Zenon DEF StopJob, AskActive, RemoveJob, AbortJob, MoveToFailed, Stall, calls, stops, workers,
         runs, mains, recovery, history

\* What stop() leaves alone.
LEMMA StopCallFrame ==
    ASSUME NEW s \in Stops, StopCall(s)
    PROVE UNCHANGED <<pc, job, attempt, runningJobs, cancelled, cancelWrites, aborts, worker,
                      main, leader, chain, timeout, caught, reopened, late>>
  BY Zenon DEF StopCall, ReadToStop, StopActive, WriteStopped, calls, workers, runs, mains,
         recovery, history

\* What the processing of a job leaves alone.
LEMMA ProcessJobFrame ==
    ASSUME NEW a \in Attempts, ProcessJob(a)
    PROVE UNCHANGED <<pc, entry, stopping, stop, cancelled, aborts, worker,
                      main, leader, chain, timeout, caught, late>>
  BY Zenon DEF ProcessJob, FindExecution, SetRunning, RunThrows, StartRun, ReadProgress,
         WriteProgress, EndRun, SaveOutcome, SaveFails, SaveAgain, SaveCancelled,
         RunEnded, EndJob, others, calls, stops, mains, recovery, cancels, history

\* What the other steps of a worker leave alone.
LEMMA WorkerStepFrame ==
    ASSUME NEW w \in Workers, WorkerStep(w)
    PROVE UNCHANGED <<db, pc, entry, stopping, stop, main, leader, chain, timeout, caught,
                      reopened, late>>
  BY Zenon DEF WorkerStep, PickUp, ReceiveAbort, WorkerCrashes, WorkerDies, StopWorker, ExitWorker,
         StartWorker, others, calls, stops, mains, recovery, history

\* What the other steps of a main leave alone.
LEMMA MainStepFrame ==
    ASSUME NEW m \in Mains, MainStep(m)
    PROVE UNCHANGED <<job, attempt, runningJobs, cancelled, cancelWrites, aborts, worker,
                      reopened, late>>
  BY Zenon DEF MainStep, TakeOver, StepDown, Recovery, GetInProgress, FindJobs, MarkAsCrashed,
         RecoveryFails, MainCrashes, StopMain, ExitMain, ForceExit, MainDies, StartMain,
         workers, runs, history

\* What a stuttering step leaves alone.
LEMMA Stuttering ==
    ASSUME UNCHANGED vars
    PROVE UNCHANGED <<db, pc, entry, stopping, stop, job, attempt, runningJobs, cancelled,
                      cancelWrites, aborts, worker, main, leader, chain, timeout, caught,
                      reopened, late>>
  BY Zenon DEF vars, calls, stops, workers, runs, mains, recovery, history

\* Leadership and chains change in the steps of a main alone.
LEMMA OtherSteps ==
    ASSUME [Next]_vars
    PROVE UNCHANGED mains \/ \E m \in Mains : MainStep(m)
  BY CallFrame, StopJobFrame, StopCallFrame, ProcessJobFrame, WorkerStepFrame, Stuttering
  DEF Next, mains, recovery

\* Every step keeps the chains accounted for.
LEMMA NextChains == Types /\ ChainInv /\ [Next]_vars => ChainInv'
  <1> SUFFICES ASSUME Types, ChainInv, [Next]_vars PROVE ChainInv'
    OBVIOUS
  <1>1. CASE UNCHANGED mains
    BY <1>1, ChainsKept DEF mains, recovery, Running
  <1>2. ASSUME NEW m \in Mains, MainStep(m) PROVE ChainInv'
    BY <1>2, RecoveryChains, TakeOverChains, StepDownChains, MainStatusChains
    DEF MainStep, MainCrashes, ExitMain, ForceExit
  <1> QED BY <1>1, <1>2, OtherSteps

\* Chains that are accounted for are as many as the run checks.
LEMMA ChainsCounted == ChainInv => ChainsAccounted
  BY DEF ChainInv, Accounted, ChainsAccounted, Running

\* Any number of mains, takeovers, step-downs, crashes and failing checks: a leader has its
\* chain of recovery checks, and beyond that a main has one for each check that was under
\* way when it stepped down.
THEOREM ChainsAreAccounted == Spec => []ChainsAccounted
  BY InitTypes, NextTypes, InitChains, NextChains, ChainsCounted, PTL DEF Spec

-----------------------------------------------------------------------------
(* What a recovery check marks                                             *)

\* A check that has read the jobs holds nothing that is queued, but late jobs.
CheckedIsNotQueued ==
    \A m \in Mains, k \in Chains :
        chain[m][k].at = "jobs read" =>
            \A e \in chain[m][k].ids : e \notin Queued \/ e \in late

\* All that may happen to the job of e: added, removed, stopped, taken, stalled, failed or
\* completed by the worker that came back with it.
JobStep(e) ==
    \/ job'[e] = job[e]
    \/ /\ AddJob(e)
       /\ job'[e].at = "waiting" /\ job'[e].reason = job[e].reason
       /\ job'[e].stalls = job[e].stalls
    \/ /\ stopping[e] = "inactive" /\ job[e].at = "waiting"
       /\ job'[e].at = "removed" /\ job'[e].reason = job[e].reason
       /\ job'[e].stalls = job[e].stalls
    \/ /\ stopping[e] = "aborted" /\ job[e].at \in {"waiting", "active"}
       /\ job'[e].at = "failed" /\ job'[e].reason = "cancelled"
       /\ job'[e].stalls = job[e].stalls
    \/ /\ job[e].at = "waiting" /\ job'[e].at = "active" /\ job'[e].reason = job[e].reason
       /\ job'[e].stalls = job[e].stalls
    \/ /\ job[e].at = "active" /\ job'[e].at = "waiting" /\ job'[e].reason = job[e].reason
       /\ job'[e].stalls = job[e].stalls + 1
    \/ /\ job[e].at = "active" /\ job'[e].at = "failed"
       /\ job'[e].reason \in {"stalled", "error"} /\ job'[e].stalls = job[e].stalls
    \/ /\ job[e].at = "active" /\ job'[e].at = "completed" /\ job'[e].reason = job[e].reason
       /\ job'[e].stalls = job[e].stalls
       /\ \E a \in Attempts : Id(a) = e /\ At(a, {"returning"})

\* Every step does one of these to the job.
LEMMA JobSteps ==
    ASSUME Types, [Next]_vars, NEW d \in Executions
    PROVE JobStep(d)
  <1> USE DEF calls, stops, runs, workers, mains, others
  <1>0. job \in [Executions ->
           [at : {"none", "waiting", "active", "completed", "failed", "removed"},
            worker : Workers \cup {None}, stalls : 0..MaxStalledCount,
            reason : {"none", "cancelled", "error", "stalled"}]]
    BY DEF Types, JobTypes
  <1>1. ASSUME NEW e \in Executions, Call(e) PROVE JobStep(d)
    <2>1. CASE AddJob(e)
      BY <1>0, <2>1 DEF AddJob, JobStep
    <2>2. CASE ~AddJob(e)
      BY <1>1, <2>2 DEF Call, Create, Register, CheckFails, AttachFails, AddFails, AwaitJob,
                JobFinished, JobFailed, SaveError, JobStep
    <2> QED BY <2>1, <2>2
  <1>2. ASSUME NEW e \in Executions, StopJob(e) PROVE JobStep(d)
    <2>1. CASE AskActive(e) \/ AbortJob(e)
      BY <2>1 DEF AskActive, AbortJob, JobStep
    <2>2. CASE RemoveJob(e)
      BY <1>0, <2>2 DEF RemoveJob, JobStep
    <2>3. CASE MoveToFailed(e)
      <3>1. \/ job'[d] = job[d]
            \/ /\ d = e /\ job[e].at \in {"waiting", "active"}
               /\ job'[e].at = "failed" /\ job'[e].reason = "cancelled"
               /\ job'[e].stalls = job[e].stalls
        BY <1>0, <2>3 DEF MoveToFailed
      <3> QED BY <2>3, <3>1 DEF MoveToFailed, JobStep
    <2> QED BY <1>2, <2>1, <2>2, <2>3 DEF StopJob
  <1>3. ASSUME NEW e \in Executions, Stall(e) PROVE JobStep(d)
    <2>1. CASE d # e
      BY <1>0, <1>3, <2>1 DEF Stall, JobStep
    <2>2. CASE d = e /\ job[e].stalls < MaxStalledCount
      <3>1. job' = [job EXCEPT ![e] = [job[e] EXCEPT !.at = "waiting", !.worker = None,
                                                     !.stalls = job[e].stalls + 1]]
        BY <1>3, <2>2, Zenon DEF Stall
      <3>2. job[e].at = "active"
        BY <1>3 DEF Stall
      <3>3. /\ job'[e].at = "waiting" /\ job'[e].reason = job[e].reason
            /\ job'[e].stalls = job[e].stalls + 1
        BY <1>0, <3>1
      <3> QED BY <2>2, <3>2, <3>3 DEF JobStep
    <2>3. CASE d = e /\ ~(job[e].stalls < MaxStalledCount)
      <3>1. job' = [job EXCEPT ![e] = [job[e] EXCEPT !.at = "failed", !.reason = "stalled"]]
        BY <1>3, <2>3, Zenon DEF Stall
      <3>2. job[e].at = "active"
        BY <1>3 DEF Stall
      <3>3. /\ job'[e].at = "failed" /\ job'[e].reason = "stalled"
            /\ job'[e].stalls = job[e].stalls
        BY <1>0, <3>1
      <3> QED BY <2>3, <3>2, <3>3 DEF JobStep
    <2> QED BY <2>1, <2>2, <2>3
  <1>4. ASSUME NEW s \in Stops, StopCall(s) PROVE JobStep(d)
    BY <1>4 DEF StopCall, ReadToStop, StopActive, WriteStopped, JobStep
  <1>5. ASSUME NEW a \in Attempts, ProcessJob(a) PROVE JobStep(d)
    <2>1. CASE EndJob(a)
      <3> DEFINE held == job[Id(a)].at = "active" /\ job[Id(a)].worker = Worker(a)
                 back == At(a, {"returning"})
      <3>1. /\ Id(a) \in Executions
            /\ job' = [job EXCEPT ![Id(a)] =
                         IF ~held THEN @
                         ELSE IF back THEN [@ EXCEPT !.at = "completed"]
                         ELSE [@ EXCEPT !.at = "failed", !.reason = "error"]]
        BY <2>1 DEF EndJob, Attempts, Id
      <3>2. held => job[Id(a)].at = "active"
        OBVIOUS
      <3> HIDE DEF held, back
      <3>3. \/ job'[d] = job[d]
            \/ /\ d = Id(a) /\ held /\ back /\ job'[d].at = "completed"
               /\ job'[d].reason = job[d].reason /\ job'[d].stalls = job[d].stalls
            \/ /\ d = Id(a) /\ held /\ job'[d].at = "failed" /\ job'[d].reason = "error"
               /\ job'[d].stalls = job[d].stalls
        BY <1>0, <3>1
      <3> QED BY <3>2, <3>3 DEF JobStep, back
    <2>2. CASE ~EndJob(a)
      BY <1>5, <2>2 DEF ProcessJob, FindExecution, SetRunning, RunThrows, StartRun, ReadProgress,
                WriteProgress, EndRun, SaveOutcome, SaveFails, SaveAgain, SaveCancelled,
                RunEnded, JobStep
    <2> QED BY <2>1, <2>2
  <1>6. ASSUME NEW w \in Workers, WorkerStep(w) PROVE JobStep(d)
    <2>1. CASE \E e \in Executions : PickUp(w, e)
      BY <1>0, <2>1 DEF PickUp, JobStep
    <2>2. CASE ~\E e \in Executions : PickUp(w, e)
      BY <1>6, <2>2 DEF WorkerStep, ReceiveAbort, WorkerCrashes, WorkerDies, StopWorker,
                ExitWorker, StartWorker, JobStep
    <2> QED BY <2>1, <2>2
  <1>7. ASSUME NEW m \in Mains, MainStep(m) PROVE JobStep(d)
    BY <1>7 DEF MainStep, TakeOver, StepDown, Recovery, GetInProgress, FindJobs, MarkAsCrashed,
                RecoveryFails, MainCrashes, StopMain, ExitMain, ForceExit, MainDies, StartMain,
                JobStep
  <1>8. CASE UNCHANGED vars
    BY <1>8 DEF vars, JobStep
  <1> QED BY <1>1, <1>2, <1>3, <1>4, <1>5, <1>6, <1>7, <1>8 DEF Next

\* The job of e is in the queue.
Queueing(e) == job[e].at \in {"active", "waiting"}

\* A job is queued after a step only if it was, or is added by it.
LEMMA QueueGrows ==
    ASSUME Types, [Next]_vars, NEW e \in Executions, Queueing(e)'
    PROVE Queueing(e) \/ AddJob(e)
  BY JobSteps DEF JobStep, Queueing

\* What was late stays late.
LEMMA LateGrows ==
    ASSUME [Next]_vars
    PROVE late \subseteq late'
  <1>1. ASSUME NEW e \in Executions, Call(e) PROVE late \subseteq late'
    BY <1>1 DEF Call, Create, Register, CheckFails, AttachFails, AddJob, AddFails, AwaitJob,
                JobFinished, JobFailed, SaveError, history
  <1> QED
    BY <1>1, StopJobFrame, StopCallFrame, ProcessJobFrame, WorkerStepFrame, MainStepFrame,
       Stuttering
    DEF Next

\* A check that has read the jobs after a step had read them before, or holds no queued job.
LEMMA ChecksRead ==
    ASSUME Types, NEW m \in Mains, MainStep(m), NEW n \in Mains, NEW j \in Chains,
           chain'[n][j].at = "jobs read"
    PROVE \/ chain'[n][j] = chain[n][j]
          \/ chain'[n][j].ids \cap Queued = {}
  <1>0. /\ chain \in [Mains -> [Chains -> [at : {"off", "armed", "rows read", "jobs read"},
                                           ids : SUBSET Executions]]]
        /\ timeout[m] \in Chains
    BY DEF Types, RecoveryTypes
  <1>1. ASSUME NEW k \in Chains, NEW at \in {"off", "armed", "rows read", "jobs read"}, NEW ids,
               SetChain(m, k, at, ids), at # "jobs read" \/ ids \cap Queued = {}
        PROVE chain'[n][j] = chain[n][j] \/ chain'[n][j].ids \cap Queued = {}
    <2> DEFINE r == [at |-> at, ids |-> ids]
    <2>1. r.at = at /\ r.ids = ids
      OBVIOUS
    <2>2. chain' = [chain EXCEPT ![m][k] = r]
      BY <1>1 DEF SetChain
    <2> HIDE DEF r
    <2>3. chain'[n][j] = IF n = m /\ j = k THEN r ELSE chain[n][j]
      BY <1>0, <2>2
    <2> QED BY <1>1, <2>1, <2>3
  <1>2. CASE TakeOver(m)
    BY <1>1, <1>2 DEF TakeOver, Schedule
  <1>3. CASE StepDown(m)
    BY <1>0, <1>1, <1>3 DEF StepDown, StopRecovery
  <1>4. ASSUME NEW k \in Chains, GetInProgress(m, k)
        PROVE chain'[n][j] = chain[n][j] \/ chain'[n][j].ids \cap Queued = {}
    BY <1>1, <1>4 DEF GetInProgress, Schedule
  <1>5. ASSUME NEW k \in Chains, FindJobs(m, k)
        PROVE chain'[n][j] = chain[n][j] \/ chain'[n][j].ids \cap Queued = {}
    <2>1. (chain[m][k].ids \ Queued) \cap Queued = {}
      OBVIOUS
    <2> QED BY <1>1, <1>5, <2>1 DEF FindJobs, Schedule
  <1>6. ASSUME NEW k \in Chains, MarkAsCrashed(m, k)
        PROVE chain'[n][j] = chain[n][j] \/ chain'[n][j].ids \cap Queued = {}
    BY <1>1, <1>6 DEF MarkAsCrashed, Schedule
  <1>7. ASSUME NEW k \in Chains, RecoveryFails(m, k)
        PROVE chain'[n][j] = chain[n][j] \/ chain'[n][j].ids \cap Queued = {}
    BY <1>1, <1>7 DEF RecoveryFails, Schedule
  <1>8. CASE MainDies(m)
    <2>1. chain' = [chain EXCEPT ![m] = [k \in Chains |-> Idle]]
      BY <1>8 DEF MainDies
    <2>2. n # m
      BY <1>0, <2>1 DEF Idle
    <2> QED BY <1>0, <2>1, <2>2
  <1>9. CASE StopMain(m)
    <2> DEFINE r == IF chain[m][timeout[m]].at = "armed" THEN Idle ELSE chain[m][timeout[m]]
    <2>1. chain' = [chain EXCEPT ![m][timeout[m]] = r]
      BY <1>9, Zenon DEF StopMain
    <2>2. r = chain[m][timeout[m]] \/ r.at = "off"
      BY DEF Idle
    <2> HIDE DEF r
    <2>3. chain'[n][j] = IF n = m /\ j = timeout[m] THEN r ELSE chain[n][j]
      BY <1>0, <2>1
    <2> QED BY <2>2, <2>3
  <1>10. CASE StartMain(m)
    BY <1>10 DEF StartMain, recovery
  <1> QED
    BY <1>2, <1>3, <1>4, <1>5, <1>6, <1>7, <1>8, <1>9, <1>10
    DEF MainStep, Recovery, MainCrashes, ExitMain, ForceExit

\* At the start no check has read anything.
LEMMA InitChecks == Init => CheckedIsNotQueued
  BY DEF Init, CheckedIsNotQueued, Idle

\* Every step keeps the ids of a check out of the queue, but for the late ones.
LEMMA NextChecks == Types /\ CheckedIsNotQueued /\ [Next]_vars => CheckedIsNotQueued'
  <1> SUFFICES ASSUME Types, CheckedIsNotQueued, [Next]_vars,
                      NEW n \in Mains, NEW j \in Chains, chain'[n][j].at = "jobs read",
                      NEW e \in chain'[n][j].ids, Queueing(e)'
               PROVE e \in late'
    BY DEF CheckedIsNotQueued, Queued, Queueing
  <1>1. e \in Executions
    <2>1. RecoveryTypes'
      BY NextTypes DEF Types
    <2> QED BY <2>1 DEF RecoveryTypes
  <1>2. late \subseteq late'
    BY LateGrows
  <1>3. chain[n][j].at = "jobs read" /\ e \in chain[n][j].ids => ~Queueing(e) \/ e \in late
    BY <1>1 DEF CheckedIsNotQueued, Queued, Queueing
  <1>4. CASE UNCHANGED mains
    <2>1. chain'[n][j] = chain[n][j]
      BY <1>4 DEF mains, recovery
    <2>2. CASE Queueing(e)
      BY <1>2, <1>3, <2>1, <2>2
    <2>3. CASE AddJob(e)
      <3>1. Checking
        BY <2>1 DEF Checking
      <3> QED BY <2>3, <3>1 DEF AddJob
    <2> QED BY <1>1, <2>2, <2>3, QueueGrows
  <1>5. ASSUME NEW m \in Mains, MainStep(m) PROVE e \in late'
    <2>1. UNCHANGED <<job, late>>
      BY <1>5, MainStepFrame
    <2>2. Queueing(e)
      BY <2>1 DEF Queueing
    <2>3. chain'[n][j] = chain[n][j]
      BY <1>1, <1>5, <2>2, ChecksRead DEF Queued, Queueing
    <2> QED BY <1>2, <1>3, <2>2, <2>3
  <1> QED BY <1>4, <1>5, OtherSteps

\* A step that marks a row is one of a check that has read the jobs.
LEMMA MarksChecked ==
    ASSUME Types, CheckedIsNotQueued, [Next]_vars
    PROVE [\A e \in Executions :
             db[e].status # "crashed" /\ db'[e].status = "crashed" /\ e \in Queued
             => e \in late]_vars
  <1> SUFFICES ASSUME NEW e \in Executions, db[e].status # "crashed", db'[e].status = "crashed",
                      e \in Queued
               PROVE e \in late
    OBVIOUS
  <1> USE DEF calls, stops, runs, workers, mains, others
  <1>0. db \in [Executions -> [status : Statuses, finished : BOOLEAN]]
    BY DEF Types, RowTypes
  <1>0a. ASSUME NEW d \in Executions, NEW status \in Statuses \ {"crashed"}, SetRow(d, status)
         PROVE FALSE
    BY <1>0, <1>0a DEF SetRow
  <1>1. ASSUME NEW d \in Executions, Call(d) PROVE FALSE
    BY <1>0a, <1>1 DEF Call, Create, Register, CheckFails, AttachFails, AddJob, AddFails, AwaitJob,
                JobFinished, JobFailed, SaveError, Statuses
  <1>2. ASSUME NEW d \in Executions, StopJob(d) \/ Stall(d) PROVE FALSE
    BY <1>2, StopJobFrame
  <1>3. ASSUME NEW s \in Stops, StopCall(s) PROVE FALSE
    BY <1>0, <1>3 DEF StopCall, ReadToStop, StopActive, WriteStopped
  <1>4. ASSUME NEW a \in Attempts, ProcessJob(a) PROVE FALSE
    <2>1. Id(a) \in Executions
      BY DEF Attempts, Id
    <2>2. CASE SetRunning(a)
      BY <1>0, <2>1, <2>2 DEF SetRunning
    <2>3. CASE ~SetRunning(a)
      BY <1>0a, <1>4, <2>1, <2>3 DEF ProcessJob, FindExecution, RunThrows, StartRun, ReadProgress,
                WriteProgress, EndRun, SaveOutcome, SaveFails, SaveAgain, SaveCancelled,
                RunEnded, EndJob, Statuses
    <2> QED BY <2>2, <2>3
  <1>5. ASSUME NEW w \in Workers, WorkerStep(w) PROVE FALSE
    BY <1>5, WorkerStepFrame
  <1>6. ASSUME NEW m \in Mains, MainStep(m) PROVE e \in late
    <2>1. PICK k \in Chains : MarkAsCrashed(m, k)
      BY <1>6 DEF MainStep, TakeOver, StepDown, Recovery, GetInProgress, FindJobs,
                RecoveryFails, MainCrashes, StopMain, ExitMain, ForceExit, MainDies, StartMain
    <2>2. chain[m][k].at = "jobs read" /\ e \in chain[m][k].ids
      BY <2>1 DEF MarkAsCrashed
    <2> QED BY <2>2 DEF CheckedIsNotQueued
  <1> QED BY <1>1, <1>2, <1>3, <1>4, <1>5, <1>6 DEF Next, vars

\* markAsCrashed() never hits an execution whose job is waiting or active, unless the job was
\* added after a check had read the jobs: any number of checks in any number of mains.
THEOREM QueuedNeverMarked == Spec => QueuedIsNotMarked
  BY InitTypes, NextTypes, InitChecks, NextChecks, MarksChecked, PTL DEF Spec, QueuedIsNotMarked

-----------------------------------------------------------------------------
(* Attempts and the runs that count                                        *)

\* A row is open after a step only if it was, or is new, or is opened again.
LEMMA RowSteps ==
    ASSUME Types, [Next]_vars, NEW e \in Executions, Open(e)'
    PROVE \/ Open(e)
          \/ Create(e)
          \/ /\ e \in reopened'
             /\ \E a \in Attempts : Id(a) = e /\ At(a, {"found", "saving progress"})
  <1> DEFINE Ok == \/ Open(e)
                   \/ Create(e)
                   \/ /\ e \in reopened'
                      /\ \E a \in Attempts : Id(a) = e /\ At(a, {"found", "saving progress"})
  <1> USE DEF calls, stops, runs, workers, mains, others
  <1>0. db \in [Executions -> [status : Statuses, finished : BOOLEAN]]
    BY DEF Types, RowTypes
  <1>0a. UNCHANGED db => Ok
    BY DEF Open
  <1>0b. ASSUME NEW d \in Executions, NEW status \in {"success", "error", "canceled"},
                SetRow(d, status)
         PROVE Ok
    BY <1>0, <1>0b DEF SetRow, Open
  <1>1. ASSUME NEW d \in Executions, Call(d) PROVE Ok
    <2>1. CASE Create(d)
      BY <1>0, <2>1 DEF Create, SetRow, Open
    <2>2. CASE CheckFails(d) \/ SaveError(d)
      BY <1>0b, <2>2 DEF CheckFails, SaveError
    <2>3. CASE ~(Create(d) \/ CheckFails(d) \/ SaveError(d))
      BY <1>0a, <1>1, <2>3 DEF Call, Register, AttachFails, AddJob, AddFails, AwaitJob,
                JobFinished, JobFailed
    <2> QED BY <2>1, <2>2, <2>3
  <1>2. ASSUME NEW d \in Executions, StopJob(d) \/ Stall(d) PROVE Ok
    BY <1>0a, <1>2, StopJobFrame
  <1>3. ASSUME NEW s \in Stops, StopCall(s) PROVE Ok
    <2>1. CASE WriteStopped(s)
      BY <1>0, <2>1 DEF WriteStopped, Open
    <2> QED BY <1>0a, <1>3, <2>1 DEF StopCall, ReadToStop, StopActive
  <1>4. ASSUME NEW a \in Attempts, ProcessJob(a) PROVE Ok
    <2>1. Id(a) \in Executions
      BY DEF Attempts, Id
    <2>2. CASE SetRunning(a) \/ WriteProgress(a)
      <3>1. Id(a) = e \/ db'[e] = db[e]
        BY <1>0, <2>1, <2>2 DEF SetRunning, WriteProgress, SetRow
      <3>2. CASE Id(a) = e
        <4>1. Reopens(Id(a)) /\ At(a, {"found", "saving progress"})
          BY <2>2 DEF SetRunning, WriteProgress, At
        <4>2. reopened' = reopened \cup IF Open(e) THEN {} ELSE {e}
          BY <3>2, <4>1 DEF Reopens
        <4>3. CASE ~Open(e)
          BY <3>2, <4>1, <4>2, <4>3
        <4> QED BY <4>3
      <3>3. CASE db'[e] = db[e]
        BY <3>3 DEF Open
      <3> QED BY <3>1, <3>2, <3>3
    <2>3. CASE SaveOutcome(a) \/ SaveAgain(a) \/ SaveCancelled(a)
      BY <1>0b, <2>1, <2>3 DEF SaveOutcome, SaveAgain, SaveCancelled
    <2> QED
      BY <1>0a, <1>4, <2>2, <2>3 DEF ProcessJob, FindExecution, RunThrows, StartRun, ReadProgress,
                EndRun, SaveFails, RunEnded, EndJob
  <1>5. ASSUME NEW w \in Workers, WorkerStep(w) PROVE Ok
    BY <1>0a, <1>5, WorkerStepFrame
  <1>6. ASSUME NEW m \in Mains, MainStep(m) PROVE Ok
    <2>1. CASE \E k \in Chains : MarkAsCrashed(m, k)
      BY <1>0, <2>1 DEF MarkAsCrashed, Open
    <2> QED
      BY <1>0a, <1>6, <2>1 DEF MainStep, TakeOver, StepDown, Recovery, GetInProgress, FindJobs,
                RecoveryFails, MainCrashes, StopMain, ExitMain, ForceExit, MainDies, StartMain
  <1> QED BY <1>0a, <1>1, <1>2, <1>3, <1>4, <1>5, <1>6 DEF Next, vars

\* What a step does to the call of run() for an execution
LEMMA CallSteps ==
    ASSUME Types, [Next]_vars, NEW e \in Executions
    PROVE \/ pc'[e] = pc[e]
          \/ Call(e)
          \/ pc[e] # "unused" /\ pc'[e] = "lost"
  <1> DEFINE Ok == \/ pc'[e] = pc[e]
                   \/ Call(e)
                   \/ pc[e] # "unused" /\ pc'[e] = "lost"
  <1> USE DEF calls, stops, runs, workers, mains, others
  <1>1. ASSUME NEW d \in Executions, Call(d) PROVE Ok
    <2>1. CASE d # e
      BY <1>1, <2>1 DEF Call, Create, Register, CheckFails, AttachFails, AddJob, AddFails,
                AwaitJob, JobFinished, JobFailed, SaveError, Goto, Types, CallTypes
    <2> QED BY <1>1, <2>1
  <1>2. ASSUME NEW d \in Executions, StopJob(d) \/ Stall(d) PROVE Ok
    BY <1>2, StopJobFrame
  <1>3. ASSUME NEW s \in Stops, StopCall(s) PROVE Ok
    BY <1>3, StopCallFrame
  <1>4. ASSUME NEW a \in Attempts, ProcessJob(a) PROVE Ok
    BY <1>4, ProcessJobFrame
  <1>5. ASSUME NEW w \in Workers, WorkerStep(w) PROVE Ok
    BY <1>5, WorkerStepFrame
  <1>6. ASSUME NEW m \in Mains, MainStep(m) PROVE Ok
    <2>1. CASE MainDies(m)
      BY <2>1 DEF MainDies
    <2> QED
      BY <1>6, <2>1 DEF MainStep, TakeOver, StepDown, Recovery, GetInProgress, FindJobs,
                MarkAsCrashed, RecoveryFails, MainCrashes, StopMain, ExitMain, ForceExit, StartMain
  <1> QED BY <1>1, <1>2, <1>3, <1>4, <1>5, <1>6 DEF Next, vars

\* What a step does to an attempt
LEMMA AttemptSteps ==
    ASSUME Types, [Next]_vars, NEW a \in Attempts
    PROVE \/ attempt'[a] = attempt[a]
          \/ ProcessJob(a) /\ attempt[a].at # "none" /\ attempt'[a].at # "none"
             /\ attempt'[a].worker = attempt[a].worker
          \/ \E w \in Workers : /\ job[Id(a)].at = "waiting" /\ job'[Id(a)].at = "active"
                                /\ a[2] = job[Id(a)].stalls + 1
                                /\ job'[Id(a)].stalls = job[Id(a)].stalls
                                /\ attempt'[a] = [at |-> "picked", worker |-> w]
          \/ \E w \in Workers : /\ WorkerDies(w)
                                /\ attempt[a].worker = w
                                /\ attempt'[a].worker = w /\ attempt'[a].at = "over"
  <1> DEFINE Ok ==
          \/ attempt'[a] = attempt[a]
          \/ ProcessJob(a) /\ attempt[a].at # "none" /\ attempt'[a].at # "none"
             /\ attempt'[a].worker = attempt[a].worker
          \/ \E w \in Workers : /\ job[Id(a)].at = "waiting" /\ job'[Id(a)].at = "active"
                                /\ a[2] = job[Id(a)].stalls + 1
                                /\ job'[Id(a)].stalls = job[Id(a)].stalls
                                /\ attempt'[a] = [at |-> "picked", worker |-> w]
          \/ \E w \in Workers : /\ WorkerDies(w)
                                /\ attempt[a].worker = w
                                /\ attempt'[a].worker = w /\ attempt'[a].at = "over"
  <1> USE DEF calls, stops, runs, workers, mains, others, cancels
  <1>0. /\ attempt \in [Attempts ->
             [at : {"none", "picked", "found", "marked", "throwing", "running",
                    "saving progress", "saving", "saving again", "ended", "returning", "over"},
              worker : Workers \cup {None}]]
        /\ job \in [Executions ->
             [at : {"none", "waiting", "active", "completed", "failed", "removed"},
              worker : Workers \cup {None}, stalls : 0..MaxStalledCount,
              reason : {"none", "cancelled", "error", "stalled"}]]
        /\ Id(a) \in Executions /\ a = <<Id(a), a[2]>>
    <2>1. \A b \in Executions \X (1..(MaxStalledCount + 1)) :
             b[1] \in Executions /\ b = <<b[1], b[2]>>
      OBVIOUS
    <2>2. Id(a) \in Executions /\ a = <<Id(a), a[2]>>
      BY <2>1 DEF Attempts, Id
    <2> QED BY <2>2 DEF Types, AttemptTypes, JobTypes
  <1>0a. ASSUME NEW b \in Attempts, NEW label, label # "none", Move(b, label), ProcessJob(b),
                attempt[b].at # "none"
         PROVE Ok
    BY <1>0, <1>0a DEF Move
  <1>1. ASSUME NEW e \in Executions, Call(e) PROVE Ok
    BY <1>1, CallFrame
  <1>2. ASSUME NEW e \in Executions, StopJob(e) \/ Stall(e) PROVE Ok
    BY <1>2, StopJobFrame
  <1>3. ASSUME NEW s \in Stops, StopCall(s) PROVE Ok
    BY <1>3, StopCallFrame
  <1>4. ASSUME NEW b \in Attempts, ProcessJob(b) PROVE Ok
    <2>1. \/ UNCHANGED attempt
          \/ attempt[b].at # "none" /\ \E label : label # "none" /\ Move(b, label)
      BY <1>4 DEF ProcessJob, FindExecution, SetRunning, RunThrows, StartRun, ReadProgress,
                WriteProgress, EndRun, SaveOutcome, SaveFails, SaveAgain, SaveCancelled,
                RunEnded, EndJob, At
    <2> QED BY <1>0a, <1>4, <2>1
  <1>5. ASSUME NEW w \in Workers, WorkerStep(w) PROVE Ok
    <2>1. ASSUME NEW e \in Executions, PickUp(w, e) PROVE Ok
      <3> DEFINE r == [at |-> "picked", worker |-> w]
                 b == <<e, job[e].stalls + 1>>
      <3>1. /\ attempt' = [attempt EXCEPT ![b] = r]
            /\ job[e].at = "waiting"
            /\ job' = [job EXCEPT ![e].at = "active", ![e].worker = w]
        BY <2>1 DEF PickUp
      <3>2. job'[e].at = "active" /\ job'[e].stalls = job[e].stalls
        BY <1>0, <3>1
      <3>3. CASE a = b
        <4>1. attempt'[a] = r
          BY <1>0, <3>1, <3>3
        <4>2. Id(a) = e /\ a[2] = job[e].stalls + 1
          BY <3>3 DEF Id
        <4> QED BY <3>1, <3>2, <4>1, <4>2
      <3>4. CASE a # b
        <4> HIDE DEF b, r
        <4>1. attempt'[a] = attempt[a]
          BY <1>0, <3>1, <3>4
        <4> QED BY <4>1
      <3> QED BY <3>3, <3>4
    <2>2. ASSUME WorkerDies(w) PROVE Ok
      <3>1. attempt' = [b \in Attempts |->
                IF b \in {d \in Attempts : Worker(d) = w}
                THEN [attempt[b] EXCEPT !.at = "over"] ELSE attempt[b]]
        BY <2>2 DEF WorkerDies
      <3>2. attempt'[a] = IF attempt[a].worker = w
                          THEN [attempt[a] EXCEPT !.at = "over"] ELSE attempt[a]
        BY <3>1 DEF Worker
      <3>3. CASE attempt[a].worker = w
        <4>1. /\ attempt'[a] = [attempt[a] EXCEPT !.at = "over"]
              /\ attempt[a] \in [at : {"none", "picked", "found", "marked", "throwing",
                                      "running", "saving progress", "saving",
                                      "saving again", "ended", "returning", "over"},
                                worker : Workers \cup {None}]
          BY <1>0, <3>2, <3>3
        <4>2. attempt'[a].worker = w /\ attempt'[a].at = "over"
          BY <3>3, <4>1
        <4> QED BY <2>2, <3>3, <4>2
      <3>4. CASE attempt[a].worker # w
        <4>1. attempt'[a] = attempt[a]
          BY <3>2, <3>4
        <4> QED BY <4>1
      <3> QED BY <3>3, <3>4
    <2> QED
      BY <1>5, <2>1, <2>2 DEF WorkerStep, ReceiveAbort, WorkerCrashes, StopWorker,
                ExitWorker, StartWorker
  <1>6. ASSUME NEW m \in Mains, MainStep(m) PROVE Ok
    BY <1>6, MainStepFrame
  <1> QED BY <1>1, <1>2, <1>3, <1>4, <1>5, <1>6 DEF Next, vars

\* Attempts begun of the job of e
Taken(e) == job[e].stalls + IF job[e].at \in {"none", "waiting"} THEN 0 ELSE 1

\* A job is added once, after its row and before its end is awaited.
JobIsNew ==
    \A e \in Executions :
        /\ pc[e] \in {"unused", "created", "registered"} =>
              job[e].at = "none" /\ job[e].stalls = 0
        /\ pc[e] = "unused" => ~Open(e)
        /\ pc[e] \in {"enqueued", "awaiting"} => job[e].at # "none"

\* Attempts that have not begun are in no worker; all the others are in one, dead or alive.
AttemptsInTurn ==
    \A a \in Attempts :
        /\ a[2] > Taken(Id(a)) => attempt[a].at = "none"
        /\ attempt[a].at = "none" <=> attempt[a].worker = None

JobInv == JobIsNew /\ AttemptsInTurn

\* At the start no job was added and none taken.
LEMMA InitJobs == Init => JobInv
  <1> SUFFICES ASSUME Init PROVE JobInv
    OBVIOUS
  <1>1. \A a \in Attempts : attempt[a].at = "none" /\ attempt[a].worker = None
    BY DEF Init
  <1>2. JobIsNew
    BY DEF Init, JobIsNew, Open
  <1> QED BY <1>1, <1>2 DEF JobInv, AttemptsInTurn

\* Every step keeps job and call together.
LEMMA NextJobIsNew ==
    ASSUME Types, JobInv, [Next]_vars
    PROVE JobIsNew'
  <1> SUFFICES ASSUME NEW e \in Executions
               PROVE /\ pc'[e] \in {"unused", "created", "registered"} =>
                           job'[e].at = "none" /\ job'[e].stalls = 0
                     /\ pc'[e] = "unused" => ~Open(e)'
                     /\ pc'[e] \in {"enqueued", "awaiting"} => job'[e].at # "none"
    BY DEF JobIsNew
  <1>0. /\ pc[e] \in {"unused", "created", "registered"} =>
              job[e].at = "none" /\ job[e].stalls = 0
        /\ pc[e] = "unused" => ~Open(e)
        /\ pc[e] \in {"enqueued", "awaiting"} => job[e].at # "none"
    BY DEF JobInv, JobIsNew
  <1>0a. pc \in [Executions -> {"unused", "created", "registered", "enqueued", "awaiting",
                                "failing", "unheard", "over", "lost"}]
    BY DEF Types, CallTypes
  <1>1. CASE Call(e)
    <2>1. CASE AddJob(e)
      <3>1. pc'[e] = "enqueued"
        BY <1>0a, <2>1 DEF AddJob, Goto
      <3>2. job'[e].at = "waiting"
        BY <2>1 DEF AddJob, Types, JobTypes
      <3> QED BY <3>1, <3>2
    <2>2. CASE ~AddJob(e)
      <3>1. job' = job
        BY <1>1, <2>2 DEF Call, Create, Register, CheckFails, AttachFails, AddFails, AwaitJob,
                JobFinished, JobFailed, SaveError
      <3>2. /\ pc'[e] # "unused"
            /\ pc'[e] = "created" => pc[e] = "unused"
            /\ pc'[e] = "registered" => pc[e] = "created"
            /\ pc'[e] # "enqueued"
            /\ pc'[e] = "awaiting" => pc[e] = "enqueued"
        BY <1>0a, <1>1, <2>2 DEF Call, Create, Register, CheckFails, AttachFails, AddFails,
                AwaitJob, JobFinished, JobFailed, SaveError, Goto
      <3> QED BY <1>0, <3>1, <3>2
    <2> QED BY <2>1, <2>2
  <1>2. CASE ~Call(e)
    <2>1. /\ pc'[e] \in {"unused", "created", "registered", "enqueued", "awaiting"} =>
                pc'[e] = pc[e]
      BY <1>2, CallSteps
    <2>2. /\ job[e].at = "none" => job'[e] = job[e]
          /\ job[e].at # "none" => job'[e].at # "none"
      BY <1>2, JobSteps DEF JobStep, Call
    <2>3. ASSUME pc'[e] = "unused", Open(e)' PROVE FALSE
      <3>1. pc[e] = "unused" /\ ~Open(e) /\ Taken(e) = 0
        BY <1>0, <2>1, <2>3 DEF Taken
      <3>2. PICK a \in Attempts : Id(a) = e /\ At(a, {"found", "saving progress"})
        BY <1>2, <2>3, <3>1, RowSteps DEF Call
      <3>3. a[2] > 0
        BY DEF Attempts
      <3> QED BY <3>1, <3>2, <3>3 DEF JobInv, AttemptsInTurn, At
    <2> QED BY <1>0, <2>1, <2>2, <2>3
  <1> QED BY <1>1, <1>2

\* The number of attempts begun never falls; taking a waiting job begins the next.
LEMMA TakenGrows ==
    ASSUME Types, JobInv, [Next]_vars, NEW e \in Executions
    PROVE /\ Taken(e) \in Nat /\ Taken(e)' \in Nat /\ Taken(e)' >= Taken(e)
          /\ job[e].at = "waiting" /\ job'[e].at = "active"
             /\ job'[e].stalls = job[e].stalls => Taken(e)' = job[e].stalls + 1
  <1>1. /\ job[e].stalls \in Nat
        /\ job[e].at \in {"none", "waiting", "active", "completed", "failed", "removed"}
    BY ScalingAssumption DEF Types, JobTypes
  <1>2. AddJob(e) => job[e].at = "none"
    BY DEF JobInv, JobIsNew, AddJob
  <1>3. JobStep(e)
    BY JobSteps
  <1> QED BY <1>1, <1>2, <1>3 DEF JobStep, Taken

\* Every step keeps the attempts in turn.
LEMMA NextAttempts ==
    ASSUME Types, JobInv, [Next]_vars
    PROVE AttemptsInTurn'
  <1> SUFFICES ASSUME NEW a \in Attempts
               PROVE /\ a[2] > Taken(Id(a))' => attempt'[a].at = "none"
                     /\ attempt'[a].at = "none" <=> attempt'[a].worker = None
    BY DEF AttemptsInTurn, Id
  <1>0. /\ a[2] > Taken(Id(a)) => attempt[a].at = "none"
        /\ attempt[a].at = "none" <=> attempt[a].worker = None
    BY DEF JobInv, AttemptsInTurn
  <1>1. Id(a) \in Executions /\ a[2] \in Nat
    BY ScalingAssumption DEF Attempts, Id
  <1> PICK e \in Executions : e = Id(a)
    BY <1>1
  <1>2. /\ Taken(e) \in Nat /\ Taken(e)' \in Nat /\ Taken(e)' >= Taken(e)
        /\ job[e].at = "waiting" /\ job'[e].at = "active"
           /\ job'[e].stalls = job[e].stalls => Taken(e)' = job[e].stalls + 1
    BY TakenGrows
  <1>2a. Taken(Id(a)) = Taken(e) /\ Taken(Id(a))' = Taken(e)'
    BY DEF Taken, Id
  <1>3. CASE attempt'[a] = attempt[a]
    BY <1>0, <1>1, <1>2, <1>2a, <1>3
  <1>4. CASE /\ attempt[a].at # "none" /\ attempt'[a].at # "none"
             /\ attempt'[a].worker = attempt[a].worker
    BY <1>0, <1>1, <1>2, <1>2a, <1>4
  <1>5. ASSUME NEW w \in Workers, job[Id(a)].at = "waiting", job'[Id(a)].at = "active",
               a[2] = job[Id(a)].stalls + 1, job'[Id(a)].stalls = job[Id(a)].stalls,
               attempt'[a] = [at |-> "picked", worker |-> w]
        PROVE /\ a[2] > Taken(Id(a))' => attempt'[a].at = "none"
              /\ attempt'[a].at = "none" <=> attempt'[a].worker = None
    BY <1>1, <1>2, <1>2a, <1>5, ScalingAssumption
  <1>6. ASSUME NEW w \in Workers, attempt[a].worker = w,
               attempt'[a].worker = w, attempt'[a].at = "over"
        PROVE /\ a[2] > Taken(Id(a))' => attempt'[a].at = "none"
              /\ attempt'[a].at = "none" <=> attempt'[a].worker = None
    BY <1>0, <1>1, <1>2, <1>2a, <1>6, ScalingAssumption
  <1> QED BY <1>3, <1>4, <1>5, <1>6, AttemptSteps

\* Every step keeps what is known of jobs and attempts.
LEMMA NextJobs == Types /\ JobInv /\ [Next]_vars => JobInv'
  BY NextJobIsNew, NextAttempts DEF JobInv

\* A run has started and is not saved.
Executing == {"running", "saving progress", "saving", "saving again"}

\* A run that is under way after a step, and not cancelled, was, or has started.
LEMMA RunSteps ==
    ASSUME Types, JobInv, [Next]_vars, NEW a \in Attempts,
           attempt'[a].at \in Executing, a \notin cancelled'
    PROVE \/ /\ attempt[a].at \in Executing /\ a \notin cancelled
             /\ attempt'[a].worker = attempt[a].worker
          \/ StartRun(a)
  <1> DEFINE Ok ==
          \/ /\ attempt[a].at \in Executing /\ a \notin cancelled
             /\ attempt'[a].worker = attempt[a].worker
          \/ StartRun(a)
  <1> USE DEF calls, stops, runs, workers, mains, others, cancels
  <1>0. /\ attempt \in [Attempts ->
             [at : {"none", "picked", "found", "marked", "throwing", "running",
                    "saving progress", "saving", "saving again", "ended", "returning", "over"},
              worker : Workers \cup {None}]]
    BY DEF Types, AttemptTypes
  <1>0a. UNCHANGED <<attempt, cancelled>> => Ok
    OBVIOUS
  <1>1. ASSUME NEW e \in Executions, Call(e) PROVE UNCHANGED <<attempt, cancelled>>
    BY <1>1, CallFrame
  <1>2. ASSUME NEW e \in Executions, StopJob(e) \/ Stall(e) PROVE UNCHANGED <<attempt, cancelled>>
    BY <1>2, StopJobFrame
  <1>3. ASSUME NEW s \in Stops, StopCall(s) PROVE UNCHANGED <<attempt, cancelled>>
    BY <1>3, StopCallFrame
  <1>4. ASSUME NEW b \in Attempts, ProcessJob(b) PROVE Ok
    <2>1. UNCHANGED cancelled
      BY <1>4, ProcessJobFrame
    <2>2. CASE attempt'[a] = attempt[a]
      BY <2>1, <2>2
    <2>3. CASE attempt'[a] # attempt[a]
      <3>1. \/ UNCHANGED attempt
            \/ StartRun(b)
            \/ /\ attempt[b].at \notin Executing
               /\ \E label : label \notin Executing /\ Move(b, label)
            \/ /\ attempt[b].at \in Executing
               /\ \E label : Move(b, label)
        BY <1>4 DEF ProcessJob, FindExecution, SetRunning, RunThrows, StartRun, ReadProgress,
                WriteProgress, EndRun, SaveOutcome, SaveFails, SaveAgain, SaveCancelled,
                RunEnded, EndJob, At, Executing
      <3>2. ASSUME NEW label, Move(b, label)
            PROVE b = a /\ attempt'[a].worker = attempt[a].worker
        BY <1>0, <2>3, <3>2 DEF Move
      <3>3. ASSUME NEW label, label \notin Executing, Move(b, label) PROVE FALSE
        BY <1>0, <2>3, <3>3 DEF Move
      <3>4. StartRun(b) => b = a
        BY <1>0, <2>3 DEF StartRun, Move
      <3> QED BY <2>1, <2>3, <3>1, <3>2, <3>3, <3>4
    <2> QED BY <2>2, <2>3
  <1>5. ASSUME NEW w \in Workers, WorkerStep(w) PROVE Ok
    <2>1. ASSUME NEW e \in Executions, PickUp(w, e) PROVE Ok
      <3>1. UNCHANGED cancelled
        BY <2>1 DEF PickUp
      <3>2. attempt'[a] = attempt[a]
        BY <1>0, <2>1 DEF PickUp, Executing
      <3> QED BY <3>1, <3>2
    <2>2. ASSUME NEW e \in Executions, ReceiveAbort(e, w) PROVE Ok
      BY <2>2 DEF ReceiveAbort
    <2>3. ASSUME WorkerDies(w) PROVE Ok
      <3>1. attempt[a].worker # w /\ attempt'[a] = attempt[a]
        BY <1>0, <2>3 DEF WorkerDies, Worker, Executing
      <3>2. a \notin cancelled
        BY <2>3, <3>1 DEF WorkerDies, Worker
      <3> QED BY <3>1, <3>2
    <2>4. CASE StopWorker(w) \/ StartWorker(w)
      BY <2>4 DEF StopWorker, StartWorker
    <2> QED
      BY <1>5, <2>1, <2>2, <2>3, <2>4 DEF WorkerStep, WorkerCrashes, ExitWorker
  <1>6. ASSUME NEW m \in Mains, MainStep(m) PROVE UNCHANGED <<attempt, cancelled>>
    BY <1>6, MainStepFrame
  <1> QED BY <1>0a, <1>1, <1>2, <1>3, <1>4, <1>5, <1>6 DEF Next, vars

\* A counter in runningJobs changes as a run starts or ends, is aborted, or is lost.
LEMMA CountSteps ==
    ASSUME Types, JobInv, [Next]_vars, NEW w \in Workers, NEW e \in Executions
    PROVE \/ runningJobs'[w][e] = runningJobs[w][e]
          \/ \E b \in Attempts : /\ StartRun(b) \/ RunEnded(b)
                                 /\ Worker(b) = w /\ Id(b) = e
          \/ ReceiveAbort(e, w)
          \/ WorkerDies(w)
  <1> DEFINE Ok ==
          \/ runningJobs'[w][e] = runningJobs[w][e]
          \/ \E b \in Attempts : /\ StartRun(b) \/ RunEnded(b)
                                 /\ Worker(b) = w /\ Id(b) = e
          \/ ReceiveAbort(e, w)
          \/ WorkerDies(w)
  <1> USE DEF calls, stops, runs, workers, mains, others, cancels
  <1>0. runningJobs \in [Workers -> [Executions -> 0..(MaxStalledCount + 1)]]
    BY DEF Types, CountTypes
  <1>1. ASSUME NEW d \in Executions, Call(d) PROVE UNCHANGED runningJobs
    BY <1>1, CallFrame
  <1>2. ASSUME NEW d \in Executions, StopJob(d) \/ Stall(d) PROVE UNCHANGED runningJobs
    BY <1>2, StopJobFrame
  <1>3. ASSUME NEW s \in Stops, StopCall(s) PROVE UNCHANGED runningJobs
    BY <1>3, StopCallFrame
  <1>4. ASSUME NEW b \in Attempts, ProcessJob(b) PROVE Ok
    <2>1. CASE StartRun(b) \/ RunEnded(b)
      BY <1>0, <2>1 DEF StartRun, RunEnded
    <2> QED
      BY <1>4, <2>1 DEF ProcessJob, FindExecution, SetRunning, RunThrows, ReadProgress,
                WriteProgress, EndRun, SaveOutcome, SaveFails, SaveAgain, SaveCancelled,
                EndJob
  <1>5. ASSUME NEW v \in Workers, WorkerStep(v) PROVE Ok
    <2>1. ASSUME NEW d \in Executions, PickUp(v, d) PROVE Ok
      BY <2>1 DEF PickUp
    <2>2. ASSUME NEW d \in Executions, ReceiveAbort(d, v) PROVE Ok
      <3>1. runningJobs' = [runningJobs EXCEPT ![v][d] = 0]
        BY <2>2 DEF ReceiveAbort
      <3> QED BY <1>0, <2>2, <3>1
    <2>3. ASSUME WorkerDies(v) PROVE Ok
      <3>1. runningJobs' = [runningJobs EXCEPT ![v] = [d \in Executions |-> 0]]
        BY <2>3 DEF WorkerDies
      <3> QED BY <1>0, <2>3, <3>1
    <2>4. CASE StopWorker(v) \/ StartWorker(v)
      BY <2>4 DEF StopWorker, StartWorker
    <2> QED
      BY <1>5, <2>1, <2>2, <2>3, <2>4 DEF WorkerStep, WorkerCrashes, ExitWorker
  <1>6. ASSUME NEW m \in Mains, MainStep(m) PROVE UNCHANGED runningJobs
    BY <1>6, MainStepFrame
  <1> QED BY <1>1, <1>2, <1>3, <1>4, <1>5, <1>6 DEF Next, vars

\* At the start nothing runs.
LEMMA InitCounted == Init => RunIsCounted
  <1> SUFFICES ASSUME Init PROVE \A a \in Attempts : attempt[a].at = "none"
    BY DEF RunIsCounted, At
  <1> QED BY DEF Init

\* Every step keeps the runs counted: a counter is lost by an abort, which cancels the run,
\* with the worker, or to another attempt of the same job in the same worker.
LEMMA NextCounted == Types /\ JobInv /\ RunIsCounted /\ [Next]_vars => RunIsCounted'
  <1> SUFFICES ASSUME Types, JobInv, RunIsCounted, [Next]_vars, NEW a \in Attempts,
                      attempt'[a].at \in Executing, a \notin cancelled'
               PROVE \/ runningJobs'[attempt'[a].worker][Id(a)] = a[2]
                     \/ \E b \in Attempts \ {a} : Id(b) = Id(a)
                                                  /\ attempt'[b].worker = attempt'[a].worker
    BY DEF RunIsCounted, At, Worker, Executing, Id
  <1> DEFINE Shared == \E b \in Attempts \ {a} :
                          Id(b) = Id(a) /\ attempt[b].worker = attempt[a].worker
  <1>0. /\ runningJobs \in [Workers -> [Executions -> 0..(MaxStalledCount + 1)]]
        /\ attempt[a].worker \in Workers \cup {None}
        /\ Id(a) \in Executions
    BY DEF Types, CountTypes, AttemptTypes, Attempts, Id
  <1>1. /\ (attempt[a].at \in Executing /\ a \notin cancelled) \/ StartRun(a)
        /\ attempt[a].at # "none" /\ attempt'[a].worker = attempt[a].worker
    <2>1. CASE StartRun(a)
      BY <2>1 DEF StartRun, At, Move, Types, AttemptTypes
    <2> QED BY <2>1, RunSteps DEF Executing
  <1>2. attempt[a].worker # None
    BY <1>1 DEF JobInv, AttemptsInTurn
  <1>3. CASE Shared
    <2>1. PICK b \in Attempts \ {a} : Id(b) = Id(a) /\ attempt[b].worker = attempt[a].worker
      BY <1>3
    <2>2. attempt[b].at # "none"
      BY <1>2, <2>1 DEF JobInv, AttemptsInTurn
    <2>3. attempt'[b].worker = attempt[b].worker
      <3>1. CASE \E w \in Workers : /\ job[Id(b)].at = "waiting"
                                    /\ b[2] = job[Id(b)].stalls + 1
        <4>1. Taken(Id(b)) = job[Id(b)].stalls
          BY <3>1, ScalingAssumption DEF Taken, Types, JobTypes, Attempts, Id
        <4>2. job[Id(b)].stalls \in Nat
          BY ScalingAssumption DEF Types, JobTypes, Attempts, Id
        <4>3. b[2] > Taken(Id(b))
          BY <3>1, <4>1, <4>2
        <4> QED BY <2>2, <4>3 DEF JobInv, AttemptsInTurn
      <3> QED BY <3>1, AttemptSteps
    <2> QED BY <1>1, <2>1, <2>3
  <1>4. CASE ~Shared
    <2> PICK w \in Workers : w = attempt[a].worker
      BY <1>0, <1>2
    <2> PICK e \in Executions : e = Id(a)
      BY <1>0
    <2>1. CASE StartRun(a)
      <3>1. runningJobs' = [runningJobs EXCEPT ![w][e] = a[2]]
        BY <2>1 DEF StartRun, Worker
      <3> QED BY <1>0, <1>1, <3>1
    <2>2. CASE ~StartRun(a)
      <3>1. attempt[a].at \in Executing /\ a \notin cancelled
        BY <1>1, <2>2
      <3>2. runningJobs[w][e] = a[2]
        BY <1>4, <3>1 DEF RunIsCounted, At, Worker, Executing
      <3>3. ASSUME NEW b \in Attempts, StartRun(b) \/ RunEnded(b), Worker(b) = w, Id(b) = e
            PROVE FALSE
        <4>1. b = a
          BY <1>4, <3>3 DEF Worker
        <4> QED BY <2>2, <3>1, <3>3, <4>1 DEF RunEnded, At, Executing
      <3>4. ~ReceiveAbort(e, w)
        <4>1. a = <<e, a[2]>>
          BY DEF Attempts, Id
        <4> QED BY <3>1, <3>2, <4>1 DEF ReceiveAbort, At, Executing
      <3>5. ~WorkerDies(w)
        <4> SUFFICES ASSUME WorkerDies(w) PROVE FALSE
          OBVIOUS
        <4>1. attempt'[a] = [attempt[a] EXCEPT !.at = "over"]
          BY DEF WorkerDies, Worker
        <4>2. attempt'[a].at = "over"
          BY <4>1 DEF Types, AttemptTypes
        <4> QED BY <4>2 DEF Executing
      <3>6. runningJobs'[w][e] = runningJobs[w][e]
        BY <3>3, <3>4, <3>5, CountSteps
      <3> QED BY <1>1, <3>2, <3>6
    <2> QED BY <2>1, <2>2
  <1> QED BY <1>3, <1>4

\* stopWorker() waits for every run that was not cancelled, unless its worker took the stalled
\* job twice: any number of jobs, workers, stalls, crashes, and late abort messages.
THEOREM RunsCounted == Spec => []RunIsCounted
  BY InitTypes, NextTypes, InitJobs, NextJobs, InitCounted, NextCounted, PTL DEF Spec

-----------------------------------------------------------------------------
(* Open rows                                                               *)

\* A call of stop() has stopped the run of e in its main, and has yet to write the row.
BeingStopped(e) ==
    \E s \in Stops : stop[s].at = "stopped" /\ stop[s].id = e /\ stop[s].main = MainOf[e]

\* The row of e is closed, or a stop will close it, or e is one of the exceptions.
Settled(e) ==
    /\ pc[e] # "unused"
    /\ \/ ~Open(e) \/ e \in reopened \/ pc[e] \in {"lost", "unheard"}
       \/ main[MainOf[e]] = "stopping" \/ BeingStopped(e)

\* What is over, stopped, completed or cancelled is settled, at each place that knows of it.
CallsSettled ==
    \A e \in Executions :
        /\ entry[e] # "none" => pc[e] # "unused"
        /\ pc[e] = "registered" /\ entry[e] = "none" => Settled(e)
        /\ pc[e] = "over" => Settled(e)
StopsSettled ==
    /\ \A e \in Executions : stopping[e] # "no" => Settled(e)
    /\ \A e \in Executions, w \in Workers : <<e, w>> \in aborts => Settled(e)
JobsSettled ==
    \A e \in Executions :
        job[e].at \in {"completed", "removed"} \/ job[e].reason = "cancelled" => Settled(e)
RunsSettled ==
    \A a \in Attempts : a \in cancelled \/ At(a, {"ended", "returning"}) => Settled(Id(a))

SettledInv == CallsSettled /\ StopsSettled /\ JobsSettled /\ RunsSettled

\* At the start nothing is over, stopped or cancelled.
LEMMA InitSettled == Init => SettledInv
  <1> SUFFICES ASSUME Init PROVE SettledInv
    OBVIOUS
  <1>1. CallsSettled
    BY DEF Init, CallsSettled
  <1>2. StopsSettled
    BY DEF Init, StopsSettled
  <1>3. JobsSettled
    BY DEF Init, JobsSettled
  <1>4. RunsSettled
    BY DEF Init, RunsSettled, At
  <1> QED BY <1>1, <1>2, <1>3, <1>4 DEF SettledInv

\* A row that was reopened stays known as such.
LEMMA ReopenedGrows ==
    ASSUME [Next]_vars
    PROVE reopened \subseteq reopened'
  <1>1. ASSUME NEW a \in Attempts, ProcessJob(a) PROVE reopened \subseteq reopened'
    BY <1>1, Zenon DEF ProcessJob, FindExecution, SetRunning, RunThrows, StartRun, ReadProgress,
           WriteProgress, EndRun, SaveOutcome, SaveFails, SaveAgain, SaveCancelled,
           RunEnded, EndJob, history, Reopens
  <1> QED
    BY <1>1, CallFrame, StopJobFrame, StopCallFrame, WorkerStepFrame, MainStepFrame, Stuttering
    DEF Next

\* A main that is stopping goes on stopping until it is gone.
LEMMA StoppingMain ==
    ASSUME Types, [Next]_vars, NEW m \in Mains, main[m] = "stopping"
    PROVE main'[m] = "stopping" \/ MainDies(m)
  <1>0. main \in [Mains -> {"up", "stopping", "down"}]
    BY DEF Types, ProcessTypes
  <1>1. ASSUME NEW n \in Mains, MainStep(n) PROVE main'[m] = "stopping" \/ MainDies(m)
    <2>1. CASE MainDies(n)
      BY <1>0, <2>1 DEF MainDies
    <2>2. CASE StopMain(n) \/ StartMain(n)
      BY <1>0, <2>2 DEF StopMain, StartMain
    <2> QED
      BY <1>1, <2>1, <2>2 DEF MainStep, TakeOver, StepDown, Recovery, GetInProgress, FindJobs,
             MarkAsCrashed, RecoveryFails, MainCrashes, ExitMain, ForceExit
  <1> QED BY <1>1, OtherSteps DEF mains

\* A call of stop() that has stopped its run writes the row, or is lost with its main.
LEMMA StoppedCall ==
    ASSUME Types, [Next]_vars, NEW s \in Stops, stop[s].at = "stopped"
    PROVE stop'[s] = stop[s] \/ WriteStopped(s) \/ MainDies(stop[s].main)
  <1>0. stop \in [Stops -> [at : {"idle", "done"}] \cup
                           [at : {"read", "stopped"}, id : Executions, main : Mains,
                            finished : BOOLEAN]]
    BY DEF Types, StopTypes
  <1>1. ASSUME NEW t \in Stops, StopCall(t)
        PROVE stop'[s] = stop[s] \/ WriteStopped(s)
    <2>1. CASE s = t
      BY <1>1, <2>1 DEF StopCall, ReadToStop, StopActive
    <2>2. CASE s # t
      BY <1>0, <1>1, <2>2 DEF StopCall, ReadToStop, StopActive, WriteStopped
    <2> QED BY <2>1, <2>2
  <1>2. ASSUME NEW n \in Mains, MainStep(n) PROVE stop'[s] = stop[s] \/ MainDies(stop[s].main)
    <2>1. CASE MainDies(n)
      BY <1>0, <2>1 DEF MainDies
    <2> QED
      BY <1>2, <2>1 DEF MainStep, TakeOver, StepDown, Recovery, GetInProgress, FindJobs,
             MarkAsCrashed, RecoveryFails, MainCrashes, StopMain, ExitMain, ForceExit, StartMain,
             stops
  <1> QED
    BY <1>1, <1>2, CallFrame, StopJobFrame, ProcessJobFrame, WorkerStepFrame, Stuttering
    DEF Next

\* The calls of a main are lost with it.
LEMMA DeadCalls ==
    ASSUME Types, NEW e \in Executions, MainDies(MainOf[e]), pc[e] # "unused"
    PROVE pc'[e] = "lost"
  BY DEF MainDies, Of

\* What is settled stays settled: this is the core of the argument.
LEMMA SettledStays ==
    ASSUME Types, [Next]_vars, NEW e \in Executions, Settled(e)
    PROVE Settled(e)'
  <1>0. MainOf[e] \in Mains
    BY ScalingAssumption
  <1>1. pc[e] # "unused" /\ pc'[e] # "unused"
    BY CallSteps DEF Settled, Call, Create, Register, CheckFails, AttachFails, AddJob, AddFails,
             AwaitJob, JobFinished, JobFailed, SaveError, Goto, Types, CallTypes
  <1>2. CASE ~Open(e)
    <2>1. ~Create(e)
      BY <1>1 DEF Create
    <2> QED BY <1>1, <1>2, <2>1, RowSteps DEF Settled
  <1>3. CASE e \in reopened
    BY <1>1, <1>3, ReopenedGrows DEF Settled
  <1>4. CASE pc[e] \in {"lost", "unheard"}
    <2>1. ~Call(e)
      BY <1>4 DEF Call, Create, Register, CheckFails, AttachFails, AddJob, AddFails, AwaitJob,
              JobFinished, JobFailed, SaveError
    <2> QED BY <1>1, <1>4, <2>1, CallSteps DEF Settled
  <1>5. CASE main[MainOf[e]] = "stopping"
    BY <1>0, <1>1, <1>5, StoppingMain, DeadCalls DEF Settled
  <1>6. CASE BeingStopped(e)
    <2>1. PICK s \in Stops : stop[s].at = "stopped" /\ stop[s].id = e /\ stop[s].main = MainOf[e]
      BY <1>6 DEF BeingStopped
    <2>2. CASE stop'[s] = stop[s]
      BY <1>1, <2>1, <2>2 DEF Settled, BeingStopped
    <2>3. CASE WriteStopped(s)
      <3>1. ~Open(e)'
        BY <2>1, <2>3 DEF WriteStopped, Open, Types, RowTypes
      <3> QED BY <1>1, <3>1 DEF Settled
    <2>4. CASE MainDies(MainOf[e])
      BY <1>0, <1>1, <2>4, DeadCalls DEF Settled
    <2> QED BY <2>1, <2>2, <2>3, <2>4, StoppedCall
  <1> QED BY <1>2, <1>3, <1>4, <1>5, <1>6 DEF Settled

\* What becomes of an entry in ActiveExecutions
LEMMA EntrySteps ==
    ASSUME Types, [Next]_vars, NEW e \in Executions
    PROVE \/ entry'[e] = entry[e]
          \/ Call(e)
          \/ \E s \in Stops : StopActive(s) /\ stop[s].id = e /\ stop[s].main = MainOf[e]
                              /\ entry'[e] = "none"
          \/ StopMain(MainOf[e]) /\ pc[e] \notin {"created", "registered"} /\ entry'[e] = "none"
          \/ MainDies(MainOf[e]) /\ entry'[e] = "none"
  <1> DEFINE Ok ==
          \/ entry'[e] = entry[e]
          \/ Call(e)
          \/ \E s \in Stops : StopActive(s) /\ stop[s].id = e /\ stop[s].main = MainOf[e]
                              /\ entry'[e] = "none"
          \/ StopMain(MainOf[e]) /\ pc[e] \notin {"created", "registered"} /\ entry'[e] = "none"
          \/ MainDies(MainOf[e]) /\ entry'[e] = "none"
  <1>1. ASSUME NEW d \in Executions, Call(d) PROVE Ok
    <2>1. CASE d # e
      BY <1>1, <2>1 DEF Call, Create, Register, CheckFails, AttachFails, AddJob, AddFails,
                AwaitJob, JobFinished, JobFailed, SaveError, Finalize, Types, CallTypes
    <2> QED BY <1>1, <2>1
  <1>2. ASSUME NEW s \in Stops, StopCall(s) PROVE Ok
    <2>1. CASE StopActive(s)
      BY <2>1 DEF StopActive, StopExecutions
    <2> QED BY <1>2, <2>1 DEF StopCall, ReadToStop, WriteStopped, calls
  <1>3. ASSUME NEW m \in Mains, MainStep(m) PROVE Ok
    <2>1. CASE MainDies(m)
      BY <2>1 DEF MainDies, Of
    <2>2. CASE StopMain(m)
      BY <2>2 DEF StopMain, StopExecutions, Of
    <2> QED
      BY <1>3, <2>1, <2>2 DEF MainStep, TakeOver, StepDown, Recovery, GetInProgress, FindJobs,
             MarkAsCrashed, RecoveryFails, MainCrashes, ExitMain, ForceExit, StartMain, calls
  <1> QED
    BY <1>1, <1>2, <1>3, StopJobFrame, ProcessJobFrame, WorkerStepFrame, Stuttering DEF Next

\* stopJob() is called for an entry that is attached, by a stop or a shutdown.
LEMMA StoppingSteps ==
    ASSUME Types, [Next]_vars, NEW e \in Executions, stopping[e] = "no", stopping'[e] # "no"
    PROVE /\ entry[e] = "attached"
          /\ \/ \E s \in Stops : StopActive(s) /\ stop[s].id = e /\ stop[s].main = MainOf[e]
             \/ StopMain(MainOf[e])
  <1> DEFINE Ok ==
          /\ entry[e] = "attached"
          /\ \/ \E s \in Stops : StopActive(s) /\ stop[s].id = e /\ stop[s].main = MainOf[e]
             \/ StopMain(MainOf[e])
  <1>1. ASSUME NEW d \in Executions, StopJob(d) PROVE Ok
    BY <1>1 DEF StopJob, AskActive, RemoveJob, AbortJob, MoveToFailed, Types, StopTypes
  <1>2. ASSUME NEW d \in Executions, Stall(d) PROVE Ok
    BY <1>2 DEF Stall, stops
  <1>3. ASSUME NEW s \in Stops, StopCall(s) PROVE Ok
    <2>1. CASE StopActive(s)
      BY <2>1 DEF StopActive, StopExecutions
    <2> QED BY <1>3, <2>1 DEF StopCall, ReadToStop, WriteStopped
  <1>4. ASSUME NEW m \in Mains, MainStep(m) PROVE Ok
    <2>1. CASE MainDies(m)
      BY <2>1 DEF MainDies
    <2>2. CASE StopMain(m)
      BY <2>2 DEF StopMain, StopExecutions, Of
    <2> QED
      BY <1>4, <2>1, <2>2 DEF MainStep, TakeOver, StepDown, Recovery, GetInProgress, FindJobs,
             MarkAsCrashed, RecoveryFails, MainCrashes, ExitMain, ForceExit, StartMain, stops
  <1> QED
    BY <1>1, <1>2, <1>3, <1>4, CallFrame, ProcessJobFrame, WorkerStepFrame, Stuttering DEF Next

\* The step of stop() that stops a run leaves the call behind that writes the row.
LEMMA StopSettles ==
    ASSUME Types, [Next]_vars, NEW e \in Executions, pc'[e] # "unused",
           \/ \E s \in Stops : StopActive(s) /\ stop[s].id = e /\ stop[s].main = MainOf[e]
           \/ StopMain(MainOf[e])
    PROVE Settled(e)'
  <1>1. ASSUME NEW s \in Stops, StopActive(s), stop[s].id = e, stop[s].main = MainOf[e]
        PROVE Settled(e)'
    <2>0. stop[s] \in [at : {"read", "stopped"}, id : Executions, main : Mains,
                       finished : BOOLEAN]
      BY <1>1 DEF StopActive, Types, StopTypes
    <2>1. stop' = [stop EXCEPT ![s] = [stop[s] EXCEPT !.at = "stopped"]]
      BY <1>1 DEF StopActive
    <2>2. stop'[s] = [stop[s] EXCEPT !.at = "stopped"]
      BY <2>1 DEF Types, StopTypes
    <2>3. stop'[s].at = "stopped" /\ stop'[s].id = e /\ stop'[s].main = MainOf[e]
      BY <1>1, <2>0, <2>2
    <2> QED BY <2>3 DEF Settled, BeingStopped
  <1>2. CASE StopMain(MainOf[e])
    BY <1>2, ScalingAssumption DEF StopMain, Types, ProcessTypes, Settled
  <1> QED BY <1>1, <1>2

\* An execution that was created stays created.
LEMMA NotUnused ==
    ASSUME Types, [Next]_vars, NEW e \in Executions, pc[e] # "unused"
    PROVE pc'[e] # "unused"
  BY CallSteps DEF Call, Create, Register, CheckFails, AttachFails, AddJob, AddFails,
         AwaitJob, JobFinished, JobFailed, SaveError, Goto, Types, CallTypes

\* Every step keeps the calls that are over settled.
LEMMA NextCallsSettled ==
    ASSUME Types, SettledInv, [Next]_vars
    PROVE CallsSettled'
  <1> SUFFICES ASSUME NEW e \in Executions
               PROVE /\ entry'[e] # "none" => pc'[e] # "unused"
                     /\ pc'[e] = "registered" /\ entry'[e] = "none" => Settled(e)'
                     /\ pc'[e] = "over" => Settled(e)'
    BY DEF CallsSettled
  <1>0. /\ entry[e] # "none" => pc[e] # "unused"
        /\ pc[e] = "registered" /\ entry[e] = "none" => Settled(e)
        /\ pc[e] = "over" => Settled(e)
        /\ job[e].at = "completed" \/ job[e].reason = "cancelled" => Settled(e)
    BY DEF SettledInv, CallsSettled, JobsSettled
  <1>0a. /\ pc \in [Executions -> {"unused", "created", "registered", "enqueued", "awaiting",
                                   "failing", "unheard", "over", "lost"}]
         /\ entry \in [Executions -> {"none", "added", "attached"}]
         /\ db \in [Executions -> [status : Statuses, finished : BOOLEAN]]
    BY DEF Types, CallTypes, RowTypes
  <1>1. CASE Call(e)
    <2>1. pc'[e] # "unused"
      BY <1>0a, <1>1 DEF Call, Create, Register, CheckFails, AttachFails, AddJob, AddFails,
         AwaitJob, JobFinished, JobFailed, SaveError, Goto
    <2>2. pc'[e] = "registered" => entry'[e] # "none"
      BY <1>0a, <1>1 DEF Call, Create, Register, CheckFails, AttachFails, AddJob, AddFails,
         AwaitJob, JobFinished, JobFailed, SaveError, Goto
    <2>3. ASSUME pc'[e] = "over" PROVE Settled(e)'
      <3>1. CASE CheckFails(e) \/ SaveError(e)
        <4>1. SetRow(e, "error")
          BY <3>1 DEF CheckFails, SaveError
        <4>2. ~Open(e)'
          BY <1>0a, <4>1 DEF SetRow, Open
        <4> QED BY <2>1, <4>2 DEF Settled
      <3>2. CASE AttachFails(e)
        <4>1. Settled(e)
          BY <1>0, <3>2 DEF AttachFails
        <4> QED BY <4>1, SettledStays
      <3>3. CASE JobFinished(e)
        <4>1. Settled(e)
          BY <1>0, <3>3 DEF JobFinished
        <4> QED BY <4>1, SettledStays
      <3>4. CASE JobFailed(e)
        <4>1. job[e].reason = "cancelled" \/ Succeeded(e)
          BY <1>0a, <2>3, <3>4 DEF JobFailed, Goto
        <4>2. CASE job[e].reason = "cancelled"
          BY <1>0, <4>2, SettledStays
        <4>3. CASE Succeeded(e)
          <5>1. ~Open(e) /\ pc[e] # "unused"
            BY <3>4, <4>3 DEF Succeeded, Open, JobFailed
          <5> QED BY <5>1, SettledStays DEF Settled
        <4> QED BY <4>1, <4>2, <4>3
      <3> QED
        BY <1>0a, <1>1, <2>3, <3>1, <3>2, <3>3, <3>4
        DEF Call, Create, Register, AddJob, AddFails, AwaitJob, Goto
    <2> QED BY <2>1, <2>2, <2>3
  <1>2. CASE ~Call(e)
    <2>1. pc'[e] = pc[e] \/ pc'[e] = "lost"
      BY <1>2, CallSteps
    <2>2. pc[e] # "unused" => pc'[e] # "unused"
      BY NotUnused
    <2>3. entry'[e] = entry[e] \/ entry'[e] = "none"
      BY <1>2, EntrySteps
    <2>4. pc'[e] = "over" => Settled(e)'
      BY <1>0, <2>1, SettledStays
    <2>5. ASSUME pc'[e] = "registered", entry'[e] = "none" PROVE Settled(e)'
      <3>1. pc[e] = "registered"
        BY <2>1, <2>5
      <3>2. CASE entry[e] = "none"
        BY <1>0, <3>1, <3>2, SettledStays
      <3>3. CASE entry[e] # "none"
        <4>1. ~MainDies(MainOf[e])
          BY <2>5, <3>1, DeadCalls
        <4>2. \/ \E s \in Stops : StopActive(s) /\ stop[s].id = e /\ stop[s].main = MainOf[e]
              \/ StopMain(MainOf[e])
          BY <1>2, <2>5, <3>3, <4>1, EntrySteps
        <4> QED BY <2>5, <4>2, StopSettles
      <3> QED BY <3>2, <3>3
    <2> QED BY <1>0, <2>2, <2>3, <2>4, <2>5
  <1> QED BY <1>1, <1>2

\* Every step keeps the stopped jobs, and those with an abort message, settled.
LEMMA NextStopsSettled ==
    ASSUME Types, SettledInv, [Next]_vars
    PROVE StopsSettled'
  <1>1. ASSUME NEW e \in Executions, stopping'[e] # "no" PROVE Settled(e)'
    <2>1. CASE stopping[e] # "no"
      BY <2>1, SettledStays DEF SettledInv, StopsSettled
    <2>2. CASE stopping[e] = "no"
      <3>1. entry[e] = "attached"
        BY <1>1, <2>2, StoppingSteps
      <3>2. pc'[e] # "unused"
        BY <3>1, NotUnused DEF SettledInv, CallsSettled
      <3> QED BY <1>1, <2>2, <3>2, StoppingSteps, StopSettles
    <2> QED BY <2>1, <2>2
  <1>2. ASSUME NEW e \in Executions, NEW w \in Workers, <<e, w>> \in aborts' PROVE Settled(e)'
    <2>1. CASE <<e, w>> \in aborts
      BY <2>1, SettledStays DEF SettledInv, StopsSettled
    <2>2. CASE <<e, w>> \notin aborts
      <3>1. ASSUME NEW d \in Executions, StopJob(d) PROVE stopping[e] # "no"
        BY <1>2, <2>2, <3>1 DEF StopJob, AskActive, RemoveJob, AbortJob, MoveToFailed, workers
      <3>2. ASSUME NEW d \in Executions, Stall(d) PROVE FALSE
        BY <1>2, <2>2, <3>2 DEF Stall, workers
      <3>3. ASSUME NEW v \in Workers, WorkerStep(v) PROVE FALSE
        BY <1>2, <2>2, <3>3 DEF WorkerStep, PickUp, ReceiveAbort, WorkerCrashes, WorkerDies,
               StopWorker, ExitWorker, StartWorker, cancels
      <3>4. stopping[e] # "no"
        BY <1>2, <2>2, <3>1, <3>2, <3>3, CallFrame, StopCallFrame, ProcessJobFrame, MainStepFrame,
           Stuttering
        DEF Next
      <3> QED BY <3>4, SettledStays DEF SettledInv, StopsSettled
    <2> QED BY <2>1, <2>2
  <1> QED BY <1>1, <1>2 DEF StopsSettled

\* Every step keeps completed, removed and cancelled jobs settled.
LEMMA NextJobsSettled ==
    ASSUME Types, SettledInv, [Next]_vars
    PROVE JobsSettled'
  <1> SUFFICES ASSUME NEW e \in Executions,
                      job'[e].at \in {"completed", "removed"} \/ job'[e].reason = "cancelled"
               PROVE Settled(e)
    BY SettledStays DEF JobsSettled
  <1>1. CASE job[e].at \in {"completed", "removed"} \/ job[e].reason = "cancelled"
    BY <1>1 DEF SettledInv, JobsSettled
  <1>2. CASE stopping[e] # "no"
    BY <1>2 DEF SettledInv, StopsSettled
  <1>3. CASE \E a \in Attempts : Id(a) = e /\ At(a, {"returning"})
    BY <1>3 DEF SettledInv, RunsSettled, At
  <1> QED BY <1>1, <1>2, <1>3, JobSteps DEF JobStep

\* A cancelled run has been sent a message; other cancelled runs were cancelled before.
LEMMA CancelSteps ==
    ASSUME [Next]_vars, NEW a \in Attempts, a \in cancelled', a \notin cancelled
    PROVE \E w \in Workers : <<Id(a), w>> \in aborts
  <1>1. ASSUME NEW w \in Workers, WorkerStep(w) PROVE <<Id(a), w>> \in aborts
    <2>1. ASSUME NEW e \in Executions, ReceiveAbort(e, w) PROVE <<Id(a), w>> \in aborts
      <3> DEFINE run == {b \in Attempts : b = <<e, runningJobs[w][e]>>}
                 pending == {b \in run \ cancelled :
                               At(b, {"running", "saving progress", "saving", "saving again"})}
      <3>1. <<e, w>> \in aborts /\ cancelled' = cancelled \cup pending
        BY <2>1 DEF ReceiveAbort
      <3>2. a = <<e, runningJobs[w][e]>>
        BY <3>1
      <3>3. Id(a) = e
        BY <3>2 DEF Id
      <3> QED BY <3>1, <3>3
    <2>2. ASSUME NEW e \in Executions, PickUp(w, e) PROVE FALSE
      BY <2>2 DEF PickUp, cancels
    <2>3. ASSUME WorkerDies(w) PROVE FALSE
      BY <2>3 DEF WorkerDies
    <2>4. CASE StopWorker(w) \/ StartWorker(w)
      BY <2>4 DEF StopWorker, StartWorker, runs
    <2> QED BY <1>1, <2>1, <2>2, <2>3, <2>4 DEF WorkerStep, WorkerCrashes, ExitWorker
  <1> QED
    BY <1>1, CallFrame, StopJobFrame, StopCallFrame, ProcessJobFrame, MainStepFrame, Stuttering
    DEF Next

\* A run comes to its end after a save, or cancelled, or found crashed.
LEMMA EndSteps ==
    ASSUME Types, [Next]_vars, NEW a \in Attempts, attempt'[a].at \in {"ended", "returning"}
    PROVE \/ attempt[a].at \in {"ended", "returning"}
          \/ attempt[a].at # "none" /\ (a \in cancelled \/ ~Open(Id(a)) \/ ~Open(Id(a))')
  <1>0. /\ attempt \in [Attempts ->
             [at : {"none", "picked", "found", "marked", "throwing", "running",
                    "saving progress", "saving", "saving again", "ended", "returning", "over"},
              worker : Workers \cup {None}]]
        /\ db \in [Executions -> [status : Statuses, finished : BOOLEAN]]
        /\ Id(a) \in Executions
    BY DEF Types, AttemptTypes, RowTypes, Attempts, Id
  <1>1. CASE attempt'[a] = attempt[a]
    BY <1>1
  <1>2. CASE attempt'[a] # attempt[a]
    <2>1. ProcessJob(a) /\ attempt[a].at # "none"
      <3>1. ASSUME NEW w \in Workers, attempt'[a] = [at |-> "picked", worker |-> w] PROVE FALSE
        <4>1. attempt'[a].at = "picked"
          BY <3>1
        <4> QED BY <4>1
      <3>2. attempt'[a].at # "over"
        OBVIOUS
      <3> QED BY <1>2, <3>1, <3>2, AttemptSteps
    <2>2. CASE FindExecution(a)
      BY <1>0, <2>1, <2>2 DEF FindExecution, Move, Open
    <2>3. CASE EndRun(a)
      BY <1>0, <2>1, <2>3 DEF EndRun, Move
    <2>4. CASE SaveOutcome(a) \/ SaveAgain(a)
      <3>1. \E status \in {"success", "error"} : SetRow(Id(a), status)
        BY <2>4 DEF SaveOutcome, SaveAgain
      <3> PICK e \in Executions : e = Id(a)
        BY <1>0
      <3>2. ~Open(Id(a))'
        <4> PICK status \in {"success", "error"} : SetRow(Id(a), status)
          BY <3>1
        <4>1. db'[e].status \in {"success", "error"}
          BY <1>0 DEF SetRow
        <4> QED BY <4>1 DEF Open, Id
      <3> QED BY <2>1, <3>2
    <2>5. CASE RunEnded(a) \/ EndJob(a)
      <3>1. EndJob(a) => attempt'[a].at = "over"
        BY <1>0 DEF EndJob, Move
      <3>2. RunEnded(a) => attempt[a].at = "ended"
        BY DEF RunEnded, At
      <3> QED BY <2>5, <3>1, <3>2
    <2>6. CASE \E label \in {"marked", "throwing", "running", "saving progress", "saving again"} :
                  Move(a, label)
      BY <1>0, <2>6 DEF Move
    <2> QED
      BY <1>2, <2>1, <2>2, <2>3, <2>4, <2>5, <2>6
      DEF ProcessJob, SetRunning, RunThrows, StartRun, ReadProgress, WriteProgress, SaveFails,
          SaveCancelled
  <1> QED BY <1>1, <1>2

\* Every step keeps cancelled runs and runs at their end settled.
LEMMA NextRunsSettled ==
    ASSUME Types, JobInv, SettledInv, [Next]_vars
    PROVE RunsSettled'
  <1> SUFFICES ASSUME NEW a \in Attempts,
                      a \in cancelled' \/ attempt'[a].at \in {"ended", "returning"}
               PROVE Settled(Id(a))'
    BY DEF RunsSettled, At, Id
  <1>0. Id(a) \in Executions
    BY DEF Attempts, Id
  <1> PICK e \in Executions : e = Id(a)
    BY <1>0
  <1>a. Settled(Id(a))' <=> Settled(e)'
    BY DEF Settled, BeingStopped, Open, Id
  <1>1. Settled(e) => Settled(e)'
    BY SettledStays
  <1>2. CASE a \in cancelled \/ attempt[a].at \in {"ended", "returning"}
    BY <1>1, <1>2, <1>a DEF SettledInv, RunsSettled, At
  <1>3. CASE a \in cancelled' /\ a \notin cancelled
    <2>1. \E w \in Workers : <<e, w>> \in aborts
      BY <1>3, CancelSteps
    <2> QED BY <1>1, <1>a, <2>1 DEF SettledInv, StopsSettled
  <1>4. CASE /\ attempt'[a].at \in {"ended", "returning"}
             /\ attempt[a].at \notin {"ended", "returning"} /\ a \notin cancelled
    <2>1. attempt[a].at # "none" /\ (~Open(e) \/ ~Open(e)')
      BY <1>4, EndSteps DEF Open, Id
    <2>2. pc[e] # "unused"
      <3>1. a[2] \in Nat \ {0}
        BY ScalingAssumption DEF Attempts
      <3>2. Taken(e) \in Nat /\ Taken(e) # 0
        BY <2>1, <3>1, TakenGrows DEF JobInv, AttemptsInTurn
      <3> QED BY <3>2 DEF JobInv, JobIsNew, Taken
    <2>3. pc'[e] # "unused"
      BY <2>2, NotUnused
    <2>4. ~Open(e)' => Settled(e)'
      BY <2>3 DEF Settled
    <2>5. ~Open(e) => Settled(e)
      BY <2>2 DEF Settled
    <2> QED BY <1>1, <1>a, <2>1, <2>4, <2>5
  <1> QED BY <1>2, <1>3, <1>4

\* Every step keeps all of them settled.
LEMMA NextSettled == Types /\ JobInv /\ SettledInv /\ [Next]_vars => SettledInv'
  BY NextCallsSettled, NextStopsSettled, NextJobsSettled, NextRunsSettled DEF SettledInv

\* A row that is open is pursued by its call, by its job, or by the stop that settles it.
LEMMA SettledPursued == Types /\ JobInv /\ SettledInv => OpenRowIsPursued
  <1> SUFFICES ASSUME Types, JobInv, SettledInv, NEW e \in Executions, Open(e)
               PROVE \/ Pursued(e) \/ pc[e] \in {"lost", "unheard"} \/ e \in reopened
                     \/ main[MainOf[e]] = "stopping"
    BY DEF OpenRowIsPursued
  <1>1. CASE Settled(e)
    <2>1. BeingStopped(e) => Pursued(e)
      BY DEF BeingStopped, Pursued
    <2> QED BY <1>1, <2>1 DEF Settled
  <1>2. CASE pc[e] \in {"created", "registered", "enqueued", "failing"}
    BY <1>2 DEF Pursued
  <1>3. CASE pc[e] = "awaiting" /\ ~Settled(e)
    <2>1. /\ job[e].at \notin {"none", "completed", "removed"}
          /\ job[e].reason # "cancelled"
      BY <1>3 DEF JobInv, JobIsNew, SettledInv, JobsSettled
    <2>2. job[e].at \in {"waiting", "active", "failed"}
      BY <2>1 DEF Types, JobTypes
    <2> QED BY <1>3, <2>1, <2>2 DEF Pursued, Queued
  <1>4. pc[e] # "unused" /\ (pc[e] = "over" => Settled(e))
    BY DEF JobInv, JobIsNew, SettledInv, CallsSettled
  <1> QED BY <1>1, <1>2, <1>3, <1>4 DEF Types, CallTypes

\* Whatever crashes, stalls, is stopped, fails or is lost: a row that is new or running is still
\* going to be written, but for the exceptions that OpenRowIsPursued names.
THEOREM OpenRowsPursued == Spec => []OpenRowIsPursued
  BY InitTypes, NextTypes, InitJobs, NextJobs, InitSettled, NextSettled, SettledPursued, PTL
  DEF Spec

=============================================================================
