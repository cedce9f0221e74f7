------------------------------- MODULE Insights -------------------------------
(***************************************************************************)
(* Insights of the main processes: every production execution that ends    *)
(* leaves events in a buffer of its main, which flushes it to the raw      *)
(* table (modules/insights/insights-collection.service.ts); the leader     *)
(* compacts raw rows into hours and hours into days                        *)
(* (insights-compaction.service.ts, insights-by-period.repository.ts).     *)
(*                                                                         *)
(* The events one execution leaves are added together and stand for one;   *)
(* the events of a workflow fall into one period.  Compaction of days into *)
(* weeks runs the same code as hours into days.                            *)
(***************************************************************************)
EXTENDS Integers, FiniteSets, FiniteSetsExt

CONSTANTS
    Mains,                \* main processes
    Events,               \* executions, each with the events it leaves
    Workflows,
    WorkflowOf,           \* the workflow of each execution
    Compactions,          \* runs of compactInsights() that may be under way at once
    None,
    FlushBatchSize,       \* N8N_INSIGHTS_FLUSH_BATCH_SIZE
    CompactionBatchSize,  \* N8N_INSIGHTS_COMPACTION_BATCH_SIZE
    Deletable,            \* workflows a user may delete
    MaxFaults,            \* transactions that the database fails
    MaxTerms              \* times a main takes the leadership

ASSUME InsightsAssumption ==
    /\ WorkflowOf \in [Events -> Workflows]
    /\ Deletable \subseteq Workflows
    /\ None \notin Mains \cup Events
    /\ {FlushBatchSize, CompactionBatchSize} \subseteq Nat \ {0}
    /\ {MaxFaults, MaxTerms} \subseteq Nat

VARIABLES
    leader,       \* the main that leads, None while the key is vacant
    terms,        \* takeovers so far
    phase,        \* per main: "up", "stopping", "stopped", "exited"
    execution,    \* per execution: its main and how far its handler is
    service,      \* per main: the fields of InsightsCollectionService
    cachedMetadata, \* per main and workflow: "none", "held", or "lost" (rolled back)
    deleted,      \* workflows that were deleted
    metadata,     \* workflows with a row in insights_metadata
    raw,          \* rows of insights_raw
    hour, day,    \* rows of insights_by_period, per workflow
    compactInsightsTimer, \* mains with the compaction interval
    compaction,   \* per run: its main, its level and its open transaction
    faults,       \* transactions failed so far
    saved,        \* history: events whose insertion was committed
    overlapped    \* history: two transactions of compactions were open at once

vars == <<leader, terms, phase, execution, service, cachedMetadata, deleted, metadata, raw,
          hour, day, compactInsightsTimer, compaction, faults, saved, overlapped>>

collectionVars == <<execution, service, cachedMetadata, metadata, saved>>
compactionVars == <<hour, day, compactInsightsTimer, compaction, overlapped>>
roleVars == <<leader, terms, phase>>

Idle == [main |-> None, level |-> "hour", batch |-> None]
Held(m) == service[m].buffer \cup UNION {f.events : f \in service[m].flushes}
WorkflowsOf(events) == {WorkflowOf[e] : e \in events}
Flushes == UNION {service[m].flushes : m \in Mains}

-----------------------------------------------------------------------------
(* The collection service *)

Init ==
    /\ leader \in Mains \cup {None}
    /\ terms = 0
    /\ phase = [m \in Mains |-> "up"]
    /\ execution \in [Events -> [main : Mains, at : {"running"}]]
    /\ service = [m \in Mains |->
          [buffer |-> {}, flushes |-> {}, timer |-> m = leader, async |-> TRUE]]
    /\ cachedMetadata = [m \in Mains |-> [w \in Workflows |-> "none"]]
    /\ deleted = {} /\ metadata = {} /\ raw = {}
    /\ hour = [w \in Workflows |-> [id |-> 0, value |-> 0]]
    /\ day = [w \in Workflows |-> 0]
    /\ compactInsightsTimer = {leader} \ {None}
    /\ compaction = [c \in Compactions |-> Idle]
    /\ faults = 0
    /\ saved = {}
    /\ overlapped = FALSE

StartFlushingTimer(s) == [s EXCEPT !.async = TRUE, !.timer = TRUE]
StopFlushingTimer(s) == [s EXCEPT !.timer = FALSE]

\* flushEvents(): an empty buffer only starts the timer again; otherwise the
\* buffer moves to a flush, which shutdown() or a handler may wait for.
FlushEvents(s, waiter, awaited) ==
    IF s.buffer = {}
    THEN StartFlushingTimer(s)
    ELSE [StopFlushingTimer(s) EXCEPT
             !.buffer = {},
             !.flushes = @ \cup {[events |-> s.buffer, at |-> "finding", created |-> {},
                                  waiter |-> waiter, awaited |-> awaited]}]

FlushIfFull(s) ==
    IF Cardinality(s.buffer) >= FlushBatchSize THEN FlushEvents(s, None, FALSE) ELSE s

\* An execution ends: its handler adds the events; while saving is synchronous
\* it waits for the flush.
Handle(e) ==
    LET m == execution[e].main
        added == [service[m] EXCEPT !.buffer = @ \cup {e}]
    IN  /\ execution[e].at = "running" /\ phase[m] # "exited"
        /\ IF added.async
           THEN /\ service' = [service EXCEPT ![m] = FlushIfFull(added)]
                /\ execution' = [execution EXCEPT ![e].at = "ended"]
           ELSE /\ service' = [service EXCEPT ![m] = FlushEvents(added, e, FALSE)]
                /\ execution' = [execution EXCEPT ![e].at = "flushing"]
        /\ UNCHANGED <<roleVars, cachedMetadata, deleted, metadata, raw, faults, saved,
                       compactionVars>>

\* The flush the handler waited for is over, in whatever way.
ContinueHandler(e) ==
    LET m == execution[e].main
    IN  /\ execution[e].at = "flushed" /\ phase[m] # "exited"
        /\ service' = [service EXCEPT ![m] = FlushIfFull(@)]
        /\ execution' = [execution EXCEPT ![e].at = "ended"]
        /\ UNCHANGED <<roleVars, cachedMetadata, deleted, metadata, raw, faults, saved,
                       compactionVars>>

FlushTimer(m) ==
    /\ service[m].timer
    /\ service' = [service EXCEPT ![m] = FlushEvents([@ EXCEPT !.timer = FALSE], None, FALSE)]
    /\ UNCHANGED <<roleVars, execution, cachedMetadata, deleted, metadata, raw, faults, saved,
                   compactionVars>>

\* A flush is over, and some of its events go back to the buffer.
WithoutFlush(s, f, back) == [s EXCEPT !.flushes = @ \ {f}, !.buffer = @ \cup back]

\* Mutant of EndFlush: the events of a failed flush go back, but the timer is not started.
EndFlushQuietly(m, f, back) ==
    /\ service' = [service EXCEPT ![m] =
          IF back = {} THEN StartFlushingTimer(WithoutFlush(@, f, {}))
          ELSE WithoutFlush(@, f, back)]
    /\ execution' = IF f.waiter = None THEN execution
                    ELSE [execution EXCEPT ![f.waiter].at = "flushed"]

\* A flush ends: after an error its events go back to the buffer; the timer
\* starts in either case, and with it asynchronous saving.
EndFlush(m, f, back) ==
    /\ service' = [service EXCEPT ![m] = StartFlushingTimer(WithoutFlush(@, f, back))]
    /\ execution' = IF f.waiter = None THEN execution
                    ELSE [execution EXCEPT ![f.waiter].at = "flushed"]

\* The transaction is rolled back; metadata it inserted stays in the cache.
FailFlush(m, f, cached, created) ==
    /\ cachedMetadata' = [cachedMetadata EXCEPT ![m] =
          [w \in Workflows |-> IF w \in created THEN "lost" ELSE cached[w]]]
    /\ EndFlush(m, f, f.events)
    /\ UNCHANGED <<metadata, raw, saved>>

\* saveInsightsMetadataAndRaw(): the owners of the workflows that exist are
\* found and their metadata is upserted unless it is cached.  The upsert waits
\* for another transaction that is inserting the same row.
FindMetadata(m, f) ==
    LET wanted == WorkflowsOf(f.events)
        upsert == {w \in wanted \ deleted : cachedMetadata[m][w] = "none"}
        created == upsert \ metadata
        cached == [w \in Workflows |->
                      IF w \in upsert THEN "held" ELSE cachedMetadata[m][w]]
    IN  /\ f \in service[m].flushes /\ f.at = "finding"
        /\ \A g \in Flushes : g.created \cap upsert = {}
        /\ IF \E w \in wanted : cached[w] = "none"
           THEN FailFlush(m, f, cached, created)
           ELSE /\ service' = [service EXCEPT ![m].flushes =
                      (@ \ {f}) \cup {[f EXCEPT !.at = "inserting", !.created = created]}]
                /\ cachedMetadata' = [cachedMetadata EXCEPT ![m] = cached]
                /\ UNCHANGED <<execution, metadata, raw, saved>>
        /\ UNCHANGED <<roleVars, deleted, faults, compactionVars>>

\* Mutant of InsertRaw: without a transaction, rows with metadata stay.
InsertRawPartly(m, f) ==
    LET Known(w) == cachedMetadata[m][w] = "held" /\ w \in metadata \cup f.created
        known == {e \in f.events : Known(WorkflowOf[e])}
    IN  /\ f \in service[m].flushes /\ f.at = "inserting"
        /\ raw' = raw \cup known /\ saved' = saved \cup known
        /\ IF known = f.events
           THEN metadata' = metadata \cup f.created /\ EndFlush(m, f, {})
           ELSE EndFlush(m, f, f.events) /\ UNCHANGED metadata
        /\ UNCHANGED cachedMetadata
        /\ UNCHANGED <<roleVars, deleted, faults, compactionVars>>

\* The rows are inserted and the transaction commits; a row whose metadata no
\* committed transaction has inserted violates the foreign key.
InsertRaw(m, f) ==
    LET Known(w) == cachedMetadata[m][w] = "held" /\ w \in metadata \cup f.created
    IN  /\ f \in service[m].flushes /\ f.at = "inserting"
        /\ IF \A w \in WorkflowsOf(f.events) : Known(w)
           THEN /\ raw' = raw \cup f.events
                /\ saved' = saved \cup f.events
                /\ metadata' = metadata \cup f.created
                /\ EndFlush(m, f, {})
                /\ UNCHANGED cachedMetadata
           ELSE FailFlush(m, f, cachedMetadata[m], f.created)
        /\ UNCHANGED <<roleVars, deleted, faults, compactionVars>>

\* The database fails the transaction of a flush.
SaveFails(m, f) ==
    /\ f \in service[m].flushes
    /\ faults < MaxFaults /\ faults' = faults + 1
    /\ FailFlush(m, f, cachedMetadata[m], f.created)
    /\ UNCHANGED <<roleVars, deleted, compactionVars>>

DeleteWorkflow(w) ==
    /\ w \in Deletable \ deleted
    /\ deleted' = deleted \cup {w}
    /\ UNCHANGED <<roleVars, collectionVars, raw, faults, compactionVars>>

-----------------------------------------------------------------------------
(* Compaction *)

\* The interval does not wait for the run it started before.
CompactInsights(m, c) ==
    /\ m \in compactInsightsTimer
    /\ compaction[c].main = None
    /\ raw # {} \/ \E w \in Workflows : hour[w].value > 0   \* a run that finds nothing is left out
    /\ compaction' = [compaction EXCEPT ![c] = [Idle EXCEPT !.main = m]]
    /\ UNCHANGED <<roleVars, collectionVars, deleted, raw, hour, day,
                   compactInsightsTimer, faults, overlapped>>

\* The rows one level compacts, with what their batch remembers of them.
Source(level) ==
    IF level = "hour"
    THEN {[id |-> e, workflow |-> WorkflowOf[e], value |-> 1] : e \in raw}
    ELSE {[id |-> hour[w].id, workflow |-> w, value |-> hour[w].value] :
             w \in {v \in Workflows : hour[v].value > 0}}

\* The batches of a level: the first rows of the source, in the order of their
\* times.  Only hours older than the age limit are taken.
Batches(level) ==
    {b \in SUBSET Source(level) :
        /\ Cardinality(b) <= CompactionBatchSize
        /\ level = "hour" => Cardinality(b) = Min({CompactionBatchSize, Cardinality(raw)})}

\* A transaction begins with a copy of its batch; an empty one ends the level.
ReadBatch(c) ==
    /\ compaction[c].main # None /\ compaction[c].batch = None
    /\ \E b \in Batches(compaction[c].level) :
          compaction' = [compaction EXCEPT ![c] =
             IF b # {} THEN [@ EXCEPT !.batch = b]
             ELSE IF @.level = "hour" THEN [@ EXCEPT !.level = "day"] ELSE Idle]
    /\ overlapped' = (overlapped \/ \E d \in Compactions \ {c} : compaction[d].batch # None)
    /\ UNCHANGED <<roleVars, collectionVars, deleted, raw, hour, day,
                   compactInsightsTimer, faults>>

SumOf(batch, w) == MapThenSumSet(LAMBDA r : r.value, {r \in batch : r.workflow = w})

\* Mutant of CommitBatch: the source is emptied, not only of the batch.
CommitBatchOfAll(c) ==
    LET batch == compaction[c].batch
    IN  /\ batch # None /\ compaction[c].level = "hour"
        /\ raw' = {}
        /\ hour' = [w \in Workflows |-> [hour[w] EXCEPT !.value = @ + SumOf(batch, w)]]
        /\ compaction' = [compaction EXCEPT ![c].batch = None]
        /\ UNCHANGED <<roleVars, collectionVars, deleted, day, compactInsightsTimer, faults,
                       overlapped>>

\* The batch is added to the rows of the longer period, and its source rows are
\* deleted by their ids, whatever they hold by now.
CommitBatch(c) ==
    LET batch == compaction[c].batch
    IN  /\ batch # None
        /\ IF compaction[c].level = "hour"
           THEN /\ raw' = raw \ {r.id : r \in batch}
                /\ hour' = [w \in Workflows |->
                      [id |-> hour[w].id +
                              (IF hour[w].value = 0 /\ SumOf(batch, w) > 0 THEN 1 ELSE 0),
                       value |-> hour[w].value + SumOf(batch, w)]]
                /\ UNCHANGED day
           ELSE /\ day' = [w \in Workflows |-> day[w] + SumOf(batch, w)]
                /\ hour' = [w \in Workflows |->
                      IF \E r \in batch : r.workflow = w /\ r.id = hour[w].id
                      THEN [hour[w] EXCEPT !.value = 0] ELSE hour[w]]
                /\ UNCHANGED raw
        /\ compaction' = [compaction EXCEPT ![c].batch = None]
        /\ UNCHANGED <<roleVars, collectionVars, deleted, compactInsightsTimer, faults,
                       overlapped>>

\* A failed transaction ends its run.
CompactionFails(c) ==
    /\ compaction[c].batch # None
    /\ faults < MaxFaults /\ faults' = faults + 1
    /\ compaction' = [compaction EXCEPT ![c] = Idle]
    /\ UNCHANGED <<roleVars, collectionVars, deleted, raw, hour, day,
                   compactInsightsTimer, overlapped>>

-----------------------------------------------------------------------------
(* Leadership and shutdown *)

StartBackgroundProcess(m) ==
    /\ compactInsightsTimer' = compactInsightsTimer \cup {m}
    /\ service' = [service EXCEPT ![m] = StartFlushingTimer(@)]

StopBackgroundProcess(m) ==
    /\ compactInsightsTimer' = compactInsightsTimer \ {m}
    /\ service' = [service EXCEPT ![m] = StopFlushingTimer(@)]

Takeover(m) ==
    /\ leader = None /\ phase[m] \in {"up", "stopping"}
    /\ terms < MaxTerms /\ terms' = terms + 1
    /\ leader' = m
    /\ StartBackgroundProcess(m)
    /\ UNCHANGED <<phase, execution, cachedMetadata, deleted, metadata, raw, faults, saved,
                   hour, day, compaction, overlapped>>

StepDown(m) ==
    /\ leader = m /\ terms < MaxTerms
    /\ leader' = None
    /\ StopBackgroundProcess(m)
    /\ UNCHANGED <<terms, phase, execution, cachedMetadata, deleted, metadata, raw, faults,
                   saved, hour, day, compaction, overlapped>>

\* Mutant of Shutdown: only its own flush is waited for.
ShutdownOwnFlush(m) ==
    /\ phase[m] = "up"
    /\ phase' = [phase EXCEPT ![m] = "stopping"]
    /\ service' = [service EXCEPT ![m] =
          FlushEvents([StopFlushingTimer(@) EXCEPT !.async = FALSE], None, TRUE)]
    /\ UNCHANGED <<leader, terms, execution, cachedMetadata, deleted, metadata, raw, faults,
                   saved, compactionVars>>

\* shutdown() leaves asynchronous saving, and waits for the flushes in progress
\* and for a flush of what is left.
Shutdown(m) ==
    LET stopped == [StopFlushingTimer(service[m]) EXCEPT
                       !.async = FALSE,
                       !.flushes = {[f EXCEPT !.awaited = TRUE] : f \in @}]
    IN  /\ phase[m] = "up"
        /\ phase' = [phase EXCEPT ![m] = "stopping"]
        /\ service' = [service EXCEPT ![m] = FlushEvents(stopped, None, TRUE)]
        /\ UNCHANGED <<leader, terms, execution, cachedMetadata, deleted, metadata, raw,
                       faults, saved, compactionVars>>

\* The wait is over; the leadership is given up before executions are waited for.
ShutdownEnds(m) ==
    /\ phase[m] = "stopping"
    /\ \A f \in service[m].flushes : ~f.awaited
    /\ phase' = [phase EXCEPT ![m] = "stopped"]
    /\ leader' = IF leader = m THEN None ELSE leader
    /\ compactInsightsTimer' = compactInsightsTimer \ {m}
    /\ UNCHANGED <<terms, collectionVars, deleted, raw, faults, hour, day, compaction,
                   overlapped>>

\* The process is gone, and with it its buffer and its open transactions.
Gone(m) ==
    /\ phase' = [phase EXCEPT ![m] = "exited"]
    /\ leader' = IF leader = m THEN None ELSE leader
    /\ service' = [service EXCEPT ![m] =
          [buffer |-> {}, flushes |-> {}, timer |-> FALSE, async |-> TRUE]]
    /\ compactInsightsTimer' = compactInsightsTimer \ {m}
    /\ compaction' = [c \in Compactions |->
          IF compaction[c].main = m THEN Idle ELSE compaction[c]]
    /\ UNCHANGED <<terms, execution, cachedMetadata, deleted, metadata, raw, faults, saved,
                   hour, day, overlapped>>

Exit(m) ==
    /\ phase[m] = "stopped"
    /\ \A e \in Events : execution[e].main = m => execution[e].at = "ended"
    /\ Gone(m)

\* The timer of a shutdown that takes too long.
ForceExit(m) == phase[m] \in {"stopping", "stopped"} /\ Gone(m)

-----------------------------------------------------------------------------

MainNext(m) ==
    \/ FlushTimer(m)
    \/ \E f \in service[m].flushes : FindMetadata(m, f) \/ InsertRaw(m, f) \/ SaveFails(m, f)
    \/ \E c \in Compactions : CompactInsights(m, c)
    \/ Takeover(m) \/ StepDown(m)
    \/ Shutdown(m) \/ ShutdownEnds(m) \/ Exit(m) \/ ForceExit(m)

Next ==
    \/ \E m \in Mains : MainNext(m)
    \/ \E e \in Events : Handle(e) \/ ContinueHandler(e)
    \/ \E w \in Workflows : DeleteWorkflow(w)
    \/ \E c \in Compactions : ReadBatch(c) \/ CommitBatch(c) \/ CompactionFails(c)

\* Timers that are set fire and transactions go on: what the event loop and
\* the database of a process that is up do by themselves, for each flush.
Fairness ==
    /\ \A m \in Mains : WF_vars(FlushTimer(m))
    /\ \A m \in Mains, e \in Events :
          WF_vars(\E f \in service[m].flushes :
                     e \in f.events /\ (FindMetadata(m, f) \/ InsertRaw(m, f)))

Spec == Init /\ [][Next]_vars /\ Fairness

-----------------------------------------------------------------------------
(* Properties *)

\* The events of an execution that ended are in one place: saved, or held by its
\* main in the buffer or in one flush - unless that main exited.  Flushes that
\* fail, end out of order or meet a shutdown neither lose them nor save them twice.
CollectedOnce ==
    \A e \in Events :
        LET s == service[execution[e].main]
            flushes == {f \in s.flushes : e \in f.events}
        IN  /\ execution[e].at # "running" /\ phase[execution[e].main] # "exited" =>
                  e \in saved \/ e \in s.buffer \/ flushes # {}
            /\ \A m \in Mains : e \in Held(m) =>
                  m = execution[e].main /\ execution[e].at # "running" /\ e \notin saved
            /\ e \in s.buffer => flushes = {}
            /\ \A f, g \in flushes : f = g

\* While a main saves synchronously, no event of it is held by anything but a
\* flush that shutdown() or the handler of an execution waits for: the process
\* cannot exit gracefully and leave one behind.
SyncSavesAreAwaited ==
    \A m \in Mains : ~service[m].async =>
        /\ service[m].buffer = {}
        /\ \A f \in service[m].flushes : f.awaited \/ f.waiter # None

\* Each event that was saved is counted once in the tables, as a raw row or in
\* the value of one period, whatever compaction and flushes interleave with;
\* two compaction transactions that were open at once void it.
CountedOnce ==
    overlapped \/ \A w \in Workflows :
        LET OfWorkflow(events) == {e \in events : WorkflowOf[e] = w}
        IN  Cardinality(OfWorkflow(raw)) + hour[w].value + day[w]
                = Cardinality(OfWorkflow(saved))

\* No flush of m can succeed any more while it includes an event whose workflow
\* was deleted before its metadata was cached, or whose cached metadata was
\* inserted by a transaction that was rolled back.
Poisoned(m) ==
    \E w \in WorkflowsOf(Held(m)) :
        \/ cachedMetadata[m][w] = "lost"
        \/ w \in deleted /\ cachedMetadata[m][w] = "none"

\* An event the leader holds is saved in the end, unless the process exits, its
\* role changes or its buffer is poisoned: failed and concurrent flushes, full
\* buffers and shutdown leave no event without a flush to come.
CollectedIsSaved ==
    \A e \in Events, m \in Mains :
        e \in Held(m) ~> \/ e \in saved \/ Poisoned(m)
                        \/ leader # m \/ phase[m] = "exited"

=============================================================================
