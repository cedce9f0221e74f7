----------------------------- MODULE MultiMain -----------------------------
(***************************************************************************)
(* Several main processes share a key in Redis whose value is the host id  *)
(* of the leader.  Every main looks at the key in an interval; the leader  *)
(* renews it, and when it is vacant every main tries to set it.  Two       *)
(* services listen to the changes of leadership: the wait tracker, which   *)
(* resumes waiting executions, and the pruning of old executions.          *)
(*                                                                         *)
(* The Redis commands of one main run and are answered in the order in     *)
(* which they were sent.  The renewal of the key is not a command of its   *)
(* own here: the key may expire whenever it was not deleted before.        *)
(***************************************************************************)
EXTENDS Integers, Sequences, FiniteSets

CONSTANTS Mains,        \* host ids; a process that starts again has a new one
          Executions,
          None,
          MaxCommands,  \* bound: commands of one main under way
          MaxExpiries   \* bound: expiries of the key of a main that is up

ASSUME MainsAssumption ==
    /\ IsFiniteSet(Mains) /\ IsFiniteSet(Executions)
    /\ None \notin Mains
    /\ MaxCommands \in Nat \ {0} /\ MaxExpiries \in Nat

VARIABLES
    leaderKey,          \* Redis: a host id or None
    instanceRole,       \* per main: unset, leader or follower, and new or gone
    commands,           \* per main: the Redis commands sent and not answered, in order
    leaderCheck,        \* per main: whether the interval runs
    listening,          \* the mains whose services were initialised
    mainTimer,          \* wait tracker: the mains with a poll interval
    polls,              \* wait tracker, per main: the results of the queries under way
    waitingExecutions,  \* wait tracker, per main: the timer of each execution: none, armed, cleared
    resuming,           \* wait tracker, per main: the calls of startExecution() under way
    execution,          \* per execution: new, waiting or resumed
    softDeletions,      \* pruning, per main: how many intervals run
    lost                \* how often the key of a main that is up was lost

tracker == <<mainTimer, polls, waitingExecutions, resuming>>
services == <<tracker, softDeletions>>
vars == <<leaderKey, instanceRole, commands, leaderCheck, listening, services, execution, lost>>

Init ==
    /\ leaderKey = None
    /\ instanceRole = [m \in Mains |-> "new"]
    /\ commands = [m \in Mains |-> <<>>]
    /\ leaderCheck = {}
    /\ listening = {}
    /\ mainTimer = {}
    /\ polls = [m \in Mains |-> {}]
    /\ waitingExecutions = [m \in Mains |-> [e \in Executions |-> "none"]]
    /\ resuming = [m \in Mains |-> {}]
    /\ execution = [e \in Executions |-> "new"]
    /\ softDeletions = [m \in Mains |-> 0]
    /\ lost = 0

IsLeader(m) == instanceRole[m] = "leader"

-----------------------------------------------------------------------------
(* Redis                                                                   *)

\* A command that Redis has not run has the value None.
Command(name) == [name |-> name, value |-> None, done |-> FALSE]

\* The first command of m that was not run.
Pending(m) == {k \in DOMAIN commands[m] :
                  /\ ~commands[m][k].done
                  /\ \A j \in 1..(k - 1) : commands[m][j].done}

Answers(m, k, value) ==
    commands' = [commands EXCEPT ![m][k] = [@ EXCEPT !.value = value, !.done = TRUE]]

\* Mutant: SET without NX.
RunSetAlways(m, k) ==
    /\ commands[m][k].name = "set"
    /\ leaderKey' = m
    /\ Answers(m, k, m)
    /\ UNCHANGED lost

\* setIfNotExists()
RunSet(m, k) ==
    /\ commands[m][k].name = "set"
    /\ leaderKey' = IF leaderKey = None THEN m ELSE leaderKey
    /\ Answers(m, k, IF leaderKey = None THEN m ELSE None)
    /\ UNCHANGED lost

RunGet(m, k) ==
    /\ commands[m][k].name = "get"
    /\ Answers(m, k, leaderKey)
    /\ UNCHANGED <<leaderKey, lost>>

\* clear() deletes the key, whoever holds it by now.
RunClear(m, k) ==
    /\ commands[m][k].name = "clear"
    /\ leaderKey' = None
    /\ Answers(m, k, None)
    /\ lost' = IF leaderKey \in {m, None} THEN lost ELSE lost + 1

RunCommand(m) ==
    /\ \E k \in Pending(m) : RunSet(m, k) \/ RunGet(m, k) \/ RunClear(m, k)
    /\ UNCHANGED <<instanceRole, leaderCheck, listening, services, execution>>

\* The time to live is over: the holder is gone, or too slow to renew the key.
Expire ==
    /\ leaderKey # None
    /\ leaderKey' = None
    /\ \/ instanceRole[leaderKey] = "gone" /\ UNCHANGED lost
       \/ /\ instanceRole[leaderKey] # "gone"
          /\ lost < MaxExpiries /\ lost' = lost + 1
    /\ UNCHANGED <<instanceRole, commands, leaderCheck, listening, services, execution>>

-----------------------------------------------------------------------------
(* The services                                                            *)

Waiting == {e \in Executions : execution[e] = "waiting"}

\* startTracking(): an interval, and a first poll.
StartTracking(m) ==
    /\ mainTimer' = mainTimer \cup {m}
    /\ polls' = [polls EXCEPT ![m] = @ \cup {Waiting}]
    /\ UNCHANGED <<waitingExecutions, resuming>>

\* Mutant: only the leader stops, as in stopPruning().
StopTrackingOfLeader(m) ==
    /\ IF instanceRole'[m] = "leader" THEN mainTimer' = mainTimer \ {m} ELSE UNCHANGED mainTimer
    /\ UNCHANGED <<polls, waitingExecutions, resuming>>

\* stopTracking(): the timers are cleared, their entries stay.
StopTracking(m) ==
    /\ mainTimer' = mainTimer \ {m}
    /\ waitingExecutions' = [waitingExecutions EXCEPT ![m] =
           [e \in Executions |-> IF @[e] = "armed" THEN "cleared" ELSE @[e]]]
    /\ UNCHANGED <<polls, resuming>>

\* startPruning() of a leader, which does nothing once the main shuts down.
StartPruning(m) ==
    softDeletions' = IF m \in leaderCheck
                     THEN [softDeletions EXCEPT ![m] = @ + 1] ELSE softDeletions

\* Mutant: no early return.
StopPruningAnyway(m) == softDeletions' = [softDeletions EXCEPT ![m] = @ - 1]

\* stopPruning(): isEnabled needs the role that the main has after the change.
StopPruning(m) ==
    softDeletions' = IF instanceRole'[m] = "leader"
                     THEN [softDeletions EXCEPT ![m] = @ - 1] ELSE softDeletions

\* emit('leader-takeover')
Takeover(m) ==
    IF m \in listening THEN StartTracking(m) /\ StartPruning(m) ELSE UNCHANGED services

\* emit('leader-stepdown')
StepDown(m) ==
    IF m \in listening THEN StopTracking(m) /\ StopPruning(m) ELSE UNCHANGED services

\* Mutant: the services only wait for a change of leadership.
ListenOnly(m) ==
    /\ m \in leaderCheck /\ m \notin listening
    /\ listening' = listening \cup {m}
    /\ UNCHANGED <<leaderKey, instanceRole, commands, leaderCheck, services, execution, lost>>

\* init() of the wait tracker and of pruning, as one step.
InitServices(m) ==
    /\ m \in leaderCheck /\ m \notin listening
    /\ listening' = listening \cup {m}
    /\ \/ IsLeader(m) /\ StartTracking(m) /\ StartPruning(m)
       \/ ~IsLeader(m) /\ UNCHANGED services
    /\ UNCHANGED <<leaderKey, instanceRole, commands, leaderCheck, execution, lost>>

\* The interval of the wait tracker: getWaitingExecutions() queries ...
PollWaiting(m) ==
    /\ m \in mainTimer /\ polls[m] = {}
    /\ polls' = [polls EXCEPT ![m] = {Waiting}]
    /\ UNCHANGED <<leaderKey, instanceRole, commands, leaderCheck, listening, mainTimer,
                   waitingExecutions, resuming, softDeletions, execution, lost>>

\* ... and sets a timer for every execution that has no entry.
SetTimers(m) ==
    \E found \in polls[m] :
        /\ polls' = [polls EXCEPT ![m] = @ \ {found}]
        /\ waitingExecutions' = [waitingExecutions EXCEPT ![m] =
               [e \in Executions |-> IF e \in found /\ @[e] = "none" THEN "armed" ELSE @[e]]]
        /\ UNCHANGED <<leaderKey, instanceRole, commands, leaderCheck, listening, mainTimer,
                       resuming, softDeletions, execution, lost>>

\* The timer fires: startExecution() deletes the entry ...
StartExecution(m, e) ==
    /\ waitingExecutions[m][e] = "armed"
    /\ waitingExecutions' = [waitingExecutions EXCEPT ![m][e] = "none"]
    /\ resuming' = [resuming EXCEPT ![m] = @ \cup {e}]
    /\ UNCHANGED <<leaderKey, instanceRole, commands, leaderCheck, listening, mainTimer, polls,
                   softDeletions, execution, lost>>

\* ... loads the execution and runs it, which ends its wait.
Resume(m, e) ==
    /\ e \in resuming[m]
    /\ resuming' = [resuming EXCEPT ![m] = @ \ {e}]
    /\ execution' = [execution EXCEPT ![e] = "resumed"]
    /\ UNCHANGED <<leaderKey, instanceRole, commands, leaderCheck, listening, mainTimer, polls,
                   waitingExecutions, softDeletions, lost>>

\* Somewhere in the cluster an execution starts to wait.
PutToWait(e) ==
    /\ execution[e] = "new"
    /\ execution' = [execution EXCEPT ![e] = "waiting"]
    /\ UNCHANGED <<leaderKey, instanceRole, commands, leaderCheck, listening, services, lost>>

-----------------------------------------------------------------------------
(* MultiMainSetup                                                          *)

Send(m, name) == commands' = [commands EXCEPT ![m] = Append(@, Command(name))]
Answered(m, name) ==
    commands[m] # <<>> /\ Head(commands[m]).name = name /\ Head(commands[m]).done
Pop(m) == commands' = [commands EXCEPT ![m] = Tail(@)]

\* init(), up to the await of tryBecomeLeader().
Start(m) ==
    /\ instanceRole[m] = "new"
    /\ instanceRole' = [instanceRole EXCEPT ![m] = "unset"]
    /\ Send(m, "set")
    /\ UNCHANGED <<leaderKey, leaderCheck, listening, services, execution, lost>>

\* The rest of tryBecomeLeader(), and for the first one the rest of init().
BecomeLeader(m) ==
    /\ Answered(m, "set")
    /\ Pop(m)
    /\ leaderCheck' = IF instanceRole[m] = "unset" THEN leaderCheck \cup {m} ELSE leaderCheck
    /\ \/ /\ Head(commands[m]).value = m
          /\ instanceRole' = [instanceRole EXCEPT ![m] = "leader"]
          /\ Takeover(m)
       \/ /\ Head(commands[m]).value # m
          /\ instanceRole' = [instanceRole EXCEPT ![m] = "follower"]
          /\ UNCHANGED services
    /\ UNCHANGED <<leaderKey, listening, execution, lost>>

\* The interval fires: checkLeader(), up to its first await.
CheckLeader(m) ==
    /\ m \in leaderCheck
    /\ Len(commands[m]) < MaxCommands
    /\ Send(m, "get")
    /\ UNCHANGED <<leaderKey, instanceRole, leaderCheck, listening, services, execution, lost>>

\* Mutant: nobody tries to become leader again.
CheckOnly(m) ==
    LET leaderId == Head(commands[m]).value
    IN  /\ Answered(m, "get")
        /\ Pop(m)
        /\ IF leaderId = m \/ (leaderId # None /\ ~IsLeader(m)) THEN UNCHANGED <<instanceRole, services>>
           ELSE instanceRole' = [instanceRole EXCEPT ![m] = "follower"] /\ StepDown(m)
        /\ UNCHANGED <<leaderKey, leaderCheck, listening, execution, lost>>

\* checkLeader() with the answer, up to the await of tryBecomeLeader().
Check(m) ==
    LET leaderId == Head(commands[m]).value
    IN  /\ Answered(m, "get")
        /\ \/ /\ leaderId = m \/ (leaderId \notin {m, None} /\ ~IsLeader(m))
              /\ Pop(m)
              /\ UNCHANGED <<instanceRole, services>>
           \/ /\ leaderId \notin {m, None} /\ IsLeader(m)
              /\ Pop(m)
              /\ instanceRole' = [instanceRole EXCEPT ![m] = "follower"]
              /\ StepDown(m)
           \/ /\ leaderId = None
              /\ commands' = [commands EXCEPT ![m] = Append(Tail(@), Command("set"))]
              /\ instanceRole' = [instanceRole EXCEPT ![m] = "follower"]
              /\ StepDown(m)
        /\ UNCHANGED <<leaderKey, leaderCheck, listening, execution, lost>>

\* The process of m ends, with its memory.
Down(m) ==
    /\ instanceRole' = [instanceRole EXCEPT ![m] = "gone"]
    /\ leaderCheck' = leaderCheck \ {m}
    /\ listening' = listening \ {m}
    /\ commands' = [commands EXCEPT ![m] = <<>>]
    /\ mainTimer' = mainTimer \ {m}
    /\ polls' = [polls EXCEPT ![m] = {}]
    /\ waitingExecutions' = [waitingExecutions EXCEPT ![m] = [e \in Executions |-> "none"]]
    /\ resuming' = [resuming EXCEPT ![m] = {}]
    /\ softDeletions' = [softDeletions EXCEPT ![m] = 0]

\* A leader shuts down: stopTracking(), PruningService.shutdown(), and shutdown()
\* of MultiMainSetup, which clears the key.
Shutdown(m) ==
    /\ IsLeader(m) /\ m \in leaderCheck
    /\ leaderCheck' = leaderCheck \ {m}
    /\ Send(m, "clear")
    /\ UNCHANGED <<leaderKey, instanceRole, listening, execution, lost>>
    /\ StopTracking(m)
    /\ softDeletions' = [softDeletions EXCEPT ![m] = IF m \in listening THEN @ - 1 ELSE @]

Exit(m) ==
    /\ Answered(m, "clear")
    /\ Down(m)
    /\ UNCHANGED <<leaderKey, execution, lost>>

\* The process dies, or is a follower that shuts down.
Crash(m) ==
    /\ instanceRole[m] \notin {"new", "gone"}
    /\ Down(m)
    /\ UNCHANGED <<leaderKey, execution, lost>>

-----------------------------------------------------------------------------
Next ==
    \/ Expire
    \/ \E m \in Mains :
          \/ Start(m) \/ BecomeLeader(m) \/ CheckLeader(m) \/ Check(m) \/ RunCommand(m)
          \/ Shutdown(m) \/ Exit(m) \/ Crash(m)
          \/ InitServices(m) \/ PollWaiting(m) \/ SetTimers(m)
    \/ \E m \in Mains, e \in Executions : StartExecution(m, e) \/ Resume(m, e)
    \/ \E e \in Executions : PutToWait(e)

Spec == Init /\ [][Next]_vars

\* Redis answers, timers fire, and the key of a process that is gone expires.
\* Nobody has to start a main, or to shut one down.
Fairness ==
    /\ WF_vars(Expire /\ UNCHANGED lost)
    /\ \A m \in Mains :
          /\ WF_vars(RunCommand(m)) /\ WF_vars(BecomeLeader(m)) /\ WF_vars(Check(m))
          /\ WF_vars(CheckLeader(m)) /\ WF_vars(Exit(m)) /\ WF_vars(InitServices(m))
          /\ WF_vars(PollWaiting(m)) /\ WF_vars(SetTimers(m))
          /\ \A e \in Executions : WF_vars(StartExecution(m, e)) /\ WF_vars(Resume(m, e))

FairSpec == Spec /\ Fairness

-----------------------------------------------------------------------------
TypeOK ==
    /\ leaderKey \in Mains \cup {None}
    /\ instanceRole \in [Mains -> {"new", "unset", "leader", "follower", "gone"}]
    /\ commands \in [Mains -> Seq([name : {"get", "set", "clear"},
                                   value : Mains \cup {None}, done : BOOLEAN])]
    /\ leaderCheck \subseteq Mains /\ listening \subseteq Mains /\ mainTimer \subseteq Mains
    /\ polls \in [Mains -> SUBSET SUBSET Executions]
    /\ waitingExecutions \in [Mains -> [Executions -> {"none", "armed", "cleared"}]]
    /\ resuming \in [Mains -> SUBSET Executions]
    /\ execution \in [Executions -> {"new", "waiting", "resumed"}]
    /\ softDeletions \in [Mains -> Nat]
    /\ lost \in Nat

Up(m) == instanceRole[m] \notin {"new", "gone"}

\* There are two leaders at a time only when the first one lost its key without
\* knowing: it was too slow to renew it, or another one cleared it at its shutdown.
LeadersBounded ==
    Cardinality({m \in leaderCheck : IsLeader(m)}) <= 1 + lost

\* The wait tracker polls in the leader and nowhere else, however takeovers,
\* step-downs and the initialisation of the services follow each other.
TrackerFollowsRole ==
    \A m \in listening \cap leaderCheck : m \in mainTimer <=> IsLeader(m)

\* While mains are up, one of them becomes leader, after crashes, shutdowns and
\* expiries as well.
LeadershipIsTaken ==
    (\E m \in Mains : Up(m)) ~> ((\E m \in Mains : IsLeader(m)) \/ ~\E m \in Mains : Up(m))

\* Nothing but an entry whose timer was cleared keeps a waiting execution from
\* being resumed, whoever leads.
OnlyClearedTimersBlock ==
    \A e \in Executions : execution[e] = "waiting" ~>
        \/ execution[e] = "resumed"
        \/ \E m \in Mains : waitingExecutions[m][e] = "cleared"
        \/ ~\E m \in Mains : Up(m)

\* A main that finds its own id in the key, no command of it being under way, is
\* the leader it says it is.
KeyHolderLeads ==
    \A m \in leaderCheck : leaderKey = m /\ commands[m] = <<>> => IsLeader(m)
=============================================================================
