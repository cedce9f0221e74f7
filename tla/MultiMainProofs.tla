--------------------------- MODULE MultiMainProofs ---------------------------
(***************************************************************************)
(* Leadership among any number of mains: how many may lead at a time, and  *)
(* that the wait tracker polls where the leader is.  The bound counts      *)
(* claims, not leaders: a main that has won the key leads only when the    *)
(* answer arrives, and may have lost the key by then.                      *)
(***************************************************************************)
EXTENDS MultiMain, SequenceTheorems, FiniteSetTheorems, TLAPS

Roles == {"new", "unset", "leader", "follower", "gone"}
RedisCommand == [name : {"get", "set", "clear"}, value : Mains \cup {None}, done : BOOLEAN]

\* Among the commands cs of m, one has set the key, and m has yet to hear of it.
Won(cs, m) == \E k \in 1..Len(cs) : cs[k].name = "set" /\ cs[k].done /\ cs[k].value = m

Holds(cs, name) == \E k \in 1..Len(cs) : cs[k].name = name

\* m leads, or is about to.
Claims(m) ==
    \/ m \in leaderCheck /\ (IsLeader(m) \/ Won(commands[m], m))
    \/ instanceRole[m] = "unset" /\ Won(commands[m], m)

Claimants == {m \in Mains : Claims(m)}

\* What the steps of one main rely on.  A process that is starting up has sent one
\* command and runs nothing yet; one that shuts down has stopped its interval.
Sound(m) ==
    /\ instanceRole[m] \in {"new", "gone"} => commands[m] = <<>>
    /\ instanceRole[m] \in {"new", "gone", "unset"} => m \notin leaderCheck \cup listening
    /\ instanceRole[m] = "unset" => Len(commands[m]) = 1 /\ Holds(commands[m], "set")
    /\ Holds(commands[m], "clear") => m \notin leaderCheck
    /\ m \in listening \cap leaderCheck /\ IsLeader(m) => softDeletions[m] > 0

\* Inductive.
IInv ==
    /\ TypeOK
    /\ \A m \in Mains : Sound(m)
    /\ Cardinality(Claimants \ {leaderKey}) <= lost

\* Inductive with it when checks do not overlap.  A main that tries to take the
\* key does not lead, so that the failure of the try takes no leadership away.
Followed(m) ==
    /\ m \in leaderCheck =>
          /\ Len(commands[m]) <= 1
          /\ Holds(commands[m], "set") => ~IsLeader(m)
    /\ m \in mainTimer => m \in listening
    /\ m \in listening \cap leaderCheck => (m \in mainTimer <=> IsLeader(m))

TrackerInv == \A m \in Mains : Followed(m)

-----------------------------------------------------------------------------
(* The commands of one main *)

LEMMA RedisCommandFields ==
    ASSUME NEW c \in RedisCommand
    PROVE  /\ c.name \in {"get", "set", "clear"} /\ c.value \in Mains \cup {None}
           /\ c.done \in BOOLEAN
BY DEF RedisCommand

\* A new command has set nothing yet.
LEMMA AppendCommand ==
    ASSUME NEW cs \in Seq(RedisCommand), NEW name \in {"get", "set", "clear"}
    PROVE  /\ Append(cs, Command(name)) \in Seq(RedisCommand)
           /\ Len(Append(cs, Command(name))) = Len(cs) + 1
           /\ \A m : Won(Append(cs, Command(name)), m) <=> Won(cs, m)
           /\ \A n : Holds(Append(cs, Command(name)), n) <=> Holds(cs, n) \/ n = name
<1> DEFINE c == Command(name)
           after == Append(cs, c)
<1>1. c \in RedisCommand /\ c.name = name /\ ~c.done
  BY DEF Command, RedisCommand
<1> HIDE DEF c
<1>2. /\ after \in Seq(RedisCommand) /\ Len(after) = Len(cs) + 1
      /\ \A i \in 1..Len(cs) : after[i] = cs[i]
      /\ after[Len(cs) + 1] = c
  BY <1>1, AppendProperties
<1>3. Len(cs) \in Nat
  BY LenProperties
<1> HIDE DEF after
<1>4. \A k \in 1..Len(after) : k \in 1..Len(cs) \/ k = Len(cs) + 1
  BY <1>2, <1>3
<1>5. \A k \in 1..Len(cs) : k \in 1..Len(after)
  BY <1>2, <1>3
<1>6. Len(cs) + 1 \in 1..Len(after)
  BY <1>2, <1>3
<1>7. \A m : Won(after, m) <=> Won(cs, m)
  BY <1>1, <1>2, <1>4, <1>5 DEF Won
<1>8. \A n : Holds(after, n) <=> Holds(cs, n) \/ n = name
  BY <1>1, <1>2, <1>4, <1>5, <1>6 DEF Holds
<1> QED BY <1>2, <1>7, <1>8 DEF after, c

\* What the answer to the first command is taken from.
LEMMA TailCommands ==
    ASSUME NEW cs \in Seq(RedisCommand), cs # <<>>
    PROVE  /\ Head(cs) \in RedisCommand
           /\ Tail(cs) \in Seq(RedisCommand)
           /\ Len(cs) \in Nat \ {0} /\ Len(Tail(cs)) = Len(cs) - 1
           /\ \A m : Won(cs, m) <=> \/ Head(cs).name = "set" /\ Head(cs).done /\ Head(cs).value = m
                                    \/ Won(Tail(cs), m)
           /\ \A n : Holds(cs, n) <=> Head(cs).name = n \/ Holds(Tail(cs), n)
<1>1. /\ Head(cs) \in RedisCommand /\ Tail(cs) \in Seq(RedisCommand)
      /\ Len(Tail(cs)) = Len(cs) - 1
      /\ \A i \in 1..Len(Tail(cs)) : Tail(cs)[i] = cs[i + 1]
  BY HeadTailProperties
<1>2. Len(cs) \in Nat \ {0} /\ Head(cs) = cs[1]
  BY EmptySeq
<1>3. \A k \in 1..Len(cs) : k = 1 \/ k - 1 \in 1..Len(Tail(cs))
  BY <1>1, <1>2
<1>4. \A k \in 1..Len(Tail(cs)) : k + 1 \in 1..Len(cs)
  BY <1>1, <1>2
<1>5. \A k \in 1..Len(cs) : k = 1 \/ Tail(cs)[k - 1] = cs[k]
  BY <1>1, <1>2, <1>3
<1>6. 1 \in 1..Len(cs)
  BY <1>2
<1>7. \A m : Won(cs, m) <=> \/ cs[1].name = "set" /\ cs[1].done /\ cs[1].value = m
                            \/ Won(Tail(cs), m)
  <2> TAKE m
  <2>1. Won(Tail(cs), m) => Won(cs, m)
    BY <1>1, <1>4 DEF Won
  <2>2. ASSUME Won(cs, m)
        PROVE  (cs[1].name = "set" /\ cs[1].done /\ cs[1].value = m) \/ Won(Tail(cs), m)
    <3>1. PICK k \in 1..Len(cs) : cs[k].name = "set" /\ cs[k].done /\ cs[k].value = m
      BY <2>2 DEF Won
    <3> QED BY <3>1, <1>3, <1>5 DEF Won
  <2> QED BY <2>1, <2>2, <1>6 DEF Won
<1>8. \A n : Holds(cs, n) <=> cs[1].name = n \/ Holds(Tail(cs), n)
  <2> TAKE n
  <2>1. Holds(Tail(cs), n) => Holds(cs, n)
    BY <1>1, <1>4 DEF Holds
  <2>2. ASSUME Holds(cs, n) PROVE cs[1].name = n \/ Holds(Tail(cs), n)
    <3>1. PICK k \in 1..Len(cs) : cs[k].name = n
      BY <2>2 DEF Holds
    <3> QED BY <3>1, <1>3, <1>5 DEF Holds
  <2> QED BY <2>1, <2>2, <1>6 DEF Holds
<1> QED BY <1>1, <1>2, <1>7, <1>8

\* What Redis writes into a command that it runs.
LEMMA AnswerCommand ==
    ASSUME NEW cs \in Seq(RedisCommand), NEW k \in 1..Len(cs), ~cs[k].done,
           NEW c \in RedisCommand, c.name = cs[k].name, c.done
    PROVE  /\ [cs EXCEPT ![k] = c] \in Seq(RedisCommand)
           /\ Len([cs EXCEPT ![k] = c]) = Len(cs)
           /\ \A m : Won([cs EXCEPT ![k] = c], m) <=> Won(cs, m) \/ (c.name = "set" /\ c.value = m)
           /\ \A n : Holds([cs EXCEPT ![k] = c], n) <=> Holds(cs, n)
<1> DEFINE after == [cs EXCEPT ![k] = c]
<1>1. /\ after \in Seq(RedisCommand) /\ Len(after) = Len(cs)
      /\ \A j \in 1..Len(cs) : after[j] = IF j = k THEN c ELSE cs[j]
  BY ExceptSeq
<1> HIDE DEF after
<1>2. \A m : Won(after, m) <=> Won(cs, m) \/ (c.name = "set" /\ c.value = m)
  BY <1>1 DEF Won
<1>3. \A n : Holds(after, n) <=> Holds(cs, n)
  BY <1>1 DEF Holds
<1> QED BY <1>1, <1>2, <1>3 DEF after

LEMMA NothingHeld ==
    ASSUME NEW cs, Len(cs) = 0
    PROVE  /\ \A m : ~Won(cs, m)
           /\ \A n : ~Holds(cs, n)
BY DEF Won, Holds

LEMMA NoCommands ==
    /\ <<>> \in Seq(RedisCommand) /\ Len(<<>>) = 0
    /\ \A m : ~Won(<<>>, m)
    /\ \A n : ~Holds(<<>>, n)
<1>1. <<>> \in Seq(RedisCommand) /\ Len(<<>>) = 0
  BY EmptySeq
<1> QED BY <1>1, NothingHeld

LEMMA OnlyCommand ==
    ASSUME NEW cs \in Seq(RedisCommand), Len(cs) = 1, NEW n, Holds(cs, n)
    PROVE  cs # <<>> /\ Head(cs).name = n
<1>1. cs # <<>>
  BY NoCommands
<1>2. Len(Tail(cs)) = 0
  BY <1>1, TailCommands
<1>3. ~Holds(Tail(cs), n)
  BY <1>2, NothingHeld
<1>4. Holds(cs, n) <=> Head(cs).name = n \/ Holds(Tail(cs), n)
  BY <1>1, TailCommands
<1> QED BY <1>1, <1>3, <1>4

-----------------------------------------------------------------------------
(* Counting claims *)

LEMMA ClaimantsFinite ==
    /\ IsFiniteSet(Claimants) /\ Cardinality(Claimants) \in Nat
    /\ \A x : IsFiniteSet(Claimants \ {x}) /\ Cardinality(Claimants \ {x}) \in Nat
<1>1. IsFiniteSet(Claimants)
  BY MainsAssumption, FS_Subset DEF Claimants
<1> QED BY <1>1, FS_CardinalityType, FS_RemoveElement

\* The number of claims beside the key's can only grow with a key that is lost.
LEMMA ClaimsCounted ==
    ASSUME NEW S, IsFiniteSet(S), NEW T, NEW before \in Nat, NEW after \in Nat, NEW x,
           Cardinality(S) <= before,
           \/ T \subseteq S /\ after >= before
           \/ T \subseteq S \cup {x} /\ after = before + 1
    PROVE  Cardinality(T) <= after
<1>1. CASE T \subseteq S /\ after >= before
  <2>1. Cardinality(T) \in Nat /\ Cardinality(S) \in Nat /\ Cardinality(T) <= Cardinality(S)
    BY <1>1, FS_Subset, FS_CardinalityType
  <2> QED BY <1>1, <2>1
<1>2. CASE T \subseteq S \cup {x} /\ after = before + 1
  <2>1. /\ IsFiniteSet(S \cup {x}) /\ Cardinality(S) \in Nat
        /\ Cardinality(S \cup {x}) \in {Cardinality(S), Cardinality(S) + 1}
    BY FS_AddElement, FS_CardinalityType
  <2>2. Cardinality(T) \in Nat /\ Cardinality(T) <= Cardinality(S \cup {x})
    BY <1>2, <2>1, FS_Subset, FS_CardinalityType
  <2> QED BY <1>2, <2>1, <2>2
<1> QED BY <1>1, <1>2

-----------------------------------------------------------------------------
(* Steps of one main *)

\* The step changes nothing that IInv says of n.
Untouched(n) ==
    /\ instanceRole'[n] = instanceRole[n] /\ commands'[n] = commands[n]
    /\ n \in leaderCheck' <=> n \in leaderCheck
    /\ n \in listening' <=> n \in listening
    /\ softDeletions'[n] = softDeletions[n]

LEMMA UntouchedMain ==
    ASSUME NEW n \in Mains, Untouched(n)
    PROVE  /\ Sound(n) => Sound(n)'
           /\ Claims(n)' <=> Claims(n)
BY DEF Untouched, Sound, Claims, IsLeader

\* A step of m that makes no new claim and leaves the key alone.
LEMMA LocalStep ==
    ASSUME IInv, TypeOK', NEW m \in Mains,
           \A n \in Mains \ {m} : Untouched(n),
           Sound(m)', Claims(m)' => Claims(m),
           leaderKey' = leaderKey, lost' = lost
    PROVE  IInv'
<1>1. \A n \in Mains : Sound(n)'
  BY UntouchedMain DEF IInv
<1>2. Claimants' \subseteq Claimants
  BY UntouchedMain DEF Claimants
<1>3. Cardinality(Claimants' \ {leaderKey'}) <= lost'
  <2>1. lost \in Nat
    BY DEF IInv, TypeOK
  <2>2. Claimants' \ {leaderKey'} \subseteq Claimants \ {leaderKey}
    BY <1>2
  <2>3. IsFiniteSet(Claimants \ {leaderKey}) /\ Cardinality(Claimants \ {leaderKey}) <= lost
    BY ClaimantsFinite DEF IInv
  <2> QED BY <2>1, <2>2, <2>3, ClaimsCounted
<1> QED BY <1>1, <1>3 DEF IInv

\* A step that concerns nobody's role, commands or pruning.
LEMMA QuietStep ==
    ASSUME IInv, TypeOK',
           UNCHANGED <<leaderKey, instanceRole, commands, leaderCheck, listening,
                       softDeletions, lost>>
    PROVE  IInv'
BY DEF IInv, Sound, Claimants, Claims, IsLeader

LEMMA ServicesTyped ==
    ASSUME TypeOK, NEW m \in Mains
    PROVE  /\ StartTracking(m) =>
                 /\ mainTimer' \subseteq Mains
                 /\ polls' \in [Mains -> SUBSET SUBSET Executions]
                 /\ waitingExecutions' \in [Mains -> [Executions -> {"none", "armed", "cleared"}]]
                 /\ resuming' \in [Mains -> SUBSET Executions]
           /\ StopTracking(m) =>
                 /\ mainTimer' \subseteq Mains
                 /\ polls' \in [Mains -> SUBSET SUBSET Executions]
                 /\ waitingExecutions' \in [Mains -> [Executions -> {"none", "armed", "cleared"}]]
                 /\ resuming' \in [Mains -> SUBSET Executions]
           /\ StartPruning(m) =>
                 /\ softDeletions' \in [Mains -> Nat]
                 /\ \A n \in Mains \ {m} : softDeletions'[n] = softDeletions[n]
                 /\ m \in leaderCheck => softDeletions'[m] > 0
<1>1. ASSUME StartTracking(m)
      PROVE  /\ mainTimer' \subseteq Mains
             /\ polls' \in [Mains -> SUBSET SUBSET Executions]
             /\ waitingExecutions' \in [Mains -> [Executions -> {"none", "armed", "cleared"}]]
             /\ resuming' \in [Mains -> SUBSET Executions]
  <2>1. Waiting \in SUBSET Executions
    BY DEF Waiting
  <2> QED BY <1>1, <2>1 DEF StartTracking, TypeOK
<1>2. ASSUME StopTracking(m)
      PROVE  /\ mainTimer' \subseteq Mains
             /\ polls' \in [Mains -> SUBSET SUBSET Executions]
             /\ waitingExecutions' \in [Mains -> [Executions -> {"none", "armed", "cleared"}]]
             /\ resuming' \in [Mains -> SUBSET Executions]
  BY <1>2 DEF StopTracking, TypeOK
<1>3. ASSUME StartPruning(m)
      PROVE  /\ softDeletions' \in [Mains -> Nat]
             /\ \A n \in Mains \ {m} : softDeletions'[n] = softDeletions[n]
             /\ m \in leaderCheck => softDeletions'[m] > 0
  BY <1>3 DEF StartPruning, TypeOK
<1> QED BY <1>1, <1>2, <1>3

LEMMA StartStep ==
    ASSUME IInv, NEW m \in Mains, Start(m)
    PROVE  IInv'
<1>1. /\ commands[m] = <<>> /\ m \notin leaderCheck \cup listening
      /\ instanceRole[m] = "new"
  BY DEF Start, IInv, Sound
<1>2. commands \in [Mains -> Seq(RedisCommand)] /\ instanceRole \in [Mains -> Roles]
  BY DEF IInv, TypeOK, RedisCommand, Roles
<1>3. /\ commands'[m] = Append(<<>>, Command("set"))
      /\ \A n \in Mains \ {m} : commands'[n] = commands[n]
      /\ commands' \in [Mains -> Seq(RedisCommand)]
  BY <1>1, <1>2, NoCommands, AppendCommand DEF Start, Send
<1>4. /\ instanceRole'[m] = "unset" /\ instanceRole' \in [Mains -> Roles]
      /\ \A n \in Mains \ {m} : instanceRole'[n] = instanceRole[n]
  BY <1>2 DEF Start, Roles
<1>5. /\ Len(commands'[m]) = 1 /\ Holds(commands'[m], "set") /\ ~Won(commands'[m], m)
      /\ ~Holds(commands'[m], "clear")
  <2> DEFINE empty == <<>>
             after == Append(empty, Command("set"))
  <2>1. /\ empty \in Seq(RedisCommand) /\ Len(empty) = 0
        /\ \A x : ~Won(empty, x)
        /\ \A n : ~Holds(empty, n)
    BY NoCommands
  <2>2. commands'[m] = after
    BY <1>3
  <2> HIDE DEF empty
  <2>3. /\ Len(after) = Len(empty) + 1
        /\ \A x : Won(after, x) <=> Won(empty, x)
        /\ \A n : Holds(after, n) <=> Holds(empty, n) \/ n = "set"
    BY <2>1, AppendCommand
  <2> HIDE DEF after
  <2> QED BY <2>1, <2>2, <2>3
<1>6. TypeOK'
  BY <1>3, <1>4 DEF Start, services, tracker, IInv, TypeOK, RedisCommand, Roles
<1>7. Sound(m)' /\ ~Claims(m)'
  BY <1>1, <1>4, <1>5 DEF Start, Sound, Claims, IsLeader
<1>8. \A n \in Mains \ {m} : Untouched(n)
  BY <1>3, <1>4 DEF Start, services, Untouched
<1> QED BY <1>6, <1>7, <1>8, LocalStep DEF Start

LEMMA CheckLeaderStep ==
    ASSUME IInv, NEW m \in Mains, CheckLeader(m)
    PROVE  IInv'
<1>1. m \in leaderCheck
  BY DEF CheckLeader
<1>2. commands \in [Mains -> Seq(RedisCommand)] /\ commands[m] \in Seq(RedisCommand)
  BY DEF IInv, TypeOK, RedisCommand
<1>3. /\ commands'[m] = Append(commands[m], Command("get"))
      /\ \A n \in Mains \ {m} : commands'[n] = commands[n]
      /\ commands' \in [Mains -> Seq(RedisCommand)]
  BY <1>2, AppendCommand DEF CheckLeader, Send
<1>4. /\ Won(commands'[m], m) => Won(commands[m], m)
      /\ Holds(commands'[m], "clear") => Holds(commands[m], "clear")
  BY <1>2, <1>3, AppendCommand
<1>5. TypeOK'
  BY <1>3 DEF CheckLeader, services, tracker, IInv, TypeOK, RedisCommand
<1>6. Sound(m)' /\ (Claims(m)' => Claims(m))
  BY <1>1, <1>4 DEF CheckLeader, services, IInv, Sound, Claims, IsLeader
<1>7. \A n \in Mains \ {m} : Untouched(n)
  BY <1>3 DEF CheckLeader, services, Untouched
<1> QED BY <1>5, <1>6, <1>7, LocalStep DEF CheckLeader

LEMMA BecomeLeaderStep ==
    ASSUME IInv, NEW m \in Mains, BecomeLeader(m)
    PROVE  IInv'
<1> DEFINE cs == commands[m]
<1>1. /\ cs # <<>> /\ Head(cs).name = "set" /\ Head(cs).done
      /\ instanceRole[m] \notin {"new", "gone"}
  BY DEF BecomeLeader, Answered, IInv, Sound
<1>2. commands \in [Mains -> Seq(RedisCommand)] /\ cs \in Seq(RedisCommand)
  BY DEF IInv, TypeOK, RedisCommand
<1>3. /\ commands'[m] = Tail(cs)
      /\ \A n \in Mains \ {m} : commands'[n] = commands[n]
      /\ commands' \in [Mains -> Seq(RedisCommand)]
  BY <1>1, <1>2, TailCommands DEF BecomeLeader, Pop
<1>4. /\ Won(commands'[m], m) => Won(cs, m)
      /\ Head(cs).value = m => Won(cs, m)
      /\ Holds(commands'[m], "clear") => Holds(cs, "clear")
      /\ instanceRole[m] = "unset" => ~Holds(cs, "clear")
  <2>1. instanceRole[m] = "unset" => ~Holds(cs, "clear")
    BY <1>1, <1>2, OnlyCommand DEF IInv, Sound
  <2>2. /\ \A x : Won(cs, x) <=> \/ Head(cs).name = "set" /\ Head(cs).done /\ Head(cs).value = x
                                 \/ Won(Tail(cs), x)
        /\ \A n : Holds(cs, n) <=> Head(cs).name = n \/ Holds(Tail(cs), n)
    BY <1>1, <1>2, TailCommands
  <2> HIDE DEF cs
  <2> QED BY <1>1, <1>3, <2>1, <2>2
<1>5. /\ instanceRole' \in [Mains -> Roles]
      /\ \A n \in Mains \ {m} : instanceRole'[n] = instanceRole[n]
      /\ \/ instanceRole'[m] = "leader" /\ Head(cs).value = m
         \/ instanceRole'[m] = "follower"
  BY DEF BecomeLeader, IInv, TypeOK, Roles
<1>6. /\ leaderCheck' \subseteq Mains
      /\ \A n \in Mains \ {m} : n \in leaderCheck' <=> n \in leaderCheck
      /\ m \in leaderCheck' <=> m \in leaderCheck \/ instanceRole[m] = "unset"
  BY DEF BecomeLeader, IInv, TypeOK
<1>7. /\ mainTimer' \subseteq Mains
      /\ polls' \in [Mains -> SUBSET SUBSET Executions]
      /\ waitingExecutions' \in [Mains -> [Executions -> {"none", "armed", "cleared"}]]
      /\ resuming' \in [Mains -> SUBSET Executions]
      /\ softDeletions' \in [Mains -> Nat]
      /\ \A n \in Mains \ {m} : softDeletions'[n] = softDeletions[n]
      /\ m \in leaderCheck \cap listening /\ instanceRole'[m] = "leader" => softDeletions'[m] > 0
  <2>1. CASE UNCHANGED services /\ (m \notin listening \/ instanceRole'[m] = "follower")
    BY <2>1 DEF services, tracker, IInv, TypeOK
  <2>2. CASE StartTracking(m) /\ StartPruning(m)
    BY <2>2, ServicesTyped DEF IInv
  <2> QED BY <2>1, <2>2 DEF BecomeLeader, Takeover, IInv, TypeOK
<1>8. TypeOK'
  BY <1>3, <1>5, <1>6, <1>7 DEF BecomeLeader, IInv, TypeOK, RedisCommand, Roles
<1>9. Sound(m)'
  BY <1>1, <1>4, <1>5, <1>6, <1>7 DEF BecomeLeader, IInv, Sound, IsLeader
<1>10. Claims(m)' => Claims(m)
  BY <1>4, <1>5, <1>6 DEF Claims, IsLeader
<1>11. \A n \in Mains \ {m} : Untouched(n)
  BY <1>3, <1>5, <1>6, <1>7 DEF BecomeLeader, Untouched
<1> QED BY <1>8, <1>9, <1>10, <1>11, LocalStep DEF BecomeLeader

\* Whatever the check does to the role, the commands that remain have set no key
\* that they had not set before.
LEMMA CheckCommands ==
    ASSUME IInv, NEW m \in Mains, Check(m)
    PROVE  /\ commands[m] \in Seq(RedisCommand) /\ commands[m] # <<>>
           /\ commands' \in [Mains -> Seq(RedisCommand)]
           /\ \A n \in Mains \ {m} : commands'[n] = commands[n]
           /\ Won(commands'[m], m) => Won(commands[m], m)
           /\ Holds(commands'[m], "clear") => Holds(commands[m], "clear")
           /\ instanceRole[m] \notin {"new", "gone", "unset"}
<1> DEFINE cs == commands[m]
<1>1. cs # <<>> /\ Head(cs).name = "get" /\ cs \in Seq(RedisCommand)
      /\ commands \in [Mains -> Seq(RedisCommand)]
  BY DEF Check, Answered, IInv, TypeOK, RedisCommand
<1>2. instanceRole[m] \notin {"new", "gone", "unset"}
  <2>1. instanceRole[m] # "unset"
    BY <1>1, OnlyCommand DEF IInv, Sound
  <2> QED BY <1>1, <2>1 DEF IInv, Sound
<1>3. Tail(cs) \in Seq(RedisCommand)
  BY <1>1, TailCommands
<1>4. /\ \A x : Won(cs, x) <=> \/ Head(cs).name = "set" /\ Head(cs).done /\ Head(cs).value = x
                               \/ Won(Tail(cs), x)
      /\ \A n : Holds(cs, n) <=> Head(cs).name = n \/ Holds(Tail(cs), n)
  BY <1>1, TailCommands
<1> DEFINE more == Append(Tail(cs), Command("set"))
<1>5. /\ more \in Seq(RedisCommand)
      /\ \A x : Won(more, x) <=> Won(Tail(cs), x)
      /\ \A n : Holds(more, n) <=> Holds(Tail(cs), n) \/ n = "set"
  BY <1>3, AppendCommand
<1>6. \/ commands' = [commands EXCEPT ![m] = Tail(cs)]
      \/ commands' = [commands EXCEPT ![m] = more]
  BY DEF Check, Pop
<1> HIDE DEF more
<1>7. /\ commands' \in [Mains -> Seq(RedisCommand)]
      /\ \A n \in Mains \ {m} : commands'[n] = commands[n]
      /\ commands'[m] = Tail(cs) \/ commands'[m] = more
  BY <1>1, <1>3, <1>5, <1>6
<1> HIDE DEF cs
<1>8. /\ Won(commands'[m], m) => Won(cs, m)
      /\ Holds(commands'[m], "clear") => Holds(cs, "clear")
  BY <1>4, <1>5, <1>7
<1> QED BY <1>1, <1>2, <1>7, <1>8 DEF cs

LEMMA CheckStep ==
    ASSUME IInv, NEW m \in Mains, Check(m)
    PROVE  IInv'
<1>1. /\ commands' \in [Mains -> Seq(RedisCommand)]
      /\ \A n \in Mains \ {m} : commands'[n] = commands[n]
      /\ Won(commands'[m], m) => Won(commands[m], m)
      /\ Holds(commands'[m], "clear") => Holds(commands[m], "clear")
      /\ instanceRole[m] \notin {"new", "gone", "unset"}
  BY CheckCommands
<1>2. \/ UNCHANGED <<instanceRole, services>>
      \/ instanceRole' = [instanceRole EXCEPT ![m] = "follower"] /\ StepDown(m)
  BY DEF Check
<1>3. /\ instanceRole' \in [Mains -> Roles]
      /\ \A n \in Mains \ {m} : instanceRole'[n] = instanceRole[n]
      /\ instanceRole'[m] = instanceRole[m] \/ instanceRole'[m] = "follower"
  BY <1>2 DEF IInv, TypeOK, Roles
<1>4. /\ mainTimer' \subseteq Mains
      /\ polls' \in [Mains -> SUBSET SUBSET Executions]
      /\ waitingExecutions' \in [Mains -> [Executions -> {"none", "armed", "cleared"}]]
      /\ resuming' \in [Mains -> SUBSET Executions]
      /\ softDeletions' = softDeletions
  <2>1. CASE UNCHANGED services
    BY <2>1 DEF services, tracker, IInv, TypeOK
  <2>2. CASE StopTracking(m) /\ StopPruning(m) /\ instanceRole'[m] = "follower"
    <3>1. softDeletions' = softDeletions
      BY <2>2 DEF StopPruning
    <3> QED BY <2>2, <3>1, ServicesTyped DEF IInv
  <2>3. ASSUME instanceRole' = [instanceRole EXCEPT ![m] = "follower"] PROVE instanceRole'[m] = "follower"
    BY <2>3 DEF IInv, TypeOK
  <2> QED BY <1>2, <2>1, <2>2, <2>3 DEF StepDown
<1>5. UNCHANGED <<leaderKey, leaderCheck, listening, execution, lost>>
  BY DEF Check
<1>6. TypeOK'
  BY <1>1, <1>3, <1>4, <1>5 DEF IInv, TypeOK, RedisCommand, Roles
<1>7. Sound(m)' /\ (Claims(m)' => Claims(m))
  BY <1>1, <1>3, <1>4, <1>5 DEF IInv, Sound, Claims, IsLeader
<1>8. \A n \in Mains \ {m} : Untouched(n)
  BY <1>1, <1>3, <1>4, <1>5 DEF Untouched
<1> QED BY <1>5, <1>6, <1>7, <1>8, LocalStep

LEMMA ShutdownStep ==
    ASSUME IInv, NEW m \in Mains, Shutdown(m)
    PROVE  IInv'
<1>1. instanceRole[m] = "leader" /\ m \in leaderCheck
  BY DEF Shutdown, IsLeader
<1>2. commands \in [Mains -> Seq(RedisCommand)] /\ commands[m] \in Seq(RedisCommand)
  BY DEF IInv, TypeOK, RedisCommand
<1>3. /\ commands' \in [Mains -> Seq(RedisCommand)]
      /\ \A n \in Mains \ {m} : commands'[n] = commands[n]
  BY <1>2, AppendCommand DEF Shutdown, Send
<1>4. /\ leaderCheck' \subseteq Mains /\ m \notin leaderCheck'
      /\ \A n \in Mains \ {m} : n \in leaderCheck' <=> n \in leaderCheck
  BY DEF Shutdown, IInv, TypeOK
<1>5. softDeletions[m] \in Nat /\ (m \in listening => softDeletions[m] - 1 \in Nat)
  BY <1>1 DEF IInv, TypeOK, Sound, IsLeader
<1>6. /\ softDeletions' \in [Mains -> Nat]
      /\ \A n \in Mains \ {m} : softDeletions'[n] = softDeletions[n]
  BY <1>5 DEF Shutdown, IInv, TypeOK
<1>7. /\ mainTimer' \subseteq Mains
      /\ polls' \in [Mains -> SUBSET SUBSET Executions]
      /\ waitingExecutions' \in [Mains -> [Executions -> {"none", "armed", "cleared"}]]
      /\ resuming' \in [Mains -> SUBSET Executions]
  BY ServicesTyped DEF Shutdown, IInv
<1>8. UNCHANGED <<leaderKey, instanceRole, listening, execution, lost>>
  BY DEF Shutdown
<1>9. TypeOK'
  BY <1>3, <1>4, <1>6, <1>7, <1>8 DEF IInv, TypeOK, RedisCommand
<1>10. Sound(m)' /\ ~Claims(m)'
  BY <1>1, <1>4, <1>8 DEF IInv, Sound, Claims, IsLeader
<1>11. \A n \in Mains \ {m} : Untouched(n)
  BY <1>3, <1>4, <1>6, <1>8 DEF Untouched
<1> QED BY <1>8, <1>9, <1>10, <1>11, LocalStep

LEMMA DownStep ==
    ASSUME IInv, NEW m \in Mains, Down(m), UNCHANGED <<leaderKey, execution, lost>>
    PROVE  IInv'
<1>1. /\ commands' \in [Mains -> Seq(RedisCommand)] /\ commands'[m] = <<>>
      /\ \A n \in Mains \ {m} : commands'[n] = commands[n]
  BY NoCommands DEF Down, IInv, TypeOK, RedisCommand
<1>2. /\ instanceRole' \in [Mains -> Roles] /\ instanceRole'[m] = "gone"
      /\ \A n \in Mains \ {m} : instanceRole'[n] = instanceRole[n]
  BY DEF Down, IInv, TypeOK, Roles
<1>3. ~Holds(commands'[m], "clear") /\ ~Won(commands'[m], m)
  BY <1>1, NoCommands
<1>4. TypeOK'
  BY <1>1, <1>2 DEF Down, IInv, TypeOK, RedisCommand, Roles
<1>5. Sound(m)' /\ ~Claims(m)'
  BY <1>1, <1>2, <1>3 DEF Down, Sound, Claims, IsLeader
<1>6. \A n \in Mains \ {m} : Untouched(n)
  BY <1>1, <1>2 DEF Down, Untouched, IInv, TypeOK
<1> QED BY <1>4, <1>5, <1>6, LocalStep

LEMMA InitServicesStep ==
    ASSUME IInv, NEW m \in Mains, InitServices(m)
    PROVE  IInv'
<1>1. /\ m \in leaderCheck /\ listening' = listening \cup {m}
      /\ UNCHANGED <<leaderKey, instanceRole, commands, leaderCheck, execution, lost>>
  BY DEF InitServices
<1>2. /\ mainTimer' \subseteq Mains
      /\ polls' \in [Mains -> SUBSET SUBSET Executions]
      /\ waitingExecutions' \in [Mains -> [Executions -> {"none", "armed", "cleared"}]]
      /\ resuming' \in [Mains -> SUBSET Executions]
      /\ softDeletions' \in [Mains -> Nat]
      /\ \A n \in Mains \ {m} : softDeletions'[n] = softDeletions[n]
      /\ IsLeader(m) => softDeletions'[m] > 0
  <2>1. CASE IsLeader(m) /\ StartTracking(m) /\ StartPruning(m)
    BY <1>1, <2>1, ServicesTyped DEF IInv
  <2>2. CASE ~IsLeader(m) /\ UNCHANGED services
    BY <2>2 DEF services, tracker, IInv, TypeOK
  <2> QED BY <2>1, <2>2 DEF InitServices
<1>3. TypeOK'
  BY <1>1, <1>2 DEF IInv, TypeOK
<1>4. Sound(m)' /\ (Claims(m)' => Claims(m))
  BY <1>1, <1>2 DEF IInv, Sound, Claims, IsLeader
<1>5. \A n \in Mains \ {m} : Untouched(n)
  BY <1>1, <1>2 DEF Untouched
<1> QED BY <1>1, <1>3, <1>4, <1>5, LocalStep

LEMMA TrackerSteps ==
    ASSUME IInv,
           \/ \E m \in Mains : PollWaiting(m) \/ SetTimers(m)
           \/ \E m \in Mains, e \in Executions : StartExecution(m, e) \/ Resume(m, e)
           \/ \E e \in Executions : PutToWait(e)
    PROVE  IInv'
<1>1. ASSUME NEW m \in Mains, PollWaiting(m) PROVE IInv'
  <2>1. Waiting \in SUBSET Executions
    BY DEF Waiting
  <2>2. TypeOK'
    BY <1>1, <2>1 DEF PollWaiting, IInv, TypeOK
  <2> QED BY <1>1, <2>2, QuietStep DEF PollWaiting
<1>2. ASSUME NEW m \in Mains, SetTimers(m) PROVE IInv'
  <2>1. PICK found \in polls[m] :
            waitingExecutions' = [waitingExecutions EXCEPT ![m] =
               [e \in Executions |-> IF e \in found /\ @[e] = "none" THEN "armed" ELSE @[e]]]
    BY <1>2 DEF SetTimers
  <2>2. TypeOK'
    <3>1. waitingExecutions' \in [Mains -> [Executions -> {"none", "armed", "cleared"}]]
      BY <2>1 DEF IInv, TypeOK
    <3>2. polls' \in [Mains -> SUBSET SUBSET Executions]
      BY <1>2 DEF SetTimers, IInv, TypeOK
    <3> QED BY <1>2, <3>1, <3>2 DEF SetTimers, IInv, TypeOK
  <2> QED BY <1>2, <2>2, QuietStep DEF SetTimers
<1>3. ASSUME NEW m \in Mains, NEW e \in Executions, StartExecution(m, e) PROVE IInv'
  <2>1. TypeOK'
    BY <1>3 DEF StartExecution, IInv, TypeOK
  <2> QED BY <1>3, <2>1, QuietStep DEF StartExecution
<1>4. ASSUME NEW m \in Mains, NEW e \in Executions, Resume(m, e) PROVE IInv'
  <2>1. TypeOK'
    BY <1>4 DEF Resume, IInv, TypeOK
  <2> QED BY <1>4, <2>1, QuietStep DEF Resume
<1>5. ASSUME NEW e \in Executions, PutToWait(e) PROVE IInv'
  <2>1. TypeOK'
    BY <1>5 DEF PutToWait, services, tracker, IInv, TypeOK
  <2> QED BY <1>5, <2>1, QuietStep DEF PutToWait, services
<1> QED BY <1>1, <1>2, <1>3, <1>4, <1>5

-----------------------------------------------------------------------------
(* Steps of Redis *)

LEMMA ExpireStep ==
    ASSUME IInv, Expire
    PROVE  IInv'
<1>1. /\ leaderKey \in Mains /\ leaderKey' = None
      /\ UNCHANGED <<instanceRole, commands, leaderCheck, listening, softDeletions>>
      /\ lost \in Nat /\ lost' \in Nat
  BY DEF Expire, services, IInv, TypeOK
<1>2. TypeOK'
  BY <1>1 DEF Expire, services, tracker, IInv, TypeOK
<1>3. \A n \in Mains : Untouched(n)
  BY <1>1 DEF Untouched
<1>4. (\A n \in Mains : Sound(n)') /\ Claimants' = Claimants
  BY <1>3, UntouchedMain DEF IInv, Claimants
<1>5. \/ Claimants' \ {leaderKey'} \subseteq Claimants \ {leaderKey} /\ lost' = lost
      \/ Claimants' \ {leaderKey'} \subseteq (Claimants \ {leaderKey}) \cup {leaderKey} /\ lost' = lost + 1
  <2>1. CASE instanceRole[leaderKey] = "gone" /\ UNCHANGED lost
    <3>1. leaderKey \notin Claimants
      BY <1>1, <2>1, NothingHeld DEF IInv, Sound, Claimants, Claims, IsLeader
    <3> QED BY <1>4, <2>1, <3>1
  <2>2. CASE lost' = lost + 1
    BY <1>4, <2>2
  <2> QED BY <2>1, <2>2 DEF Expire
<1>6. IsFiniteSet(Claimants \ {leaderKey}) /\ Cardinality(Claimants \ {leaderKey}) <= lost
  BY ClaimantsFinite DEF IInv
<1>7. Cardinality(Claimants' \ {leaderKey'}) <= lost'
  BY <1>1, <1>5, <1>6, ClaimsCounted
<1> QED BY <1>2, <1>4, <1>7 DEF IInv

\* Redis runs a command: what it writes is no claim, unless the key was vacant, and
\* a main that has sent "clear" claims nothing.
LEMMA RunCommandStep ==
    ASSUME IInv, NEW m \in Mains, RunCommand(m)
    PROVE  IInv'
<1> DEFINE cs == commands[m]
<1>1. cs \in Seq(RedisCommand) /\ commands \in [Mains -> Seq(RedisCommand)]
      /\ leaderKey \in Mains \cup {None} /\ lost \in Nat /\ None \notin Mains
  BY MainsAssumption DEF IInv, TypeOK, RedisCommand
<1>2. PICK k \in Pending(m) : RunSet(m, k) \/ RunGet(m, k) \/ RunClear(m, k)
  BY DEF RunCommand
<1>3. k \in 1..Len(cs) /\ ~cs[k].done
  BY <1>1, <1>2 DEF Pending
<1> DEFINE v == IF cs[k].name = "set" THEN IF leaderKey = None THEN m ELSE None
                ELSE IF cs[k].name = "get" THEN leaderKey ELSE None
           c == [cs[k] EXCEPT !.value = v, !.done = TRUE]
           after == [cs EXCEPT ![k] = c]
<1>4. c \in RedisCommand /\ c.name = cs[k].name /\ c.value = v /\ c.done
  <2>1. v \in Mains \cup {None}
    BY <1>1
  <2>2. cs[k] \in RedisCommand
    BY <1>1, <1>3, ElementOfSeq
  <2> HIDE DEF v
  <2> QED BY <2>1, <2>2 DEF RedisCommand
<1>5. commands' = [commands EXCEPT ![m] = after]
  <2>1. CASE RunSet(m, k)
    BY <1>1, <2>1 DEF RunSet, Answers
  <2>2. CASE RunGet(m, k)
    BY <1>1, <2>2 DEF RunGet, Answers
  <2>3. CASE RunClear(m, k)
    BY <1>1, <2>3 DEF RunClear, Answers
  <2> QED BY <1>2, <2>1, <2>2, <2>3
<1>6. \/ /\ cs[k].name = "set" /\ leaderKey = None /\ leaderKey' = m /\ lost' = lost /\ v = m
      \/ /\ cs[k].name = "set" \/ cs[k].name = "get"
         /\ leaderKey' = leaderKey /\ lost' = lost /\ (cs[k].name = "set" => v = None)
      \/ /\ cs[k].name = "clear" /\ leaderKey' = None
         /\ lost' = IF leaderKey \in {m, None} THEN lost ELSE lost + 1
  BY <1>2 DEF RunSet, RunGet, RunClear
<1> HIDE DEF v, c
<1>7. /\ after \in Seq(RedisCommand) /\ Len(after) = Len(cs)
      /\ \A x : Won(after, x) <=> Won(cs, x) \/ (cs[k].name = "set" /\ v = x)
      /\ \A n : Holds(after, n) <=> Holds(cs, n)
  <2>1. /\ after \in Seq(RedisCommand) /\ Len(after) = Len(cs)
        /\ \A x : Won(after, x) <=> Won(cs, x) \/ (c.name = "set" /\ c.value = x)
        /\ \A n : Holds(after, n) <=> Holds(cs, n)
    BY <1>1, <1>3, <1>4, AnswerCommand
  <2> HIDE DEF after
  <2> QED BY <1>4, <2>1
<1> HIDE DEF after
<1>8. /\ commands'[m] = after /\ commands' \in [Mains -> Seq(RedisCommand)]
      /\ \A n \in Mains \ {m} : commands'[n] = commands[n]
  BY <1>1, <1>5, <1>7
<1>9. UNCHANGED <<instanceRole, leaderCheck, listening, services, execution>>
  BY DEF RunCommand
<1>10. TypeOK'
  <2>1. leaderKey' \in Mains \cup {None} /\ lost' \in Nat
    BY <1>1, <1>6
  <2> QED BY <2>1, <1>8, <1>9 DEF services, tracker, IInv, TypeOK, RedisCommand
<1>11. \A n \in Mains \ {m} : Untouched(n)
  BY <1>8, <1>9 DEF services, Untouched
<1>12. commands'[m] # <<>> /\ commands[m] # <<>>
  BY <1>1, <1>3, <1>7, <1>8, NoCommands, LenProperties
<1>13. Sound(m)'
  BY <1>7, <1>8, <1>9, <1>12 DEF services, IInv, Sound, IsLeader
<1>14. \A n \in Mains : Sound(n)'
  BY <1>11, <1>13, UntouchedMain DEF IInv
<1>15. Cardinality(Claimants' \ {leaderKey'}) <= lost'
  <2> DEFINE S == Claimants \ {leaderKey}
             T == Claimants' \ {leaderKey'}
  <2>1. IsFiniteSet(S) /\ Cardinality(S) <= lost
    BY ClaimantsFinite DEF IInv
  <2>2. \A n \in Mains \ {m} : n \in Claimants' <=> n \in Claimants
    BY <1>11, UntouchedMain DEF Claimants
  <2>3. Claimants \subseteq Mains /\ Claimants' \subseteq Mains
    BY DEF Claimants
  <2>4. Claims(m)' => Claims(m) \/ (cs[k].name = "set" /\ v = m)
    BY <1>7, <1>8, <1>9 DEF Claims, IsLeader
  <2>5. m \in Claimants' => m \in Claimants \/ (cs[k].name = "set" /\ v = m)
    BY <2>4 DEF Claimants
  <2>6. cs[k].name = "clear" => m \notin Claimants
    <3>1. ASSUME cs[k].name = "clear" PROVE ~Claims(m)
      <4>1. Holds(cs, "clear")
        BY <1>3, <3>1 DEF Holds
      <4>2. m \notin leaderCheck
        BY <4>1 DEF IInv, Sound
      <4>3. instanceRole[m] # "unset"
        BY <1>1, <4>1, OnlyCommand DEF IInv, Sound
      <4> QED BY <4>2, <4>3 DEF Claims
    <3> QED BY <3>1 DEF Claimants
  <2>7. lost' \in Nat
    BY <1>10 DEF TypeOK
  <2>8. (T \subseteq S /\ lost' >= lost) \/ (T \subseteq S \cup {leaderKey} /\ lost' = lost + 1)
    BY <1>1, <1>6, <2>2, <2>3, <2>5, <2>6
  <2> QED BY <1>1, <2>1, <2>7, <2>8, ClaimsCounted
<1> QED BY <1>10, <1>14, <1>15 DEF IInv

-----------------------------------------------------------------------------
(* The wait tracker, when checks do not overlap *)

LEMMA OthersFollowed ==
    ASSUME TrackerInv, NEW m \in Mains, Followed(m)',
           \A n \in Mains \ {m} :
              /\ instanceRole'[n] = instanceRole[n] /\ commands'[n] = commands[n]
              /\ n \in leaderCheck' <=> n \in leaderCheck
              /\ n \in listening' <=> n \in listening
              /\ n \in mainTimer' <=> n \in mainTimer
    PROVE  TrackerInv'
BY DEF TrackerInv, Followed, IsLeader

LEMMA NextTrackerInv ==
    ASSUME MaxCommands = 1, IInv, TrackerInv, Next
    PROVE  TrackerInv'
<1>0. /\ commands \in [Mains -> Seq(RedisCommand)] /\ instanceRole \in [Mains -> Roles]
      /\ \A m \in Mains : Sound(m) /\ Followed(m)
  BY DEF IInv, TypeOK, TrackerInv, RedisCommand, Roles
<1>1. ASSUME UNCHANGED <<instanceRole, commands, leaderCheck, listening, mainTimer>>
      PROVE  TrackerInv'
  BY <1>1 DEF TrackerInv, Followed, IsLeader
<1>2. CASE \/ Expire
           \/ \E m \in Mains : PollWaiting(m) \/ SetTimers(m)
           \/ \E m \in Mains, e \in Executions : StartExecution(m, e) \/ Resume(m, e)
           \/ \E e \in Executions : PutToWait(e)
  BY <1>1, <1>2 DEF Expire, PollWaiting, SetTimers, StartExecution, Resume, PutToWait,
                    services, tracker
<1>3. ASSUME NEW m \in Mains, Start(m) PROVE TrackerInv'
  <2>1. m \notin leaderCheck \cup listening /\ m \notin mainTimer
    BY <1>0, <1>3 DEF Start, Sound, Followed
  <2>2. Followed(m)'
    BY <1>3, <2>1 DEF Start, services, tracker, Followed
  <2> QED BY <1>0, <1>3, <2>2, OthersFollowed DEF Start, Send, services, tracker
<1>4. ASSUME NEW m \in Mains, BecomeLeader(m) PROVE TrackerInv'
  <2>1. /\ commands[m] # <<>> /\ Head(commands[m]).name = "set"
        /\ commands' = [commands EXCEPT ![m] = Tail(commands[m])]
    BY <1>4 DEF BecomeLeader, Answered, Pop
  <2>2. /\ Holds(commands[m], "set") /\ Len(commands[m]) \in Nat \ {0}
        /\ Len(Tail(commands[m])) = Len(commands[m]) - 1
    BY <1>0, <2>1, TailCommands
  <2>3. commands'[m] = Tail(commands[m])
    BY <1>0, <2>1
  <2>4. m \in leaderCheck => Len(commands[m]) = 1 /\ ~IsLeader(m)
    BY <1>0, <2>2 DEF Followed
  <2>5. instanceRole[m] = "unset" => Len(commands[m]) = 1 /\ m \notin listening
    BY <1>0 DEF Sound
  <2>6. /\ m \in leaderCheck' => m \in leaderCheck \/ instanceRole[m] = "unset"
        /\ listening' = listening
        /\ \/ /\ instanceRole'[m] = "leader"
              /\ IF m \in listening THEN mainTimer' = mainTimer \cup {m} ELSE mainTimer' = mainTimer
           \/ /\ instanceRole'[m] = "follower" /\ mainTimer' = mainTimer
    BY <1>0, <1>4 DEF BecomeLeader, Takeover, StartTracking, services, tracker
  <2>7. m \in leaderCheck' => Len(commands'[m]) = 0
    BY <2>2, <2>3, <2>4, <2>5, <2>6
  <2>8. m \in leaderCheck' => ~Holds(commands'[m], "set")
    BY <2>7, NothingHeld
  <2>9. Followed(m)'
    BY <1>0, <2>4, <2>5, <2>6, <2>7, <2>8 DEF Followed, IsLeader
  <2> QED BY <1>0, <1>4, <2>1, <2>6, <2>9, OthersFollowed DEF BecomeLeader
<1>5. ASSUME NEW m \in Mains, CheckLeader(m) PROVE TrackerInv'
  <2>1. /\ m \in leaderCheck /\ Len(commands[m]) < 1
        /\ commands' = [commands EXCEPT ![m] = Append(commands[m], Command("get"))]
    BY <1>5 DEF CheckLeader, Send
  <2>2. Len(commands[m]) = 0
    BY <1>0, <2>1, LenProperties
  <2>3. commands'[m] = Append(commands[m], Command("get"))
    BY <1>0, <2>1
  <2>4. /\ Len(commands'[m]) = 1
        /\ Holds(commands'[m], "set") => Holds(commands[m], "set")
    <3> DEFINE cs == commands[m]
               after == Append(cs, Command("get"))
    <3>1. cs \in Seq(RedisCommand) /\ Len(cs) = 0
      BY <1>0, <2>2
    <3> HIDE DEF cs
    <3>2. /\ Len(after) = Len(cs) + 1
          /\ \A n : Holds(after, n) <=> Holds(cs, n) \/ n = "get"
      BY <3>1, AppendCommand
    <3> HIDE DEF after
    <3>3. Len(after) = 1 /\ (Holds(after, "set") => Holds(cs, "set"))
      BY <3>1, <3>2
    <3> QED BY <2>3, <3>3 DEF after, cs
  <2>5. Followed(m)'
    BY <1>0, <1>5, <2>4 DEF CheckLeader, services, tracker, Followed, IsLeader
  <2> QED BY <1>0, <1>5, <2>1, <2>5, OthersFollowed DEF CheckLeader, services, tracker
<1>6. ASSUME NEW m \in Mains, Check(m) PROVE TrackerInv'
  <2>1. /\ commands' \in [Mains -> Seq(RedisCommand)] /\ commands[m] # <<>>
        /\ \A n \in Mains \ {m} : commands'[n] = commands[n]
        /\ UNCHANGED <<leaderCheck, listening>>
    BY <1>6, CheckCommands DEF Check
  <2>2. m \in leaderCheck => Len(Tail(commands[m])) = 0
    <3> DEFINE n == Len(commands[m])
               r == Len(Tail(commands[m]))
    <3>1. n \in Nat \ {0} /\ r = n - 1
      BY <1>0, <2>1, TailCommands
    <3>2. m \in leaderCheck => n <= 1
      BY <1>0 DEF Followed
    <3> HIDE DEF n, r
    <3>3. m \in leaderCheck => r = 0
      BY <3>1, <3>2
    <3> QED BY <3>3 DEF r
  <2>3. \/ instanceRole'[m] = "follower"
        \/ instanceRole'[m] = instanceRole[m] /\ commands'[m] = Tail(commands[m])
    BY <1>0, <1>6 DEF Check, Pop
  <2>4. m \in leaderCheck => /\ Len(commands'[m]) <= 1
                             /\ Holds(commands'[m], "set") => instanceRole'[m] = "follower"
    <3> DEFINE rest == Tail(commands[m])
               more == Append(rest, Command("set"))
    <3>1. rest \in Seq(RedisCommand) /\ (m \in leaderCheck => Len(rest) = 0)
      BY <1>0, <2>1, <2>2, TailCommands
    <3>2. commands'[m] = rest \/ commands'[m] = more
      BY <1>0, <1>6 DEF Check, Pop
    <3>3. instanceRole'[m] = "follower" \/ commands'[m] = rest
      BY <2>3
    <3> HIDE DEF rest
    <3>4. Len(more) = Len(rest) + 1
      BY <3>1, AppendCommand
    <3> HIDE DEF more
    <3>5. m \in leaderCheck => Len(commands'[m]) <= 1
      <4>1. CASE commands'[m] = rest
        BY <3>1, <4>1
      <4>2. CASE commands'[m] = more
        <5> DEFINE n == Len(more)
        <5>1. m \in leaderCheck => n = 1
          BY <3>1, <3>4
        <5>2. Len(commands'[m]) = n
          BY <4>2
        <5> HIDE DEF n
        <5> QED BY <5>1, <5>2
      <4> QED BY <3>2, <4>1, <4>2
    <3>6. m \in leaderCheck /\ commands'[m] = rest => ~Holds(commands'[m], "set")
      BY <3>1, NothingHeld
    <3> QED BY <3>3, <3>5, <3>6
  <2>5. /\ \A n \in Mains \ {m} : n \in mainTimer' <=> n \in mainTimer
        /\ \/ mainTimer' = mainTimer /\ (instanceRole'[m] = instanceRole[m] \/ m \notin listening)
           \/ m \notin mainTimer' /\ instanceRole'[m] = "follower"
    BY <1>0, <1>6 DEF Check, StepDown, StopTracking, services, tracker
  <2>6. Followed(m)'
    BY <1>0, <2>1, <2>4, <2>5 DEF Followed, IsLeader
  <2>7. \A n \in Mains \ {m} : instanceRole'[n] = instanceRole[n]
    BY <1>0, <1>6 DEF Check
  <2> QED BY <2>1, <2>5, <2>6, <2>7, OthersFollowed
<1>7. ASSUME NEW m \in Mains, RunCommand(m) PROVE TrackerInv'
  <2>1. PICK k \in Pending(m) : RunSet(m, k) \/ RunGet(m, k) \/ RunClear(m, k)
    BY <1>7 DEF RunCommand
  <2> DEFINE cs == commands[m]
  <2>2. cs \in Seq(RedisCommand) /\ k \in 1..Len(cs) /\ ~cs[k].done
    BY <1>0, <2>1 DEF Pending
  <2>3. PICK v \in Mains \cup {None} : Answers(m, k, v)
    BY <2>1, MainsAssumption DEF RunSet, RunGet, RunClear, IInv, TypeOK
  <2> DEFINE c == [cs[k] EXCEPT !.value = v, !.done = TRUE]
             after == [cs EXCEPT ![k] = c]
  <2>4. commands' = [commands EXCEPT ![m] = after]
    BY <1>0, <2>2, <2>3 DEF Answers
  <2>5. c \in RedisCommand /\ c.name = cs[k].name /\ c.done
    <3>1. cs[k] \in RedisCommand
      BY <2>2, ElementOfSeq
    <3> QED BY <3>1 DEF RedisCommand
  <2> HIDE DEF c
  <2>6. Len(after) = Len(cs) /\ \A n : Holds(after, n) <=> Holds(cs, n)
    BY <2>2, <2>5, AnswerCommand
  <2> HIDE DEF after
  <2>7. commands'[m] = after /\ \A n \in Mains \ {m} : commands'[n] = commands[n]
    BY <1>0, <2>4
  <2>8. UNCHANGED <<instanceRole, leaderCheck, listening, mainTimer>>
    BY <1>7 DEF RunCommand, services, tracker
  <2>9. Followed(m)'
    BY <1>0, <2>6, <2>7, <2>8 DEF Followed, IsLeader
  <2> QED BY <2>7, <2>8, <2>9, OthersFollowed
<1>8. ASSUME NEW m \in Mains, Shutdown(m) PROVE TrackerInv'
  <2>1. Followed(m)'
    BY <1>0, <1>8 DEF Shutdown, StopTracking, Followed
  <2> QED BY <1>0, <1>8, <2>1, OthersFollowed DEF Shutdown, StopTracking, Send
<1>9. ASSUME NEW m \in Mains, Down(m) PROVE TrackerInv'
  <2>1. Followed(m)'
    BY <1>9 DEF Down, Followed
  <2> QED BY <1>0, <1>9, <2>1, OthersFollowed DEF Down
<1>10. ASSUME NEW m \in Mains, InitServices(m) PROVE TrackerInv'
  <2>1. Followed(m)'
    BY <1>0, <1>10 DEF InitServices, StartTracking, services, tracker, Followed, IsLeader
  <2> QED BY <1>10, <2>1, OthersFollowed DEF InitServices, StartTracking, services, tracker
<1> QED BY <1>2, <1>3, <1>4, <1>5, <1>6, <1>7, <1>8, <1>9, <1>10 DEF Next, Exit, Crash

-----------------------------------------------------------------------------
(* The theorems *)

LEMMA InitIInv ==
    ASSUME Init
    PROVE  IInv /\ TrackerInv
<1>1. TypeOK
  BY MainsAssumption, NoCommands DEF Init, TypeOK, RedisCommand
<1>2. \A m \in Mains : commands[m] = <<>> /\ ~Holds(commands[m], "set") /\ ~Holds(commands[m], "clear")
  BY NoCommands DEF Init
<1>3. \A m \in Mains : Sound(m) /\ ~Claims(m) /\ Followed(m)
  BY <1>2 DEF Init, Sound, Claims, IsLeader, Followed
<1>4. Claimants \ {leaderKey} = {}
  BY <1>3 DEF Claimants
<1>5. Cardinality(Claimants \ {leaderKey}) <= lost
  <2>1. Cardinality(Claimants \ {leaderKey}) = 0
    BY <1>4, FS_EmptySet
  <2> QED BY <2>1 DEF Init
<1> QED BY <1>1, <1>3, <1>5 DEF IInv, TrackerInv

LEMMA NextIInv ==
    ASSUME IInv, [Next]_vars
    PROVE  IInv'
<1>1. CASE UNCHANGED vars
  <2>1. TypeOK'
    BY <1>1 DEF vars, services, tracker, IInv, TypeOK
  <2> QED BY <1>1, <2>1, QuietStep DEF vars, services
<1>2. CASE Next
  BY <1>2, ExpireStep, StartStep, BecomeLeaderStep, CheckLeaderStep, CheckStep, RunCommandStep,
     ShutdownStep, DownStep, InitServicesStep, TrackerSteps DEF Next, Exit, Crash
<1> QED BY <1>1, <1>2

\* The leaders but for the one that has the key are claimants beside it.
LEMMA IInvImplies ==
    ASSUME IInv
    PROVE  LeadersBounded
<1> DEFINE L == {m \in leaderCheck : IsLeader(m)}
<1>1. L \subseteq (Claimants \ {leaderKey}) \cup {leaderKey}
  BY DEF IInv, TypeOK, Claimants, Claims
<1>2. lost \in Nat /\ lost + 1 \in Nat
  BY DEF IInv, TypeOK
<1>3. IsFiniteSet(Claimants \ {leaderKey}) /\ Cardinality(Claimants \ {leaderKey}) <= lost
  BY ClaimantsFinite DEF IInv
<1>4. Cardinality(L) <= lost + 1
  BY <1>1, <1>2, <1>3, ClaimsCounted
<1>5. lost + 1 = 1 + lost
  BY <1>2
<1> QED BY <1>4, <1>5 DEF LeadersBounded

LEMMA Invariance == Spec => []IInv
<1>1. Init => IInv
  BY InitIInv
<1>2. IInv /\ [Next]_vars => IInv'
  BY NextIInv
<1> QED BY <1>1, <1>2, PTL DEF Spec

\* The roles, the commands and the state of the services have their types.  That
\* no main stops more pruning than it started is part of it.
THEOREM TypeCorrect == Spec => []TypeOK
<1>1. IInv => TypeOK
  BY DEF IInv
<1> QED BY <1>1, Invariance, PTL

\* However slow Redis is and however many checks of a main overlap, there is at
\* most one leader more than keys that were lost: checkLeader(), tryBecomeLeader()
\* and shutdown() of MultiMainSetup.
THEOREM FewLeaders == Spec => []LeadersBounded
<1>1. IInv => LeadersBounded
  BY IInvImplies
<1> QED BY <1>1, Invariance, PTL

\* While Redis answers within the interval of the checks, the wait tracker polls
\* in every leader and in no follower.
THEOREM TrackerAtRole ==
    ASSUME MaxCommands = 1
    PROVE  Spec => []TrackerFollowsRole
<1>1. Init => IInv /\ TrackerInv
  BY InitIInv
<1>2. IInv /\ TrackerInv /\ [Next]_vars => TrackerInv'
  <2>1. ASSUME TrackerInv, UNCHANGED vars PROVE TrackerInv'
    BY <2>1 DEF vars, services, tracker, TrackerInv, Followed, IsLeader
  <2> QED BY <2>1, NextTrackerInv
<1>3. IInv /\ TrackerInv => TrackerFollowsRole
  BY DEF IInv, TypeOK, TrackerInv, Followed, TrackerFollowsRole
<1> QED BY <1>1, <1>2, <1>3, Invariance, PTL DEF Spec
=============================================================================
