-------------------------- MODULE TaskBrokerProofs ---------------------------
(***************************************************************************)
(* The task broker, its requester and the runners, for any number of       *)
(* runners, requests and messages.  First the types of their state and the *)
(* slots of a runner: what the operators on lists, sets and channels       *)
(* return, what settleTasks() and sendOffers() do, and one step per        *)
(* action.  Then the exchange, whose properties are not inductive: that    *)
(* code runs once follows from how many settings are under way, these from *)
(* how many accepts find their exchange, and this from the lists.          *)
(***************************************************************************)
EXTENDS TaskBroker, QueueLemmas, FiniteSetTheorems, TLAPS

\* What RemoveFirst leaves of a sequence.
LEMMA RemoveFirstProperties ==
    ASSUME NEW S, NEW s \in Seq(S), NEW e, NEW i \in 1..Len(s), s[i] = e
    PROVE  /\ RemoveFirst(s, e) \in Seq(S)
           /\ Range(RemoveFirst(s, e)) \subseteq Range(s)
           /\ \A x \in Range(s) : x # e => x \in Range(RemoveFirst(s, e))
<1> DEFINE I == {k \in 1..Len(s) : s[k] = e}
<1>1. I # {} /\ I \subseteq Nat
  BY LenProperties
<1>2. \E m \in I : \A k \in I : m <= k
  BY <1>1, LeastNumber
<1>3. Min(I) \in I
  BY <1>2 DEF Min
<1>4. SelectInSeq(s, LAMBDA v : v = e) = Min(I)
  BY <1>1 DEF SelectInSeq
<1>5. PICK m \in 1..Len(s) : s[m] = e /\ RemoveFirst(s, e) = RemoveAt(s, m)
  BY <1>3, <1>4 DEF RemoveFirst
<1> DEFINE n == Len(s)
           rest == RemoveAt(s, m)
<1>6. /\ n \in Nat /\ DOMAIN s = 1..n
      /\ rest \in Seq(S) /\ DOMAIN rest = 1..(n - 1)
      /\ \A j \in 1..(n - 1) : rest[j] = IF j < m THEN s[j] ELSE s[j + 1]
  BY <1>5, RemoveAtProperties, LenProperties
<1> HIDE DEF n, rest
<1>7. \A j \in 1..(n - 1) : \E k \in 1..n : rest[j] = s[k]
  BY <1>5, <1>6 DEF n
<1>8. \A k \in 1..n : s[k] # e => \E j \in 1..(n - 1) : rest[j] = s[k]
  <2> SUFFICES ASSUME NEW k \in 1..n, s[k] # e
               PROVE  \E j \in 1..(n - 1) : rest[j] = s[k]
    OBVIOUS
  <2>1. m \in 1..n /\ k # m
    BY <1>5 DEF n
  <2>2. CASE k < m
    BY <2>1, <2>2, <1>6
  <2>3. CASE k > m
    <3>1. k - 1 \in 1..(n - 1) /\ ~(k - 1 < m) /\ (k - 1) + 1 = k
      BY <2>1, <2>3, <1>6
    <3> QED BY <3>1, <1>6
  <2> QED BY <2>1, <2>2, <2>3, <1>6
<1> HIDE DEF I
<1>9. Range(rest) \subseteq Range(s) /\ \A x \in Range(s) : x # e => x \in Range(rest)
  <2>1. Range(rest) = {rest[j] : j \in 1..(n - 1)} /\ Range(s) = {s[k] : k \in 1..n}
    BY <1>6 DEF Range
  <2> QED BY <2>1, <1>7, <1>8
<1>10. RemoveFirst(s, e) = rest
  BY <1>5 DEF rest
<1> QED BY <1>6, <1>9, <1>10

\* The numbers of any finite set can be put in ascending order.
LEMMA OrderExists ==
    ASSUME NEW m \in Nat, NEW I \in SUBSET (1..m)
    PROVE  \E e \in [1..Cardinality(I) -> I] :
              \A j, k \in 1..Cardinality(I) : j < k => e[j] < e[k]
<1> DEFINE HasOrder(J) == \E e \in [1..Cardinality(J) -> J] :
               \A j, k \in 1..Cardinality(J) : j < k => e[j] < e[k]
           Bad == {n \in Nat : \E J \in SUBSET (1..n) : ~HasOrder(J)}
<1>1. SUFFICES Bad = {}
  BY <1>1
<1>2. SUFFICES ASSUME NEW n \in Bad, \A k \in Bad : n <= k
               PROVE  FALSE
  <2>1. Bad # {} => \E x \in Bad : \A y \in Bad : x <= y
    BY LeastNumber
  <2> QED BY <2>1, <1>2
<1>3. PICK J \in SUBSET (1..n) : ~HasOrder(J)
  OBVIOUS
<1>4. IsFiniteSet(J) /\ Cardinality(J) \in Nat
  <2>1. IsFiniteSet(1..n)
    BY FS_Interval
  <2> QED BY <2>1, <1>3, FS_Subset, FS_CardinalityType
<1>5. CASE n = 0
  <2>1. J = {} /\ Cardinality({}) = 0
    BY <1>3, <1>5, FS_EmptySet
  <2>2. 1..Cardinality(J) = {}
    BY <2>1
  <2>3. [x \in {} |-> x] \in [1..Cardinality(J) -> J]
    BY <2>1, <2>2
  <2> QED BY <1>3, <2>2, <2>3
<1>6. CASE n # 0
  <2> DEFINE K == J \ {n}
             c == Cardinality(K)
  <2>1. n - 1 \in Nat /\ n - 1 \notin Bad /\ K \in SUBSET (1..(n - 1))
    BY <1>2, <1>3, <1>6, SMTT(30)
  <2>2. IsFiniteSet(K) /\ c \in Nat
    BY <1>4, FS_RemoveElement, FS_CardinalityType
  <2>3. PICK e \in [1..c -> K] : \A j, k \in 1..c : j < k => e[j] < e[k]
    BY <2>1
  <2>4. CASE n \notin J
    <3>1. K = J
      BY <2>4
    <3> QED BY <3>1, <2>3, <1>3
  <2>5. CASE n \in J
    <3>1. Cardinality(J) = c + 1
      BY <2>5, <1>4, <2>2, FS_RemoveElement
    <3> HIDE DEF c
    <3> DEFINE f == [k \in 1..(c + 1) |-> IF k = c + 1 THEN n ELSE e[k]]
    <3>2. f \in [1..(c + 1) -> J]
      BY <2>2, <2>3, <2>5
    <3>3. \A k \in 1..c : e[k] < n
      <4>1. \A k \in K : k \in Nat /\ k < n
        BY <2>1
      <4> QED BY <4>1, <2>2, <2>3
    <3>4. \A j, k \in 1..(c + 1) : j < k => f[j] < f[k]
      BY <2>2, <2>3, <3>3
    <3> QED BY <3>1, <3>2, <3>4, <1>3
  <2> QED BY <2>4, <2>5
<1> QED BY <1>5, <1>6

\* What At selects.
LEMMA AtProperties ==
    ASSUME NEW S, NEW s \in Seq(S), NEW I \in SUBSET (1..Len(s))
    PROVE  /\ At(s, I) \in Seq(S)
           /\ \A k \in 1..Len(At(s, I)) : \E i \in I : At(s, I)[k] = s[i]
           /\ \A j, k \in 1..Len(At(s, I)) : j < k =>
                 \E h, i \in I : h < i /\ At(s, I)[j] = s[h] /\ At(s, I)[k] = s[i]
<1> DEFINE c == Cardinality(I)
           e == InOrder(I)
           n == Len(s)
<1>1. n \in Nat /\ I \subseteq 1..n /\ \A i \in 1..n : s[i] \in S
  BY LenProperties, ElementOfSeq
<1>2. IsFiniteSet(I) /\ c \in Nat
  <2>1. IsFiniteSet(1..n)
    BY <1>1, FS_Interval
  <2> QED BY <2>1, FS_Subset, FS_CardinalityType
<1>3. \E f \in [1..c -> I] : \A j, k \in 1..c : j < k => f[j] < f[k]
  BY <1>1, OrderExists
<1>4. /\ e \in [1..c -> I]
      /\ \A j, k \in 1..c : j < k => e[j] < e[k]
  BY <1>3 DEF InOrder
<1> DEFINE a == [k \in 1..c |-> s[e[k]]]
<1>5. At(s, I) = a
  BY DEF At
<1> HIDE DEF c, e, n
<1>6. a \in Seq(S) /\ DOMAIN a = 1..c
  <2>1. a \in [1..c -> S]
    BY <1>1, <1>2, <1>4
  <2> QED BY <2>1, <1>2, SeqDef
<1>7. Len(a) = c
  BY <1>2, <1>6, LenProperties
<1>8. \A k \in 1..c : a[k] = s[e[k]]
  OBVIOUS
<1> HIDE DEF a
<1> QED BY <1>2, <1>4, <1>5, <1>6, <1>7, <1>8

\* A task id belongs to a request.
LEMMA RequestOfTask ==
    ASSUME NEW t \in Tasks
    PROVE  RequestOf(t) \in Requests
BY DEF Tasks, RequestOf

\* A message of each type, and what it holds.
LEMMA MessageFields ==
    /\ \A m \in BrokerMessage :
          /\ m.type \in {"runnerregistered", "taskofferaccept", "tasksettings", "taskcancel"}
          /\ m.type # "runnerregistered" => m.taskId \in Tasks
          /\ m.type = "taskofferaccept" => m.offerId \in Offers
    /\ \A m \in RunnerMessage :
          /\ m.type \in {"taskoffer", "taskaccepted", "taskrejected", "taskdeferred", "taskended"}
          /\ m.type # "taskoffer" => m.taskId \in Tasks
          /\ m.type = "taskoffer" => m.offerId \in Offers
BY DEF BrokerMessage, RunnerMessage

\* The messages that the operators make are messages of the two protocols.
LEMMA MessagesTyped ==
    ASSUME NEW t \in Tasks, NEW o \in Offers
    PROVE  /\ [type |-> "runnerregistered"] \in BrokerMessage
           /\ OfferAccept(o, t) \in BrokerMessage
           /\ OfferAccept(o, t).type = "taskofferaccept"
           /\ OfferAccept(o, t).taskId = t
           /\ Message("tasksettings", t) \in BrokerMessage
           /\ Message("taskcancel", t) \in BrokerMessage
           /\ OfferMessage(o) \in RunnerMessage
           /\ OfferMessage(o).type = "taskoffer"
           /\ \A type \in {"taskaccepted", "taskrejected", "taskdeferred", "taskended"} :
                 Message(type, t) \in RunnerMessage
           /\ \A type : Message(type, t).type = type /\ Message(type, t).taskId = t
BY DEF BrokerMessage, RunnerMessage, OfferAccept, OfferMessage, Message

\* The free requests are in the list, in no exchange, and each of them stands once.
LEMMA FreeProperties ==
    ASSUME NEW requests \in Seq(Requests)
    PROVE  /\ Free(requests) \in Seq(Requests)
           /\ \A k \in 1..Len(Free(requests)) :
                 Free(requests)[k] \in Range(requests) \ acceptInProgress
           /\ \A j, k \in 1..Len(Free(requests)) :
                 Free(requests)[j] = Free(requests)[k] => j = k
<1> DEFINE I == {i \in DOMAIN requests :
                    /\ requests[i] \notin acceptInProgress
                    /\ \A j \in 1..(i - 1) : requests[j] # requests[i]}
           a == At(requests, I)
<1>1. DOMAIN requests = 1..Len(requests) /\ Len(requests) \in Nat
  BY LenProperties
<1>2. I \in SUBSET (1..Len(requests))
  BY <1>1
<1>3. Free(requests) = a
  BY DEF Free
<1>4. \A h, i \in I : h < i => requests[h] # requests[i]
  BY <1>1
<1>5. \A i \in I : requests[i] \in Range(requests) \ acceptInProgress
  BY DEF Range
<1> HIDE DEF I
<1>6. /\ a \in Seq(Requests)
      /\ \A k \in 1..Len(a) : \E i \in I : a[k] = requests[i]
      /\ \A j, k \in 1..Len(a) : j < k =>
            \E h, i \in I : h < i /\ a[j] = requests[h] /\ a[k] = requests[i]
  BY <1>2, AtProperties
<1> HIDE DEF a
<1>7. Len(a) \in Nat
  BY <1>6, LenProperties
<1>8. \A j, k \in 1..Len(a) : j < k => a[j] # a[k]
  BY <1>4, <1>6
<1>9. \A j, k \in 1..Len(a) : a[j] = a[k] => j = k
  BY <1>7, <1>8
<1> QED BY <1>3, <1>5, <1>6, <1>9

\* The offers that are left when some are dropped.
LEMMA OffersLeft ==
    ASSUME NEW offers \in Seq(TaskOffer), NEW I \in SUBSET (DOMAIN offers)
    PROVE  At(offers, I) \in Seq(TaskOffer)
<1>1. I \in SUBSET (1..Len(offers))
  BY LenProperties
<1> QED BY <1>1, AtProperties

-----------------------------------------------------------------------------
(* What settleTasks() does, in terms of the exchanges N that it begins.    *)

Fresh(N, requests) ==
    /\ N \subseteq Tasks
    /\ \A t \in N : Unused(t) /\ RequestOf(t) \in Range(requests) \ acceptInProgress
    /\ \A t, u \in N : RequestOf(t) = RequestOf(u) => t = u

\* Every channel gets accepts for exchanges with its runner, and keeps what it holds.
AcceptsSent(N) ==
    /\ toRunner' \in [Runners -> Seq(BrokerMessage)]
    /\ \A r \in Runners :
          /\ Len(toRunner[r]) <= Len(toRunner'[r])
          /\ \A i \in 1..Len(toRunner'[r]) :
                IF i <= Len(toRunner[r]) THEN toRunner'[r][i] = toRunner[r][i]
                ELSE /\ toRunner'[r][i].type = "taskofferaccept"
                     /\ toRunner'[r][i].taskId \in N
                     /\ accepting'[toRunner'[r][i].taskId] = r

Settled(N, requests) ==
    /\ Fresh(N, requests)
    /\ pendingTaskOffers' \in Seq(TaskOffer)
    /\ pendingTaskRequests' = requests
    /\ acceptInProgress' = acceptInProgress \cup {RequestOf(t) : t \in N}
    /\ accepting' \in [Tasks -> Runners \cup {None}]
    /\ \A t \in Tasks : IF t \in N THEN accepting'[t] \in Runners
                                   ELSE accepting'[t] = accepting[t]
    /\ AcceptsSent(N)

\* A call of settleTasks() begins some exchanges N, each on an unused task id for a
\* free request, and tells their runners of them.
LEMMA SettleEffect ==
    ASSUME TypeOK, NEW offers \in Seq(TaskOffer), NEW requests \in Seq(Requests),
           SettleTasks(offers, requests)
    PROVE  \E N : Settled(N, requests)
<1> DEFINE I == {k \in DOMAIN offers : offers[k].valid}
           valid == At(offers, I)
           free == Free(requests)
           n == IF Len(free) < Len(valid) THEN Len(free) ELSE Len(valid)
           matched == {free[k] : k \in 1..n}
           RunnerFor(q) == valid[CHOOSE k \in 1..n : free[k] = q].runner
           accepts == [k \in 1..n |-> OfferAccept(valid[k].offerId, NewTask(free[k]))]
           AcceptsTo(r) == At(accepts, {k \in 1..n : valid[k].runner = r})
           N == {NewTask(q) : q \in matched}
<1>1. /\ \A q \in matched : \E t \in Tasks : RequestOf(t) = q /\ Unused(t)
      /\ pendingTaskOffers' = SubSeq(valid, n + 1, Len(valid))
      /\ pendingTaskRequests' = requests
      /\ acceptInProgress' = acceptInProgress \cup matched
      /\ accepting' = [t \in Tasks |->
             IF RequestOf(t) \in matched /\ t = NewTask(RequestOf(t))
             THEN RunnerFor(RequestOf(t)) ELSE accepting[t]]
      /\ toRunner' = [r \in Runners |-> IF connection[r] = "open"
                          THEN toRunner[r] \o AcceptsTo(r) ELSE toRunner[r]]
  BY DEF SettleTasks
<1>2. valid \in Seq(TaskOffer)
  BY OffersLeft
<1>3. /\ free \in Seq(Requests)
      /\ \A k \in 1..Len(free) : free[k] \in Range(requests) \ acceptInProgress
      /\ \A j, k \in 1..Len(free) : free[j] = free[k] => j = k
  BY FreeProperties
<1> HIDE DEF valid, free
<1>4. n \in Nat /\ n <= Len(free) /\ n <= Len(valid) /\ Len(free) \in Nat /\ Len(valid) \in Nat
  BY <1>2, <1>3, LenProperties
<1>5. \A k \in 1..n : valid[k] \in TaskOffer /\ free[k] \in Requests
  BY <1>2, <1>3, <1>4, ElementOfSeq
<1>6. \A k \in 1..Len(valid) : valid[k] \in TaskOffer
  BY <1>2, ElementOfSeq
<1> HIDE DEF n
<1>7. \A q \in matched : NewTask(q) \in Tasks /\ RequestOf(NewTask(q)) = q /\ Unused(NewTask(q))
  BY <1>1 DEF NewTask
<1>8. \A q \in matched : q \in Range(requests) \ acceptInProgress
  BY <1>3, <1>4
<1>9. Fresh(N, requests)
  <2>1. N \subseteq Tasks
    BY <1>7
  <2>2. ASSUME NEW t \in N
        PROVE  Unused(t) /\ RequestOf(t) \in Range(requests) \ acceptInProgress
    BY <1>7, <1>8
  <2>3. ASSUME NEW t \in N, NEW u \in N, RequestOf(t) = RequestOf(u)
        PROVE  t = u
    <3>1. PICK p \in matched : t = NewTask(p)
      OBVIOUS
    <3>2. PICK q \in matched : u = NewTask(q)
      OBVIOUS
    <3>3. p = q
      BY <2>3, <3>1, <3>2, <1>7
    <3> QED BY <3>1, <3>2, <3>3
  <2> QED BY <2>1, <2>2, <2>3 DEF Fresh
<1>10. \A t \in Tasks : (RequestOf(t) \in matched /\ t = NewTask(RequestOf(t))) <=> t \in N
  BY <1>7
<1>11. \A t \in Tasks : t \in N => RequestOf(t) \in matched
  BY <1>10
<1>12. \A k \in 1..n : RunnerFor(free[k]) = valid[k].runner
  <2> SUFFICES ASSUME NEW k \in 1..n
               PROVE  RunnerFor(free[k]) = valid[k].runner
    OBVIOUS
  <2>1. \A j \in 1..n : free[j] = free[k] => j = k
    BY <1>3, <1>4
  <2>2. (CHOOSE j \in 1..n : free[j] = free[k]) = k
    BY <2>1
  <2> QED BY <2>2
<1>13. \A q \in matched : RunnerFor(q) \in Runners
  BY <1>12, <1>5 DEF TaskOffer
<1>14. \A t \in Tasks : accepting'[t] =
          IF t \in N THEN RunnerFor(RequestOf(t)) ELSE accepting[t]
  BY <1>1, <1>10
<1>15. /\ accepting' \in [Tasks -> Runners \cup {None}]
       /\ \A t \in Tasks : IF t \in N THEN accepting'[t] \in Runners
                                      ELSE accepting'[t] = accepting[t]
  <2>1. \A t \in Tasks : accepting[t] \in Runners \cup {None}
    BY DEF TypeOK
  <2>2. accepting' = [t \in Tasks |-> accepting'[t]]
    BY <1>1
  <2> HIDE DEF N, matched, RunnerFor
  <2>3. \A t \in Tasks : IF t \in N THEN accepting'[t] \in Runners
                                    ELSE accepting'[t] = accepting[t]
    BY <1>11, <1>13, <1>14
  <2> QED BY <2>1, <2>2, <2>3
<1>16. acceptInProgress' = acceptInProgress \cup {RequestOf(t) : t \in N}
  <2>1. matched = {RequestOf(t) : t \in N}
    BY <1>7
  <2> QED BY <1>1, <2>1
<1>17. pendingTaskOffers' \in Seq(TaskOffer)
  <2>1. n + 1 \in Int /\ Len(valid) \in Int /\ \A i \in (n + 1)..Len(valid) : valid[i] \in TaskOffer
    BY <1>4, <1>6
  <2> QED BY <1>1, <2>1, SubSeqProperties
<1>18. ASSUME NEW k \in 1..n
       PROVE  /\ accepts[k] \in BrokerMessage
              /\ accepts[k].type = "taskofferaccept"
              /\ accepts[k].taskId \in N
              /\ accepting'[accepts[k].taskId] = valid[k].runner
  <2> DEFINE t == NewTask(free[k])
  <2>1. free[k] \in matched /\ t \in N /\ t \in Tasks /\ RequestOf(t) = free[k]
    BY <1>7
  <2>2. valid[k].offerId \in Offers
    BY <1>5 DEF TaskOffer
  <2>3. accepts[k] = OfferAccept(valid[k].offerId, t)
    OBVIOUS
  <2>4. accepting'[t] = valid[k].runner
    BY <2>1, <1>12, <1>14
  <2> HIDE DEF t, accepts
  <2> QED BY <2>1, <2>2, <2>3, <2>4, MessagesTyped
<1>19. ASSUME NEW r \in Runners
       PROVE  /\ AcceptsTo(r) \in Seq(BrokerMessage)
              /\ \A j \in 1..Len(AcceptsTo(r)) :
                    /\ AcceptsTo(r)[j].type = "taskofferaccept"
                    /\ AcceptsTo(r)[j].taskId \in N
                    /\ accepting'[AcceptsTo(r)[j].taskId] = r
  <2> DEFINE own == {k \in 1..n : valid[k].runner = r}
  <2>1. accepts \in Seq(BrokerMessage) /\ Len(accepts) = n
    <3>1. accepts \in [1..n -> BrokerMessage]
      BY <1>18
    <3> HIDE DEF accepts
    <3>2. accepts \in Seq(BrokerMessage)
      BY <3>1, <1>4, SeqDef
    <3>3. DOMAIN accepts = 1..n
      BY <3>1
    <3> QED BY <3>2, <3>3, <1>4, LenProperties
  <2> HIDE DEF accepts, N
  <2>2. own \in SUBSET (1..Len(accepts))
    BY <2>1
  <2>3. \A k \in own : accepts[k].type = "taskofferaccept" /\ accepts[k].taskId \in N
                         /\ accepting'[accepts[k].taskId] = r
    BY <1>18
  <2> HIDE DEF own
  <2>4. /\ At(accepts, own) \in Seq(BrokerMessage)
        /\ \A j \in 1..Len(At(accepts, own)) : \E k \in own : At(accepts, own)[j] = accepts[k]
    BY <2>1, <2>2, AtProperties
  <2>5. \A j \in 1..Len(At(accepts, own)) :
            /\ At(accepts, own)[j].type = "taskofferaccept"
            /\ At(accepts, own)[j].taskId \in N
            /\ accepting'[At(accepts, own)[j].taskId] = r
    BY <2>3, <2>4
  <2> QED BY <2>4, <2>5 DEF own
<1>20. AcceptsSent(N)
  <2> HIDE DEF N, AcceptsTo
  <2>1. ASSUME NEW r \in Runners
        PROVE  /\ toRunner'[r] \in Seq(BrokerMessage)
               /\ Len(toRunner[r]) <= Len(toRunner'[r])
               /\ \A i \in 1..Len(toRunner'[r]) :
                     IF i <= Len(toRunner[r]) THEN toRunner'[r][i] = toRunner[r][i]
                     ELSE /\ toRunner'[r][i].type = "taskofferaccept"
                          /\ toRunner'[r][i].taskId \in N
                          /\ accepting'[toRunner'[r][i].taskId] = r
    <3>1. toRunner[r] \in Seq(BrokerMessage) /\ Len(toRunner[r]) \in Nat
      BY LenProperties DEF TypeOK
    <3>2. CASE connection[r] = "open"
      <4> DEFINE old == toRunner[r]
                 add == AcceptsTo(r)
                 new == toRunner'[r]
      <4>1. new = old \o add
        BY <1>1, <3>2
      <4>2. add \in Seq(BrokerMessage) /\ Len(add) \in Nat
        BY <1>19, LenProperties
      <4>3. /\ old \o add \in Seq(BrokerMessage)
            /\ Len(old \o add) = Len(old) + Len(add)
            /\ \A i \in 1..(Len(old) + Len(add)) :
                  (old \o add)[i] = IF i <= Len(old) THEN old[i] ELSE add[i - Len(old)]
        BY <3>1, <4>2, ConcatProperties
      <4>4. \A j \in 1..Len(add) : /\ add[j].type = "taskofferaccept"
                                   /\ add[j].taskId \in N
                                   /\ accepting'[add[j].taskId] = r
        BY <1>19
      <4> HIDE DEF old, add
      <4>5. /\ new \in Seq(BrokerMessage) /\ Len(new) = Len(old) + Len(add)
            /\ \A i \in 1..(Len(old) + Len(add)) :
                  new[i] = IF i <= Len(old) THEN old[i] ELSE add[i - Len(old)]
        BY <4>1, <4>3
      <4> HIDE DEF new
      <4>6. \A i \in 1..Len(new) : ~(i <= Len(old)) => i - Len(old) \in 1..Len(add)
        BY <4>5, <4>2, <3>1 DEF old
      <4>7. Len(old) \in Nat /\ Len(old) <= Len(new)
        BY <4>2, <4>5, <3>1 DEF old
      <4>8. \A i \in 1..Len(new) :
                IF i <= Len(old) THEN new[i] = old[i]
                ELSE /\ new[i].type = "taskofferaccept"
                     /\ new[i].taskId \in N
                     /\ accepting'[new[i].taskId] = r
        BY <4>4, <4>5, <4>6
      <4> QED BY <4>5, <4>7, <4>8 DEF old, new
    <3>3. CASE connection[r] # "open"
      BY <1>1, <3>1, <3>3
    <3> QED BY <3>2, <3>3
  <2>2. toRunner' = [r \in Runners |-> toRunner'[r]]
    BY <1>1
  <2> QED BY <2>1, <2>2 DEF AcceptsSent
<1> QED BY <1>1, <1>9, <1>15, <1>16, <1>17, <1>20 DEF Settled

-----------------------------------------------------------------------------
(* Channels                                                                *)

\* What is left of a channel whose first message was taken.
LEMMA Popped ==
    ASSUME NEW M, NEW channel \in [Runners -> Seq(M)], NEW r \in Runners, channel[r] # <<>>
    PROVE  /\ PopFrom(channel, r) \in [Runners -> Seq(M)]
           /\ \A s \in Runners : s # r => PopFrom(channel, r)[s] = channel[s]
           /\ Len(channel[r]) \in Nat \ {0}
           /\ Len(PopFrom(channel, r)[r]) = Len(channel[r]) - 1
           /\ \A i \in 1..Len(PopFrom(channel, r)[r]) :
                 PopFrom(channel, r)[r][i] = channel[r][i + 1]
           /\ Head(channel[r]) = channel[r][1] /\ Head(channel[r]) \in M
<1> DEFINE line == channel[r]
           rest == Tail(line)
<1>1. line \in Seq(M) /\ line # <<>> /\ Len(line) \in Nat \ {0}
  BY EmptySeq
<1>2. /\ rest \in Seq(M) /\ Len(rest) = Len(line) - 1
      /\ \A i \in 1..Len(rest) : rest[i] = line[i + 1]
      /\ Head(line) \in M
  BY <1>1, HeadTailProperties
<1>3. Head(line) = line[1]
  OBVIOUS
<1>4. /\ PopFrom(channel, r)[r] = rest
      /\ \A s \in Runners : s # r => PopFrom(channel, r)[s] = channel[s]
      /\ DOMAIN PopFrom(channel, r) = Runners
      /\ PopFrom(channel, r) = [s \in Runners |-> PopFrom(channel, r)[s]]
  BY DEF PopFrom
<1> HIDE DEF rest, line
<1>5. PopFrom(channel, r) \in [Runners -> Seq(M)]
  <2>1. \A s \in Runners : PopFrom(channel, r)[s] \in Seq(M)
    BY <1>2, <1>4
  <2> QED BY <2>1, <1>4
<1> QED BY <1>1, <1>2, <1>3, <1>4, <1>5 DEF line

\* The channel new is the channel old with the message m added for r.
HasAdded(M, old, r, m, new) ==
    /\ new \in [Runners -> Seq(M)]
    /\ \A s \in Runners : s # r => new[s] = old[s]
    /\ Len(old[r]) \in Nat /\ Len(new[r]) = Len(old[r]) + 1
    /\ \A i \in 1..Len(old[r]) : new[r][i] = old[r][i]
    /\ \A i \in 1..Len(new[r]) : i \notin 1..Len(old[r]) => i = Len(old[r]) + 1 /\ new[r][i] = m

\* Appending a message, written either way, adds just this one.
LEMMA AddedOne ==
    ASSUME NEW M, NEW old \in [Runners -> Seq(M)], NEW r \in Runners, NEW m \in M
    PROVE  /\ HasAdded(M, old, r, m, [old EXCEPT ![r] = Append(@, m)])
           /\ HasAdded(M, old, r, m, [old EXCEPT ![r] = @ \o <<m>>])
<1> DEFINE line == old[r]
           longer == Append(line, m)
           new == [old EXCEPT ![r] = longer]
<1>1. line \in Seq(M) /\ Len(line) \in Nat
  BY LenProperties
<1>2. line \o <<m>> = longer
  BY <1>1, AppendIsConcat
<1>3. /\ longer \in Seq(M) /\ Len(longer) = Len(line) + 1
      /\ \A i \in 1..Len(line) : longer[i] = line[i]
      /\ longer[Len(line) + 1] = m
  BY <1>1, AppendProperties
<1> HIDE DEF longer
<1>4. /\ new \in [Runners -> Seq(M)] /\ new[r] = longer
      /\ \A s \in Runners : s # r => new[s] = old[s]
  BY <1>3
<1> HIDE DEF new, line
<1>5. \A i \in 1..Len(longer) : i \notin 1..Len(line) => i = Len(line) + 1 /\ longer[i] = m
  BY <1>1, <1>3
<1>6. HasAdded(M, old, r, m, new)
  BY <1>1, <1>3, <1>4, <1>5 DEF HasAdded, line
<1> QED BY <1>2, <1>6 DEF new, longer, line

\* The first messages of a channel.
LEMMA FirstMessages ==
    ASSUME NEW M, NEW line \in Seq(M), NEW n \in 0..Len(line)
    PROVE  /\ SubSeq(line, 1, n) \in Seq(M)
           /\ Len(SubSeq(line, 1, n)) = n
           /\ \A i \in 1..n : SubSeq(line, 1, n)[i] = line[i]
<1> DEFINE first == SubSeq(line, 1, n)
<1>1. Len(line) \in Nat /\ n \in Nat /\ \A i \in 1..n : line[i] \in M
  BY LenProperties, ElementOfSeq
<1>2. /\ first \in Seq(M)
      /\ Len(first) = IF 1 <= n THEN n - 1 + 1 ELSE 0
      /\ \A i \in 1..(n - 1 + 1) : first[i] = line[1 + i - 1]
  BY <1>1, SubSeqProperties
<1> HIDE DEF first
<1>3. Len(first) = n /\ \A i \in 1..n : first[i] = line[i]
  BY <1>1, <1>2
<1> QED BY <1>2, <1>3 DEF first

-----------------------------------------------------------------------------
(* Offers                                                                  *)

\* A finite set can be listed.
LEMMA Listed ==
    ASSUME NEW S, IsFiniteSet(S)
    PROVE  /\ SetToSeq(S) \in Seq(S)
           /\ Len(SetToSeq(S)) \in Nat
<1> DEFINE c == Cardinality(S)
           f == SetToSeq(S)
<1>1. c \in Nat /\ ExistsBijection(1..c, S)
  BY FS_CardinalityType
<1>2. \E g \in [1..c -> S] : IsInjective(g)
  BY <1>1 DEF ExistsBijection, Bijection, Injection
<1>3. f \in [1..c -> S]
  BY <1>2 DEF SetToSeq
<1> HIDE DEF f, c
<1>4. f \in Seq(S)
  BY <1>1, <1>3, SeqDef
<1> QED BY <1>4, LenProperties DEF f

\* A sequence has no more elements than positions.
LEMMA RangeBounded ==
    ASSUME NEW S, NEW s \in Seq(S)
    PROVE  Range(s) \subseteq S /\ IsFiniteSet(Range(s)) /\ Cardinality(Range(s)) <= Len(s)
<1> DEFINE n == Len(s)
           R == Range(s)
<1>1. n \in Nat /\ s \in [1..n -> S] /\ DOMAIN s = 1..n
  BY LenProperties
<1>2. R = {s[i] : i \in 1..n}
  BY <1>1 DEF Range
<1> HIDE DEF n, R
<1>3. s \in [1..n -> R] /\ \A x \in R : \E i \in 1..n : s[i] = x
  BY <1>1, <1>2
<1>4. s \in Surjection(1..n, R)
  BY <1>3 DEF Surjection
<1>5. ExistsSurjection(1..n, R)
  BY <1>4 DEF ExistsSurjection
<1>6. IsFiniteSet(R)
  BY <1>1, <1>5, FS_NatSurjection
<1>7. Cardinality(R) <= n
  BY <1>1, <1>5, FS_SurjCardinalityBound
<1>8. R \subseteq S
  BY <1>1, <1>2
<1> QED BY <1>6, <1>7, <1>8 DEF n, R

\* sendOffers() writes what it was given and offers, and keeps within the slots.
LEMMA SendOffersEffect ==
    ASSUME TypeOK, NEW r \in Runners, NEW before \in Seq(RunnerMessage),
           NEW open \in SUBSET Offers, NEW running, IsFiniteSet(running),
           SendOffers(r, before, open, running)
    PROVE  /\ openOffers' \in [Runners -> SUBSET Offers]
           /\ \A s \in Runners : s # r => openOffers'[s] = openOffers[s]
           /\ Cardinality(open) + Cardinality(running) <= MaxConcurrency
                 => Cardinality(openOffers'[r]) + Cardinality(running) <= MaxConcurrency
           /\ toBroker' \in [Runners -> Seq(RunnerMessage)]
           /\ \A s \in Runners : s # r => toBroker'[s] = toBroker[s]
           /\ \A i \in 1..Len(toBroker'[r]) :
                 \/ i \in 1..Len(toBroker[r]) /\ toBroker'[r][i] = toBroker[r][i]
                 \/ \E j \in 1..Len(before) : toBroker'[r][i] = before[j]
                 \/ toBroker'[r][i].type = "taskoffer"
<1>1. PICK stale \in SUBSET open :
        LET missing == SlotsLeft(open \ stale, running)
            free == SetToSeq(FreeOffers(r) \ open)
            n == IF missing < Len(free) THEN missing ELSE Len(free)
            new == IF r \in canSendOffers THEN SubSeq(free, 1, n) ELSE <<>>
        IN  /\ openOffers' = [openOffers EXCEPT ![r] = (open \ stale) \cup Range(new)]
            /\ toBroker' = [toBroker EXCEPT ![r] =
                   @ \o before \o [k \in DOMAIN new |-> OfferMessage(new[k])]]
  BY DEF SendOffers
<1> DEFINE missing == SlotsLeft(open \ stale, running)
           free == SetToSeq(FreeOffers(r) \ open)
           n == IF missing < Len(free) THEN missing ELSE Len(free)
           new == IF r \in canSendOffers THEN SubSeq(free, 1, n) ELSE <<>>
           kept == open \ stale
           offers == [k \in DOMAIN new |-> OfferMessage(new[k])]
           line == toBroker[r]
<1>2. /\ openOffers' = [openOffers EXCEPT ![r] = kept \cup Range(new)]
      /\ toBroker' = [toBroker EXCEPT ![r] = (@ \o before) \o offers]
  BY <1>1
<1>3. /\ IsFiniteSet(Offers) /\ MaxConcurrency \in Nat
      /\ IsFiniteSet(open) /\ IsFiniteSet(kept)
      /\ Cardinality(open) \in Nat /\ Cardinality(kept) \in Nat /\ Cardinality(running) \in Nat
      /\ Cardinality(kept) <= Cardinality(open)
  <2>1. IsFiniteSet(Offers) /\ MaxConcurrency \in Nat
    BY BrokerAssumption
  <2>2. IsFiniteSet(open)
    BY <2>1, FS_Subset
  <2>3. kept \in SUBSET open
    OBVIOUS
  <2>4. IsFiniteSet(kept) /\ Cardinality(kept) <= Cardinality(open)
    BY <2>2, <2>3, FS_Subset
  <2> QED BY <2>1, <2>2, <2>4, FS_CardinalityType
<1>4. free \in Seq(Offers) /\ Len(free) \in Nat
  <2> DEFINE S == FreeOffers(r) \ open
  <2>1. S \in SUBSET Offers
    BY DEF FreeOffers
  <2> HIDE DEF S
  <2>2. IsFiniteSet(S)
    BY <1>3, <2>1, FS_Subset
  <2>3. SetToSeq(S) \in Seq(S) /\ Len(SetToSeq(S)) \in Nat
    BY <2>2, Listed
  <2>4. SetToSeq(S) \in Seq(Offers)
    BY <2>1, <2>3, SeqMonotonic
  <2> QED BY <2>3, <2>4 DEF S
<1>5. missing = MaxConcurrency - (Cardinality(kept) + Cardinality(running)) /\ missing \in Int
  BY <1>3 DEF SlotsLeft
<1> HIDE DEF missing, free
<1>6. n \in Int /\ n <= missing /\ n <= Len(free)
  BY <1>4, <1>5
<1>7. new \in Seq(Offers) /\ Len(new) \in Nat /\ (Len(new) <= n \/ Len(new) = 0)
  <2>1. CASE r \notin canSendOffers
    BY <2>1, EmptySeq
  <2>2. CASE r \in canSendOffers
    <3> HIDE DEF n
    <3>1. \A i \in 1..n : free[i] \in Offers
      BY <1>4, <1>6, ElementOfSeq
    <3> DEFINE some == SubSeq(free, 1, n)
    <3>2. some \in Seq(Offers) /\ Len(some) = IF 1 <= n THEN n - 1 + 1 ELSE 0
      BY <3>1, <1>6, SubSeqProperties
    <3>3. new = some
      BY <2>2
    <3> HIDE DEF some, new
    <3> QED BY <3>2, <3>3, <1>6
  <2> QED BY <2>1, <2>2
<1> HIDE DEF n, new
<1>8. Range(new) \subseteq Offers /\ IsFiniteSet(Range(new)) /\ Cardinality(Range(new)) <= Len(new)
      /\ Cardinality(Range(new)) \in Nat
  BY <1>7, RangeBounded, FS_CardinalityType
<1>9. openOffers'[r] = kept \cup Range(new)
  BY <1>2 DEF TypeOK
<1>10. /\ openOffers' \in [Runners -> SUBSET Offers]
       /\ \A s \in Runners : s # r => openOffers'[s] = openOffers[s]
  BY <1>2, <1>8 DEF TypeOK
<1>11. Cardinality(open) + Cardinality(running) <= MaxConcurrency
          => Cardinality(openOffers'[r]) + Cardinality(running) <= MaxConcurrency
  <2> DEFINE both == kept \cap Range(new)
             all == kept \cup Range(new)
  <2>1. IsFiniteSet(both)
    BY <1>3, FS_Intersection
  <2>2. Cardinality(both) \in Nat
    BY <2>1, FS_CardinalityType
  <2>3. IsFiniteSet(all) /\ Cardinality(all) =
            Cardinality(kept) + Cardinality(Range(new)) - Cardinality(both)
    BY <1>3, <1>8, FS_Union
  <2>4. openOffers'[r] = all
    BY <1>9
  <2> HIDE DEF both, all, kept
  <2> QED BY <2>2, <2>3, <2>4, <1>3, <1>5, <1>6, <1>7, <1>8, SMTT(30)
<1>12. offers \in Seq(RunnerMessage) /\ \A k \in 1..Len(offers) : offers[k].type = "taskoffer"
  <2>1. DOMAIN new = 1..Len(new) /\ \A k \in 1..Len(new) : new[k] \in Offers
    BY <1>7, LenProperties, ElementOfSeq
  <2>2. \A k \in 1..Len(new) : offers[k] = OfferMessage(new[k])
    BY <2>1
  <2>3. \A o \in Offers : OfferMessage(o) \in RunnerMessage /\ OfferMessage(o).type = "taskoffer"
    BY DEF OfferMessage, RunnerMessage
  <2>4. offers \in [1..Len(new) -> RunnerMessage]
    BY <2>1, <2>3
  <2>5. DOMAIN offers = 1..Len(new)
    BY <2>1
  <2> HIDE DEF offers
  <2>6. offers \in Seq(RunnerMessage)
    BY <2>4, <1>7, SeqDef
  <2>7. Len(offers) = Len(new)
    BY <2>5, <2>6, <1>7, LenProperties
  <2> QED BY <2>1, <2>2, <2>3, <2>6, <2>7
<1> HIDE DEF offers
<1>13. line \in Seq(RunnerMessage)
  BY DEF TypeOK
<1> DEFINE middle == line \o before
           long == middle \o offers
<1>14. /\ middle \in Seq(RunnerMessage)
       /\ Len(middle) = Len(line) + Len(before) /\ Len(line) \in Nat /\ Len(before) \in Nat
       /\ \A i \in 1..(Len(line) + Len(before)) :
             middle[i] = IF i <= Len(line) THEN line[i] ELSE before[i - Len(line)]
  BY <1>13, ConcatProperties, LenProperties
<1> HIDE DEF middle
<1>15. /\ long \in Seq(RunnerMessage)
       /\ Len(long) = Len(middle) + Len(offers) /\ Len(offers) \in Nat
       /\ \A i \in 1..(Len(middle) + Len(offers)) :
             long[i] = IF i <= Len(middle) THEN middle[i] ELSE offers[i - Len(middle)]
  <2>1. Len(offers) \in Nat
    BY <1>12, LenProperties
  <2> middle \in Seq(RunnerMessage) /\ offers \in Seq(RunnerMessage)
    BY <1>12, <1>14
  <2>2. /\ long \in Seq(RunnerMessage)
        /\ Len(long) = Len(middle) + Len(offers)
        /\ \A i \in 1..(Len(middle) + Len(offers)) :
              long[i] = IF i <= Len(middle) THEN middle[i] ELSE offers[i - Len(middle)]
    BY ConcatProperties
  <2> HIDE DEF long
  <2> QED BY <2>1, <2>2
<1>16. toBroker'[r] = long /\ toBroker' \in [Runners -> Seq(RunnerMessage)]
       /\ \A s \in Runners : s # r => toBroker'[s] = toBroker[s]
  <2>1. long \in Seq(RunnerMessage)
    BY <1>15
  <2>2. toBroker' = [toBroker EXCEPT ![r] = long]
    BY <1>2 DEF middle
  <2> HIDE DEF long
  <2> QED BY <2>1, <2>2 DEF TypeOK
<1> HIDE DEF long, line
<1>17. ASSUME NEW i \in 1..Len(long)
       PROVE  \/ i \in 1..Len(line) /\ long[i] = line[i]
              \/ \E j \in 1..Len(before) : long[i] = before[j]
              \/ long[i].type = "taskoffer"
  <2>1. CASE i <= Len(line)
    BY <2>1, <1>14, <1>15
  <2>2. CASE ~(i <= Len(line)) /\ i <= Len(middle)
    <3>1. i - Len(line) \in 1..Len(before) /\ long[i] = before[i - Len(line)]
      BY <2>2, <1>14, <1>15
    <3> QED BY <3>1
  <2>3. CASE ~(i <= Len(middle))
    <3>1. i - Len(middle) \in 1..Len(offers) /\ long[i] = offers[i - Len(middle)]
      BY <2>3, <1>14, <1>15
    <3> QED BY <3>1, <1>12
  <2> QED BY <2>1, <2>2, <2>3
<1> QED BY <1>10, <1>11, <1>16, <1>17 DEF line

-----------------------------------------------------------------------------
(* Type correctness                                                        *)

\* The message that a handler of the broker takes, and what stays on the channels.
LEMMA ReceivedMessage ==
    ASSUME TypeOK, NEW r \in Runners, NEW type, Received(r, type)
    PROVE  /\ r \in knownRunners
           /\ PopFrom(toBroker, r) \in [Runners -> Seq(RunnerMessage)]
           /\ \A s \in Runners : \A i \in 1..Len(PopFrom(toBroker, r)[s]) :
                 \E j \in 1..Len(toBroker[s]) : PopFrom(toBroker, r)[s][i] = toBroker[s][j]
           /\ 1 \in 1..Len(toBroker[r])
           /\ toBroker[r][1] = Head(toBroker[r])
           /\ Head(toBroker[r]).type = type
           /\ type # "taskoffer" => Head(toBroker[r]).taskId \in Tasks
           /\ type = "taskoffer" => Head(toBroker[r]).offerId \in Offers
<1>1. /\ toBroker \in [Runners -> Seq(RunnerMessage)]
      /\ r \in knownRunners /\ toBroker[r] # <<>> /\ Head(toBroker[r]).type = type
  BY DEF TypeOK, Received
<1> DEFINE rest == PopFrom(toBroker, r)
<1>2. /\ rest \in [Runners -> Seq(RunnerMessage)]
      /\ \A s \in Runners : s # r => rest[s] = toBroker[s]
      /\ Len(toBroker[r]) \in Nat \ {0}
      /\ Len(rest[r]) = Len(toBroker[r]) - 1
      /\ \A i \in 1..Len(rest[r]) : rest[r][i] = toBroker[r][i + 1]
      /\ Head(toBroker[r]) = toBroker[r][1] /\ Head(toBroker[r]) \in RunnerMessage
  BY <1>1, Popped
<1> HIDE DEF rest
<1>3. ASSUME NEW s \in Runners, NEW i \in 1..Len(rest[s])
      PROVE  \E j \in 1..Len(toBroker[s]) : rest[s][i] = toBroker[s][j]
  <2>1. CASE s = r
    <3>1. i + 1 \in 1..Len(toBroker[s]) /\ rest[s][i] = toBroker[s][i + 1]
      BY <1>2, <2>1
    <3> QED BY <3>1
  <2>2. CASE s # r
    BY <1>2, <2>2
  <2> QED BY <2>1, <2>2
<1> QED BY <1>1, <1>2, <1>3, MessageFields DEF rest

\* The first message for runner r, and what is left in the channels.
LEMMA RunnerReceivedMessage ==
    ASSUME TypeOK, NEW r \in Runners, NEW type, RunnerReceived(r, type)
    PROVE  /\ PopFrom(toRunner, r) \in [Runners -> Seq(BrokerMessage)]
           /\ \A s \in Runners : s # r => PopFrom(toRunner, r)[s] = toRunner[s]
           /\ \A i \in 1..Len(PopFrom(toRunner, r)[r]) :
                 /\ i + 1 \in 1..Len(toRunner[r])
                 /\ PopFrom(toRunner, r)[r][i] = toRunner[r][i + 1]
           /\ 1 \in 1..Len(toRunner[r])
           /\ toRunner[r][1] = Head(toRunner[r])
           /\ Head(toRunner[r]).type = type
           /\ type # "runnerregistered" => Head(toRunner[r]).taskId \in Tasks
           /\ type = "taskofferaccept" => Head(toRunner[r]).offerId \in Offers
<1>1. /\ toRunner \in [Runners -> Seq(BrokerMessage)]
      /\ toRunner[r] # <<>> /\ Head(toRunner[r]).type = type
  BY DEF TypeOK, RunnerReceived
<1> DEFINE rest == PopFrom(toRunner, r)
<1>2. /\ rest \in [Runners -> Seq(BrokerMessage)]
      /\ \A s \in Runners : s # r => rest[s] = toRunner[s]
      /\ Len(toRunner[r]) \in Nat \ {0}
      /\ Len(rest[r]) = Len(toRunner[r]) - 1
      /\ \A i \in 1..Len(rest[r]) : rest[r][i] = toRunner[r][i + 1]
      /\ Head(toRunner[r]) = toRunner[r][1] /\ Head(toRunner[r]) \in BrokerMessage
  BY <1>1, Popped
<1> HIDE DEF rest
<1>3. \A i \in 1..Len(rest[r]) : i + 1 \in 1..Len(toRunner[r])
  BY <1>2
<1> QED BY <1>1, <1>2, <1>3, MessageFields DEF rest

\* A message to runner r is lost, or follows those that are under way.
LEMMA SentMessage ==
    ASSUME TypeOK, NEW r \in Runners, NEW m \in BrokerMessage
    PROVE  /\ SendTo(r, <<m>>) \in [Runners -> Seq(BrokerMessage)]
           /\ \A s \in Runners : \A i \in 1..Len(SendTo(r, <<m>>)[s]) :
                 \/ /\ i \in 1..Len(toRunner[s])
                    /\ SendTo(r, <<m>>)[s][i] = toRunner[s][i]
                 \/ /\ s = r /\ i = Len(toRunner[s]) + 1 /\ i \notin 1..Len(toRunner[s])
                    /\ SendTo(r, <<m>>)[s][i] = m
<1> DEFINE all == [toRunner EXCEPT ![r] = @ \o <<m>>]
<1>1. toRunner \in [Runners -> Seq(BrokerMessage)]
  BY DEF TypeOK
<1>2. SendTo(r, <<m>>) = IF connection[r] = "open" THEN all ELSE toRunner
  BY DEF SendTo
<1>3. HasAdded(BrokerMessage, toRunner, r, m, all)
  BY <1>1, AddedOne
<1> HIDE DEF all
<1> QED BY <1>1, <1>2, <1>3 DEF HasAdded

\* What is left of a connection and of its runner's memory when it is lost.
LEMMA LoseEffect ==
    ASSUME TypeOK, NEW r \in Runners, NEW n \in 0..Len(toBroker[r]), Lose(r, n)
    PROVE  /\ connection' \in [Runners -> {"none", "open", "broken"}]
           /\ toRunner' \in [Runners -> Seq(BrokerMessage)]
           /\ toBroker' \in [Runners -> Seq(RunnerMessage)]
           /\ canSendOffers' \subseteq Runners
           /\ openOffers' \in [Runners -> SUBSET Offers]
           /\ runningTasks' \in [Runners -> [Tasks -> Statuses \cup {None}]]
           /\ executed' = executed
           /\ Len(toRunner'[r]) = 0
           /\ \A s \in Runners : s # r =>
                 /\ toRunner'[s] = toRunner[s]
                 /\ openOffers'[s] = openOffers[s] /\ runningTasks'[s] = runningTasks[s]
           /\ openOffers'[r] = {} /\ \A t \in Tasks : runningTasks'[r][t] = None
           /\ \A s \in Runners : \A i \in 1..Len(toBroker'[s]) :
                 i \in 1..Len(toBroker[s]) /\ toBroker'[s][i] = toBroker[s][i]
<1>1. toBroker[r] \in Seq(RunnerMessage) /\ Len(toBroker[r]) \in Nat
  BY LenProperties DEF TypeOK
<1> DEFINE first == SubSeq(toBroker[r], 1, n)
<1>2. /\ first \in Seq(RunnerMessage) /\ Len(first) = n
      /\ \A i \in 1..n : first[i] = toBroker[r][i]
  BY <1>1, FirstMessages
<1>3. toBroker' = [toBroker EXCEPT ![r] = first]
  BY DEF Lose
<1> HIDE DEF first
<1>4. /\ toBroker' \in [Runners -> Seq(RunnerMessage)] /\ toBroker'[r] = first
      /\ \A s \in Runners : s # r => toBroker'[s] = toBroker[s]
  BY <1>2, <1>3 DEF TypeOK
<1>5. \A s \in Runners : \A i \in 1..Len(toBroker'[s]) :
          i \in 1..Len(toBroker[s]) /\ toBroker'[s][i] = toBroker[s][i]
  <2> SUFFICES ASSUME NEW s \in Runners, NEW i \in 1..Len(toBroker'[s])
               PROVE  i \in 1..Len(toBroker[s]) /\ toBroker'[s][i] = toBroker[s][i]
    OBVIOUS
  <2>1. CASE s = r
    BY <2>1, <1>1, <1>2, <1>4
  <2>2. CASE s # r
    BY <2>2, <1>4
  <2> QED BY <2>1, <2>2
<1>6. /\ toRunner' \in [Runners -> Seq(BrokerMessage)] /\ Len(toRunner'[r]) = 0
      /\ \A s \in Runners : s # r => toRunner'[s] = toRunner[s]
  <2>1. <<>> \in Seq(BrokerMessage) /\ Len(<<>>) = 0
    BY EmptySeq
  <2>2. toRunner' = [toRunner EXCEPT ![r] = <<>>]
    BY DEF Lose
  <2> QED BY <2>1, <2>2 DEF TypeOK
<1>7. /\ connection' \in [Runners -> {"none", "open", "broken"}]
      /\ canSendOffers' \subseteq Runners
      /\ openOffers' \in [Runners -> SUBSET Offers]
      /\ \A s \in Runners : s # r => openOffers'[s] = openOffers[s]
      /\ openOffers'[r] = {}
      /\ executed' = executed
  BY DEF Lose, Forget, TypeOK
<1>8. /\ runningTasks' \in [Runners -> [Tasks -> Statuses \cup {None}]]
      /\ \A s \in Runners : s # r => runningTasks'[s] = runningTasks[s]
      /\ \A t \in Tasks : runningTasks'[r][t] = None
  BY DEF Lose, Forget, TypeOK
<1> QED BY <1>4, <1>5, <1>6, <1>7, <1>8

\* The status of one task changes.
LEMMA StatusChange ==
    ASSUME TypeOK, NEW r \in Runners, NEW t \in Tasks, NEW status \in Statuses \cup {None},
           runningTasks' = [runningTasks EXCEPT ![r][t] = status]
    PROVE  /\ runningTasks' \in [Runners -> [Tasks -> Statuses \cup {None}]]
           /\ runningTasks'[r][t] = status
           /\ \A u \in Tasks : u # t => runningTasks'[r][u] = runningTasks[r][u]
           /\ \A s \in Runners : s # r => runningTasks'[s] = runningTasks[s]
<1> DEFINE own == [runningTasks[r] EXCEPT ![t] = status]
<1>1. runningTasks' = [runningTasks EXCEPT ![r] = own]
  OBVIOUS
<1>2. runningTasks[r] \in [Tasks -> Statuses \cup {None}]
  BY DEF TypeOK
<1>3. /\ own \in [Tasks -> Statuses \cup {None}] /\ own[t] = status
      /\ \A u \in Tasks : u # t => own[u] = runningTasks[r][u]
  BY <1>2
<1> HIDE DEF own
<1> QED BY <1>1, <1>3 DEF TypeOK

\* A step of settleTasks() for these lists leaves them typed.
LEMMA SettleTyped ==
    ASSUME TypeOK, NEW offers \in Seq(TaskOffer), NEW requests \in Seq(Requests),
           SettleTasks(offers, requests)
    PROVE  /\ pendingTaskOffers' \in Seq(TaskOffer)
           /\ pendingTaskRequests' \in Seq(Requests)
           /\ acceptInProgress' \subseteq Requests
           /\ accepting' \in [Tasks -> Runners \cup {None}]
           /\ toRunner' \in [Runners -> Seq(BrokerMessage)]
<1>1. PICK N : Settled(N, requests)
  BY SettleEffect
<1>2. \A t \in N : RequestOf(t) \in Requests
  BY <1>1, RequestOfTask DEF Settled, Fresh
<1> QED BY <1>1, <1>2 DEF Settled, AcceptsSent, TypeOK

\* The task ids are finitely many.
LEMMA TasksFinite ==
    IsFiniteSet(Tasks)
BY BrokerAssumption, FS_Product DEF Tasks

\* Every step keeps the types.
LEMMA TypeStep ==
    ASSUME TypeOK, [Next]_vars
    PROVE  TypeOK'
<1>1. ASSUME NEW q \in Requests, RequestTask(q)
      PROVE  TypeOK'
  <2>1. pendingTaskOffers \in Seq(TaskOffer) /\ Append(pendingTaskRequests, q) \in Seq(Requests)
    BY AppendProperties DEF TypeOK
  <2>2. SettleTasks(pendingTaskOffers, Append(pendingTaskRequests, q))
    BY <1>1 DEF RequestTask
  <2> QED BY <1>1, <2>1, <2>2, SettleTyped DEF RequestTask, TypeOK, runners
<1>2. ASSUME NEW k \in DOMAIN pendingTaskOffers, OfferExpires(k)
      PROVE  TypeOK'
  <2> DEFINE offer == pendingTaskOffers[k]
             late == [offer EXCEPT !.valid = FALSE]
  <2>1. k \in 1..Len(pendingTaskOffers) /\ pendingTaskOffers \in Seq(TaskOffer)
    BY LenProperties DEF TypeOK
  <2>2. offer \in TaskOffer
    BY <2>1, ElementOfSeq
  <2>3. late \in TaskOffer
    BY <2>2 DEF TaskOffer
  <2>4. pendingTaskOffers' = [pendingTaskOffers EXCEPT ![k] = late]
    BY <1>2 DEF OfferExpires
  <2> HIDE DEF late
  <2>5. pendingTaskOffers' \in Seq(TaskOffer)
    BY <2>1, <2>3, <2>4, ExceptSeq
  <2> QED BY <1>2, <2>5 DEF OfferExpires, TypeOK, runners
<1>3. ASSUME NEW t \in Tasks, AcceptTimesOut(t)
      PROVE  TypeOK'
  BY <1>3 DEF AcceptTimesOut, GiveUp, TypeOK, runners
<1>4. ASSUME NEW t \in Tasks, HandleTaskTimeout(t)
      PROVE  TypeOK'
  <2>1. RequestOf(t) \in Requests
    BY RequestOfTask
  <2>2. /\ tasks' \in [Tasks -> Runners \cup {None}]
        /\ request' \in [Requests -> {"idle", "waiting", "ready", "answered"}]
    BY <1>4, <2>1 DEF HandleTaskTimeout, Answer, TypeOK
  <2>3. CASE UNCHANGED <<connection, toRunner, toBroker, runners>>
    BY <1>4, <2>2, <2>3 DEF HandleTaskTimeout, TypeOK, matching, runners
  <2>4. CASE \E r \in Runners : \E n \in 0..Len(toBroker[r]) : Lose(r, n)
    BY <1>4, <2>2, <2>4, LoseEffect DEF HandleTaskTimeout, TypeOK, matching
  <2>5. CASE /\ toRunner' = SendTo(tasks[t], <<Message("taskcancel", t)>>)
             /\ UNCHANGED <<connection, toBroker, runners>>
    <3>1. tasks[t] \in Runners /\ Message("taskcancel", t) \in BrokerMessage
      BY <1>4 DEF HandleTaskTimeout, TypeOK, Message, BrokerMessage
    <3>2. toRunner' \in [Runners -> Seq(BrokerMessage)]
      BY <2>5, <3>1, SentMessage
    <3> QED BY <1>4, <2>2, <2>5, <3>2 DEF HandleTaskTimeout, TypeOK, matching, runners
  <2> QED BY <1>4, <2>3, <2>4, <2>5 DEF HandleTaskTimeout
<1>5. ASSUME NEW r \in Runners, RegisterRunner(r)
      PROVE  TypeOK'
  <2> DEFINE hello == <<[type |-> "runnerregistered"]>>
  <2>1. hello \in Seq(BrokerMessage)
    BY DEF BrokerMessage
  <2>2. toRunner' = [toRunner EXCEPT ![r] = hello]
    BY <1>5 DEF RegisterRunner
  <2> HIDE DEF hello
  <2>3. toRunner' \in [Runners -> Seq(BrokerMessage)]
    BY <2>1, <2>2 DEF TypeOK
  <2> QED BY <1>5, <2>3 DEF RegisterRunner, TypeOK, matching, runners
<1>6. ASSUME NEW r \in Runners, TaskOffered(r)
      PROVE  TypeOK'
  <2> DEFINE offer == [runner |-> r, offerId |-> Head(toBroker[r]).offerId, valid |-> TRUE]
             offers == Append(pendingTaskOffers, offer)
  <2>1. Received(r, "taskoffer") /\ SettleTasks(offers, pendingTaskRequests)
    BY <1>6 DEF TaskOffered
  <2>2. /\ PopFrom(toBroker, r) \in [Runners -> Seq(RunnerMessage)]
        /\ Head(toBroker[r]).offerId \in Offers
    BY <2>1, ReceivedMessage
  <2>3. offer \in TaskOffer
    BY <2>2 DEF TaskOffer
  <2> HIDE DEF offer
  <2>4. offers \in Seq(TaskOffer) /\ pendingTaskRequests \in Seq(Requests)
    BY <2>3, AppendProperties DEF TypeOK
  <2> HIDE DEF offers
  <2> QED BY <1>6, <2>1, <2>2, <2>4, SettleTyped DEF TaskOffered, TypeOK, runners
<1>7. ASSUME NEW r \in Runners, HandleRunnerAccept(r)
      PROVE  TypeOK'
  <2> DEFINE t == Head(toBroker[r]).taskId
  <2>1. /\ PopFrom(toBroker, r) \in [Runners -> Seq(RunnerMessage)]
        /\ t \in Tasks
    BY <1>7, ReceivedMessage DEF HandleRunnerAccept
  <2>2. RequestOf(t) \in Requests
    BY <2>1, RequestOfTask
  <2>3. CASE accepting[t] = None /\ UNCHANGED <<matching, tasks, request, toRunner>>
    BY <1>7, <2>1, <2>3 DEF HandleRunnerAccept, TypeOK, matching, runners
  <2>4. CASE accepting[t] # None
    <3>1. accepting[t] \in Runners /\ Message("tasksettings", t) \in BrokerMessage
      BY <2>1, <2>4 DEF TypeOK, Message, BrokerMessage
    <3>2. SendTo(accepting[t], <<Message("tasksettings", t)>>) \in [Runners -> Seq(BrokerMessage)]
      BY <3>1, SentMessage
    <3>3. RemoveFirst(pendingTaskRequests, RequestOf(t)) \in Seq(Requests)
      <4>1. pendingTaskRequests \in Seq(Requests)
        BY DEF TypeOK
      <4>2. CASE \E i \in 1..Len(pendingTaskRequests) : pendingTaskRequests[i] = RequestOf(t)
        BY <4>1, <4>2, RemoveFirstProperties
      <4>3. CASE ~\E i \in 1..Len(pendingTaskRequests) : pendingTaskRequests[i] = RequestOf(t)
        BY <4>1, <4>3 DEF RemoveFirst
      <4> QED BY <4>2, <4>3
    <3>4. /\ accepting' = [accepting EXCEPT ![t] = None]
          /\ tasks' = [tasks EXCEPT ![t] = accepting[t]]
          /\ pendingTaskRequests' = RemoveFirst(pendingTaskRequests, RequestOf(t))
          /\ request' = [request EXCEPT ![RequestOf(t)] = "ready"]
          /\ toRunner' = SendTo(accepting[t], <<Message("tasksettings", t)>>)
          /\ toBroker' = PopFrom(toBroker, r)
          /\ UNCHANGED <<mode, knownRunners, connection, runners, disconnects,
                         pendingTaskOffers, acceptInProgress>>
      BY <1>7, <2>4 DEF HandleRunnerAccept
    <3> HIDE DEF t
    <3> QED BY <2>1, <2>2, <3>1, <3>2, <3>3, <3>4 DEF TypeOK, runners
  <2> QED BY <1>7, <2>3, <2>4 DEF HandleRunnerAccept
<1>8. ASSUME NEW r \in Runners, HandleRunnerReject(r)
      PROVE  TypeOK'
  <2>1. PopFrom(toBroker, r) \in [Runners -> Seq(RunnerMessage)]
    BY <1>8, ReceivedMessage DEF HandleRunnerReject
  <2> QED BY <1>8, <2>1 DEF HandleRunnerReject, GiveUp, TypeOK, runners
<1>9. ASSUME NEW r \in Runners, HandleRunnerDeferred(r)
      PROVE  TypeOK'
  <2> DEFINE t == Head(toBroker[r]).taskId
  <2>1. PopFrom(toBroker, r) \in [Runners -> Seq(RunnerMessage)] /\ t \in Tasks
    BY <1>9, ReceivedMessage DEF HandleRunnerDeferred
  <2>2. Append(pendingTaskRequests, RequestOf(t)) \in Seq(Requests)
    BY <2>1, RequestOfTask, AppendProperties DEF TypeOK
  <2> QED BY <1>9, <2>1, <2>2 DEF HandleRunnerDeferred, GiveUp, TypeOK, runners
<1>10. ASSUME NEW r \in Runners, TaskEnded(r)
       PROVE  TypeOK'
  <2> DEFINE t == Head(toBroker[r]).taskId
  <2>1. PopFrom(toBroker, r) \in [Runners -> Seq(RunnerMessage)] /\ t \in Tasks
    BY <1>10, ReceivedMessage DEF TaskEnded
  <2>2. RequestOf(t) \in Requests
    BY <2>1, RequestOfTask
  <2> QED BY <1>10, <2>1, <2>2 DEF TaskEnded, Answer, TypeOK, matching, runners
<1>11. ASSUME NEW r \in Runners, DeregisterRunner(r)
       PROVE  TypeOK'
  <2>1. pendingTaskOffers' \in Seq(TaskOffer)
    <3> DEFINE I == {k \in DOMAIN pendingTaskOffers : pendingTaskOffers[k].runner # r}
    <3>1. pendingTaskOffers' = At(pendingTaskOffers, I) /\ I \in SUBSET (DOMAIN pendingTaskOffers)
      BY <1>11 DEF DeregisterRunner
    <3> HIDE DEF I
    <3> QED BY <3>1, OffersLeft DEF TypeOK
  <2>2. /\ tasks' \in [Tasks -> Runners \cup {None}]
        /\ request' \in [Requests -> {"idle", "waiting", "ready", "answered"}]
    BY <1>11 DEF DeregisterRunner, FailTasks, TypeOK
  <2>3. disconnects' \in 0..MaxDisconnects
    BY <1>11, BrokerAssumption DEF DeregisterRunner, TypeOK
  <2>4. /\ <<>> \in Seq(BrokerMessage) /\ <<>> \in Seq(RunnerMessage)
    BY EmptySeq
  <2>5. /\ toRunner' \in [Runners -> Seq(BrokerMessage)]
        /\ toBroker' \in [Runners -> Seq(RunnerMessage)]
    BY <1>11, <2>4 DEF DeregisterRunner, TypeOK
  <2>6. /\ canSendOffers' \subseteq Runners
        /\ openOffers' \in [Runners -> SUBSET Offers]
        /\ runningTasks' \in [Runners -> [Tasks -> Statuses \cup {None}]]
        /\ executed' \in [Requests -> Nat]
    BY <1>11 DEF DeregisterRunner, Forget, TypeOK
  <2> QED BY <1>11, <2>1, <2>2, <2>3, <2>5, <2>6 DEF DeregisterRunner, TypeOK
<1>12. ASSUME NEW r \in Runners, StartTaskOffers(r)
       PROVE  TypeOK'
  <2>1. PopFrom(toRunner, r) \in [Runners -> Seq(BrokerMessage)]
    BY <1>12, RunnerReceivedMessage DEF StartTaskOffers
  <2> QED BY <1>12, <2>1 DEF StartTaskOffers, TypeOK, matching
<1>13. ASSUME NEW r \in Runners, OfferAccepted(r)
       PROVE  TypeOK'
  <2> DEFINE o == Head(toRunner[r]).offerId
             t == Head(toRunner[r]).taskId
  <2>1. PopFrom(toRunner, r) \in [Runners -> Seq(BrokerMessage)] /\ t \in Tasks
    BY <1>13, RunnerReceivedMessage DEF OfferAccepted
  <2>2. toBroker' \in [Runners -> Seq(RunnerMessage)]
    <3>1. PICK type \in {"taskaccepted", "taskrejected"} :
             toBroker' = [toBroker EXCEPT ![r] = Append(@, Message(type, t))]
      BY <1>13 DEF OfferAccepted
    <3>2. Message(type, t) \in RunnerMessage
      BY <2>1 DEF Message, RunnerMessage
    <3> HIDE DEF t
    <3>3. toBroker \in [Runners -> Seq(RunnerMessage)]
      BY DEF TypeOK
    <3>4. HasAdded(RunnerMessage, toBroker, r, Message(type, t), toBroker')
      BY <3>1, <3>2, <3>3, AddedOne
    <3> QED BY <3>4 DEF HasAdded
  <2>3. runningTasks' \in [Runners -> [Tasks -> Statuses \cup {None}]]
    <3>1. CASE UNCHANGED runningTasks
      BY <3>1 DEF TypeOK
    <3>2. CASE runningTasks' = [runningTasks EXCEPT ![r][t] = "waitingForSettings"]
      BY <3>2, <2>1, StatusChange DEF Statuses
    <3> QED BY <1>13, <3>1, <3>2 DEF OfferAccepted
  <2>4. openOffers' \in [Runners -> SUBSET Offers]
    BY <1>13 DEF OfferAccepted, TypeOK
  <2> QED BY <1>13, <2>1, <2>2, <2>3, <2>4 DEF OfferAccepted, TypeOK, matching
<1>14. ASSUME NEW r \in Runners, DeferTask(r)
       PROVE  TypeOK'
  <2> DEFINE m == Message("taskdeferred", Head(toRunner[r]).taskId)
  <2>1. /\ PopFrom(toRunner, r) \in [Runners -> Seq(BrokerMessage)]
        /\ Head(toRunner[r]).taskId \in Tasks
    BY <1>14, RunnerReceivedMessage DEF DeferTask
  <2>2. m \in RunnerMessage
    BY <2>1 DEF Message, RunnerMessage
  <2>3. toBroker' = [toBroker EXCEPT ![r] = Append(@, m)]
    BY <1>14 DEF DeferTask
  <2>4. toBroker \in [Runners -> Seq(RunnerMessage)]
    BY DEF TypeOK
  <2> HIDE DEF m
  <2>5. toBroker' \in [Runners -> Seq(RunnerMessage)]
    <3>1. HasAdded(RunnerMessage, toBroker, r, m, toBroker')
      BY <2>2, <2>3, <2>4, AddedOne
    <3> QED BY <3>1 DEF HasAdded
  <2> QED BY <1>14, <2>1, <2>5 DEF DeferTask, TypeOK, matching
<1>15. ASSUME NEW r \in Runners, ReceivedSettings(r)
       PROVE  TypeOK'
  <2> DEFINE t == Head(toRunner[r]).taskId
  <2>1. PopFrom(toRunner, r) \in [Runners -> Seq(BrokerMessage)] /\ t \in Tasks
    BY <1>15, RunnerReceivedMessage DEF ReceivedSettings
  <2>2. RequestOf(t) \in Requests
    BY <2>1, RequestOfTask
  <2>3. runningTasks' \in [Runners -> [Tasks -> Statuses \cup {None}]]
    <3>1. CASE UNCHANGED runningTasks
      BY <3>1 DEF TypeOK
    <3>2. CASE runningTasks' = [runningTasks EXCEPT ![r][t] = "running"]
      BY <3>2, <2>1, StatusChange DEF Statuses
    <3> QED BY <1>15, <3>1, <3>2 DEF ReceivedSettings
  <2>4. executed' \in [Requests -> Nat]
    <3> HIDE DEF t
    <3>1. executed' = executed \/ executed' = [executed EXCEPT ![RequestOf(t)] = @ + 1]
      BY <1>15 DEF ReceivedSettings, t
    <3>2. executed \in [Requests -> Nat] /\ executed[RequestOf(t)] + 1 \in Nat
      BY <2>2 DEF TypeOK
    <3> QED BY <3>1, <3>2
  <2> QED BY <1>15, <2>1, <2>3, <2>4 DEF ReceivedSettings, TypeOK, matching
<1>16. ASSUME NEW r \in Runners, NEW t \in Tasks, NEW messages \in Seq(RunnerMessage),
              FinishTask(r, t, messages)
       PROVE  /\ runningTasks' \in [Runners -> [Tasks -> Statuses \cup {None}]]
              /\ openOffers' \in [Runners -> SUBSET Offers]
              /\ toBroker' \in [Runners -> Seq(RunnerMessage)]
  <2>1. runningTasks' \in [Runners -> [Tasks -> Statuses \cup {None}]]
    BY <1>16, StatusChange DEF FinishTask
  <2>2. openOffers[r] \in SUBSET Offers
    BY DEF TypeOK
  <2>3. IsFiniteSet(Running(r) \ {t})
    BY TasksFinite, FS_Subset DEF Running
  <2>4. SendOffers(r, messages, openOffers[r], Running(r) \ {t})
    BY <1>16 DEF FinishTask
  <2> QED BY <2>1, <2>2, <2>3, <2>4, SendOffersEffect
<1>17. ASSUME NEW r \in Runners, TaskCancelled(r)
       PROVE  TypeOK'
  <2> DEFINE t == Head(toRunner[r]).taskId
  <2>1. PopFrom(toRunner, r) \in [Runners -> Seq(BrokerMessage)] /\ t \in Tasks
    BY <1>17, RunnerReceivedMessage DEF TaskCancelled
  <2>2. CASE FinishTask(r, t, <<>>)
    <3>1. <<>> \in Seq(RunnerMessage)
      BY EmptySeq
    <3> QED BY <1>17, <2>1, <2>2, <3>1, <1>16 DEF TaskCancelled, TypeOK, matching
  <2>3. CASE /\ runningTasks' = [runningTasks EXCEPT ![r][t] =
                                    IF @ = "running" THEN "aborting:cancelled" ELSE @]
             /\ UNCHANGED <<openOffers, toBroker>>
    <3> DEFINE status == IF runningTasks[r][t] = "running" THEN "aborting:cancelled"
                         ELSE runningTasks[r][t]
    <3>1. runningTasks' = [runningTasks EXCEPT ![r][t] = status]
      BY <2>3, Zenon
    <3>2. status \in Statuses \cup {None}
      BY <2>1 DEF TypeOK, Statuses
    <3> HIDE DEF status
    <3>3. runningTasks' \in [Runners -> [Tasks -> Statuses \cup {None}]]
      BY <2>1, <3>1, <3>2, StatusChange
    <3> QED BY <1>17, <2>1, <2>3, <3>3 DEF TaskCancelled, TypeOK, matching
  <2> QED BY <1>17, <2>2, <2>3 DEF TaskCancelled
<1>18. ASSUME NEW r \in Runners, OfferInterval(r)
       PROVE  TypeOK'
  <2>1. openOffers[r] \in SUBSET Offers /\ IsFiniteSet(Running(r)) /\ <<>> \in Seq(RunnerMessage)
    BY TasksFinite, FS_Subset, EmptySeq DEF Running, TypeOK
  <2>2. /\ openOffers' \in [Runners -> SUBSET Offers]
        /\ toBroker' \in [Runners -> Seq(RunnerMessage)]
    BY <1>18, <2>1, SendOffersEffect DEF OfferInterval
  <2> QED BY <1>18, <2>2 DEF OfferInterval, TypeOK, matching
<1>19. ASSUME NEW r \in Runners, Break(r)
       PROVE  TypeOK'
  <2>1. disconnects' \in 0..MaxDisconnects
    BY <1>19, BrokerAssumption DEF Break, TypeOK
  <2> QED BY <1>19, <2>1, LoseEffect DEF Break, TypeOK, matching
<1>20. ASSUME NEW r \in Runners, NEW t \in Tasks
       PROVE  <<>> \in Seq(RunnerMessage) /\ <<Message("taskended", t)>> \in Seq(RunnerMessage)
  <2>1. Message("taskended", t) \in RunnerMessage
    BY DEF Message, RunnerMessage
  <2> QED BY <2>1
<1>21. ASSUME NEW r \in Runners, NEW t \in Tasks, TaskTimedOut(r, t)
       PROVE  TypeOK'
  <2>1. CASE FinishTask(r, t, <<Message("taskended", t)>>)
    <3>1. <<Message("taskended", t)>> \in Seq(RunnerMessage)
      BY <1>20
    <3> QED BY <1>21, <2>1, <3>1, <1>16 DEF TaskTimedOut, TypeOK, matching
  <2>2. CASE /\ runningTasks' = [runningTasks EXCEPT ![r][t] = "aborting:timeout"]
             /\ UNCHANGED <<openOffers, toBroker>>
    <3>1. runningTasks' \in [Runners -> [Tasks -> Statuses \cup {None}]]
      BY <2>2, StatusChange DEF Statuses
    <3> QED BY <1>21, <2>2, <3>1 DEF TaskTimedOut, TypeOK, matching
  <2> QED BY <1>21, <2>1, <2>2 DEF TaskTimedOut
<1>22. ASSUME NEW r \in Runners, NEW t \in Tasks, ExecutionEnds(r, t)
       PROVE  TypeOK'
  <2>1. PICK messages \in Seq(RunnerMessage) : FinishTask(r, t, messages)
    BY <1>20, <1>22 DEF ExecutionEnds
  <2> QED BY <1>22, <2>1, <1>16 DEF ExecutionEnds, TypeOK, matching
<1>23. CASE UNCHANGED vars
  BY <1>23 DEF vars, TypeOK, matching, runners
<1> QED
  BY <1>1, <1>2, <1>3, <1>4, <1>5, <1>6, <1>7, <1>8, <1>9, <1>10, <1>11, <1>12, <1>13, <1>14,
     <1>15, <1>17, <1>18, <1>19, <1>21, <1>22, <1>23 DEF Next, BrokerStep, RunnerStep

-----------------------------------------------------------------------------
(* Slots                                                                   *)

Slots(r) == Cardinality(openOffers[r]) + Cardinality(Running(r)) <= MaxConcurrency

\* The offers and the tasks of a runner can be counted.
LEMMA RunnerSetsFinite ==
    ASSUME TypeOK, NEW r \in Runners
    PROVE  /\ IsFiniteSet(openOffers[r]) /\ Cardinality(openOffers[r]) \in Nat
           /\ IsFiniteSet(Running(r)) /\ Cardinality(Running(r)) \in Nat
<1>1. openOffers[r] \in SUBSET Offers /\ IsFiniteSet(Offers)
  BY BrokerAssumption DEF TypeOK
<1>2. Running(r) \in SUBSET Tasks
  BY DEF Running
<1> QED BY <1>1, <1>2, TasksFinite, FS_Subset, FS_CardinalityType

\* The status of a task becomes None, and new offers fill the slots.
LEMMA FinishKeepsSlots ==
    ASSUME TypeOK, NEW r \in Runners, NEW t \in Tasks, NEW messages \in Seq(RunnerMessage),
           Slots(r), FinishTask(r, t, messages)
    PROVE  /\ Slots(r)'
           /\ \A s \in Runners : s # r =>
                 openOffers'[s] = openOffers[s] /\ runningTasks'[s] = runningTasks[s]
<1> DEFINE left == Running(r) \ {t}
<1>1. /\ runningTasks'[r][t] = None
      /\ \A u \in Tasks : u # t => runningTasks'[r][u] = runningTasks[r][u]
      /\ \A s \in Runners : s # r => runningTasks'[s] = runningTasks[s]
  BY StatusChange DEF FinishTask
<1>2. Running(r)' = left
  BY <1>1 DEF Running
<1>3. IsFiniteSet(left) /\ Cardinality(left) \in Nat /\ Cardinality(left) <= Cardinality(Running(r))
  <2>1. left \in SUBSET Running(r)
    OBVIOUS
  <2> QED BY <2>1, RunnerSetsFinite, FS_Subset, FS_CardinalityType
<1>4. Cardinality(openOffers[r]) + Cardinality(left) <= MaxConcurrency
  BY <1>3, RunnerSetsFinite, BrokerAssumption DEF Slots
<1>5. SendOffers(r, messages, openOffers[r], left) /\ openOffers[r] \in SUBSET Offers
  BY DEF FinishTask, TypeOK
<1> HIDE DEF left
<1>6. /\ Cardinality(openOffers'[r]) + Cardinality(left) <= MaxConcurrency
      /\ \A s \in Runners : s # r => openOffers'[s] = openOffers[s]
  BY <1>3, <1>4, <1>5, SendOffersEffect
<1> QED BY <1>1, <1>2, <1>6 DEF Slots

\* No step of any actor makes a runner promise more than its slots.
LEMMA SlotsStep ==
    ASSUME TypeOK, NeverOverbooked, [Next]_vars
    PROVE  NeverOverbooked'
<1>1. ASSUME NEW r \in Runners
      PROVE  Slots(r)
  BY <1>1 DEF NeverOverbooked, Slots
<1>2. SUFFICES ASSUME NEW s \in Runners
               PROVE  Slots(s)'
  BY <1>2 DEF NeverOverbooked, Slots
<1>3. CASE openOffers'[s] = openOffers[s] /\ runningTasks'[s] = runningTasks[s]
  <2>1. Running(s)' = Running(s)
    BY <1>3 DEF Running
  <2> QED BY <1>1, <1>3, <2>1 DEF Slots
<1>4. CASE openOffers'[s] = {} /\ \A t \in Tasks : runningTasks'[s][t] = None
  <2>1. Running(s)' = {} /\ openOffers'[s] = {}
    BY <1>4 DEF Running
  <2>2. Cardinality({}) + Cardinality({}) <= MaxConcurrency
    BY BrokerAssumption, FS_EmptySet
  <2> QED BY <2>1, <2>2 DEF Slots
<1>5. CASE UNCHANGED runners
  BY <1>3, <1>5 DEF runners
<1>6. ASSUME NEW r \in Runners, NEW n \in 0..Len(toBroker[r]), Lose(r, n)
      PROVE  Slots(s)'
  BY <1>3, <1>4, <1>6, LoseEffect
<1>7. ASSUME NEW r \in Runners, NEW t \in Tasks, NEW messages \in Seq(RunnerMessage),
             FinishTask(r, t, messages)
      PROVE  Slots(s)'
  BY <1>1, <1>3, <1>7, FinishKeepsSlots
<1>8. \A t \in Tasks : <<Message("taskended", t)>> \in Seq(RunnerMessage) /\ <<>> \in Seq(RunnerMessage)
  <2>1. \A t \in Tasks : Message("taskended", t) \in RunnerMessage
    BY DEF Message, RunnerMessage
  <2> QED BY <2>1
<1>9. ASSUME NEW r \in Runners, NEW t \in Tasks, NEW status \in Statuses,
             runningTasks[r][t] # None,
             runningTasks' = [runningTasks EXCEPT ![r][t] = status], openOffers' = openOffers
      PROVE  Slots(s)'
  <2>1. /\ runningTasks'[r][t] = status
        /\ \A u \in Tasks : u # t => runningTasks'[r][u] = runningTasks[r][u]
        /\ \A x \in Runners : x # r => runningTasks'[x] = runningTasks[x]
    BY <1>9, StatusChange
  <2>2. status # None
    BY BrokerAssumption
  <2>3. Running(s)' = Running(s)
    <3>1. \A u \in Tasks : runningTasks'[s][u] # None <=> runningTasks[s][u] # None
      BY <1>9, <2>1, <2>2
    <3> QED BY <3>1 DEF Running
  <2> QED BY <1>1, <1>9, <2>3 DEF Slots
<1>10. ASSUME NEW t \in Tasks, HandleTaskTimeout(t)
       PROVE  Slots(s)'
  BY <1>5, <1>6, <1>10 DEF HandleTaskTimeout
<1>11. ASSUME NEW r \in Runners, DeregisterRunner(r)
       PROVE  Slots(s)'
  <2>1. CASE s = r
    BY <1>4, <1>11, <2>1 DEF DeregisterRunner, Forget, TypeOK
  <2>2. CASE s # r
    BY <1>3, <1>11, <2>2 DEF DeregisterRunner, Forget, TypeOK
  <2> QED BY <2>1, <2>2
<1>12. ASSUME NEW r \in Runners, StartTaskOffers(r)
       PROVE  Slots(s)'
  BY <1>3, <1>12 DEF StartTaskOffers
<1>13. ASSUME NEW r \in Runners, OfferAccepted(r)
       PROVE  Slots(s)'
  <2> DEFINE o == Head(toRunner[r]).offerId
             t == Head(toRunner[r]).taskId
             open == openOffers[r] \ {o}
  <2>1. t \in Tasks /\ openOffers' = [openOffers EXCEPT ![r] = open]
    BY <1>13, RunnerReceivedMessage DEF OfferAccepted
  <2>2. /\ openOffers'[r] = open
        /\ \A x \in Runners : x # r => openOffers'[x] = openOffers[x]
    BY <2>1 DEF TypeOK
  <2>3. /\ IsFiniteSet(openOffers[r]) /\ Cardinality(openOffers[r]) \in Nat
        /\ IsFiniteSet(Running(r)) /\ Cardinality(Running(r)) \in Nat
    BY RunnerSetsFinite
  <2>4. /\ IsFiniteSet(open) /\ Cardinality(open) \in Nat
        /\ Cardinality(open) = IF o \in openOffers[r] THEN Cardinality(openOffers[r]) - 1
                               ELSE Cardinality(openOffers[r])
    BY <2>3, FS_RemoveElement, FS_CardinalityType
  <2> HIDE DEF open
  <2>5. CASE UNCHANGED runningTasks
    <3>1. CASE s = r
      <4>1. Running(r)' = Running(r)
        BY <2>5 DEF Running
      <4>2. Cardinality(open) <= Cardinality(openOffers[r])
        BY <2>3, <2>4
      <4> QED BY <3>1, <4>1, <4>2, <2>2, <2>3, <2>4, <1>1, BrokerAssumption DEF Slots
    <3>2. CASE s # r
      BY <1>3, <2>2, <2>5, <3>2
    <3> QED BY <3>1, <3>2
  <2>6. CASE /\ o \in openOffers[r]
             /\ runningTasks' = [runningTasks EXCEPT ![r][t] = "waitingForSettings"]
    <3>1. /\ \A u \in Tasks : u # t => runningTasks'[r][u] = runningTasks[r][u]
          /\ \A x \in Runners : x # r => runningTasks'[x] = runningTasks[x]
          /\ runningTasks'[r][t] = "waitingForSettings"
      BY <2>1, <2>6, StatusChange, ZenonT(40) DEF Statuses
    <3>2. CASE s = r
      <4> DEFINE more == Running(r) \cup {t}
      <4>1. Running(r)' = more
        BY <2>1, <3>1, BrokerAssumption DEF Running, Statuses
      <4>2. /\ Cardinality(more) \in Nat
            /\ Cardinality(more) <= Cardinality(Running(r)) + 1
        <5> HIDE DEF t
        <5>1. /\ IsFiniteSet(more)
              /\ Cardinality(more) = IF t \in Running(r) THEN Cardinality(Running(r))
                                     ELSE Cardinality(Running(r)) + 1
          BY <2>3, FS_AddElement
        <5> HIDE DEF more
        <5> QED BY <2>3, <5>1
      <4> HIDE DEF more
      <4> QED BY <3>2, <4>1, <4>2, <2>2, <2>3, <2>4, <2>6, <1>1, BrokerAssumption DEF Slots
    <3>3. CASE s # r
      BY <1>3, <2>2, <3>1, <3>3
    <3> QED BY <3>2, <3>3
  <2> QED BY <1>13, <2>5, <2>6 DEF OfferAccepted
<1>14. ASSUME NEW r \in Runners, DeferTask(r)
       PROVE  Slots(s)'
  <2>1. /\ runningTasks' = runningTasks
        /\ openOffers'[r] = {} /\ \A x \in Runners : x # r => openOffers'[x] = openOffers[x]
    BY <1>14 DEF DeferTask, TypeOK
  <2>2. CASE s = r
    <3>1. Running(s)' = Running(s) /\ openOffers'[s] = {}
      BY <2>1, <2>2 DEF Running
    <3>2. Cardinality({}) = 0
      BY FS_EmptySet
    <3> QED BY <3>1, <3>2, <1>1, RunnerSetsFinite, BrokerAssumption DEF Slots
  <2>3. CASE s # r
    BY <1>3, <2>1, <2>3
  <2> QED BY <2>2, <2>3
<1>15. ASSUME NEW r \in Runners, ReceivedSettings(r)
       PROVE  Slots(s)'
  <2> DEFINE t == Head(toRunner[r]).taskId
  <2>1. t \in Tasks
    BY <1>15, RunnerReceivedMessage DEF ReceivedSettings
  <2>2. CASE UNCHANGED runningTasks
    BY <1>3, <1>15, <2>2 DEF ReceivedSettings
  <2>3. CASE /\ runningTasks[r][t] # None
             /\ runningTasks' = [runningTasks EXCEPT ![r][t] = "running"]
    BY <1>9, <1>15, <2>1, <2>3 DEF ReceivedSettings, Statuses
  <2> QED BY <1>15, <2>2, <2>3 DEF ReceivedSettings
<1>16. ASSUME NEW r \in Runners, TaskCancelled(r)
       PROVE  Slots(s)'
  <2> DEFINE t == Head(toRunner[r]).taskId
             status == IF runningTasks[r][t] = "running" THEN "aborting:cancelled"
                       ELSE runningTasks[r][t]
  <2>1. t \in Tasks
    BY <1>16, RunnerReceivedMessage DEF TaskCancelled
  <2>2. CASE FinishTask(r, t, <<>>)
    BY <1>7, <1>8, <2>1, <2>2
  <2>3. CASE /\ runningTasks' = [runningTasks EXCEPT ![r][t] =
                                    IF @ = "running" THEN "aborting:cancelled" ELSE @]
             /\ UNCHANGED <<openOffers, toBroker>>
    <3>1. runningTasks' = [runningTasks EXCEPT ![r][t] = status]
      BY <2>3, Zenon
    <3>2. CASE runningTasks[r][t] = None
      <4>1. status = None
        BY <3>2, BrokerAssumption DEF Statuses
      <4> HIDE DEF t, status
      <4>2. runningTasks' \in [Runners -> [Tasks -> Statuses \cup {None}]]
            /\ \A x \in Runners : \A u \in Tasks : runningTasks'[x][u] = runningTasks[x][u]
        BY <2>1, <3>1, <3>2, <4>1, StatusChange, ZenonT(40)
      <4>3. runningTasks'[s] = runningTasks[s]
        BY <4>2 DEF TypeOK
      <4> QED BY <1>3, <2>3, <4>3
    <3>3. CASE runningTasks[r][t] # None
      <4>1. status \in Statuses
        BY <2>1, <3>3 DEF Statuses, TypeOK
      <4> HIDE DEF t, status
      <4> QED BY <1>9, <2>1, <2>3, <3>1, <3>3, <4>1
    <3> QED BY <3>2, <3>3
  <2> QED BY <1>16, <2>2, <2>3 DEF TaskCancelled
<1>17. ASSUME NEW r \in Runners, OfferInterval(r)
       PROVE  Slots(s)'
  <2>1. /\ SendOffers(r, <<>>, openOffers[r], Running(r)) /\ runningTasks' = runningTasks
        /\ openOffers[r] \in SUBSET Offers /\ IsFiniteSet(Running(r))
        /\ <<>> \in Seq(RunnerMessage)
    BY <1>17, RunnerSetsFinite DEF OfferInterval, TypeOK
  <2>2. /\ Cardinality(openOffers'[r]) + Cardinality(Running(r)) <= MaxConcurrency
        /\ \A x \in Runners : x # r => openOffers'[x] = openOffers[x]
    BY <1>1, <2>1, SendOffersEffect DEF Slots
  <2>3. CASE s = r
    <3>1. Running(s)' = Running(s)
      BY <2>1 DEF Running
    <3> QED BY <2>2, <2>3, <3>1 DEF Slots
  <2>4. CASE s # r
    BY <1>3, <2>1, <2>2, <2>4
  <2> QED BY <2>3, <2>4
<1>18. ASSUME NEW r \in Runners, Break(r)
       PROVE  Slots(s)'
  BY <1>6, <1>18 DEF Break
<1>19. ASSUME NEW r \in Runners, NEW t \in Tasks, TaskTimedOut(r, t)
       PROVE  Slots(s)'
  <2>1. CASE FinishTask(r, t, <<Message("taskended", t)>>)
    BY <1>7, <1>8, <2>1
  <2>2. CASE /\ runningTasks[r][t] = "running"
             /\ runningTasks' = [runningTasks EXCEPT ![r][t] = "aborting:timeout"]
             /\ UNCHANGED <<openOffers, toBroker>>
    BY <1>9, <2>2, BrokerAssumption DEF Statuses
  <2> QED BY <1>19, <2>1, <2>2 DEF TaskTimedOut
<1>20. ASSUME NEW r \in Runners, NEW t \in Tasks, ExecutionEnds(r, t)
       PROVE  Slots(s)'
  <2>1. PICK messages \in Seq(RunnerMessage) : FinishTask(r, t, messages)
    BY <1>8, <1>20 DEF ExecutionEnds
  <2> QED BY <1>7, <2>1
<1>21. CASE UNCHANGED vars
  BY <1>5, <1>21 DEF vars
<1> QED
  BY <1>5, <1>10, <1>11, <1>12, <1>13, <1>14, <1>15, <1>16, <1>17, <1>18, <1>19, <1>20, <1>21
  DEF Next, BrokerStep, RunnerStep, RequestTask, OfferExpires, AcceptTimesOut, RegisterRunner,
      TaskOffered, HandleRunnerAccept, HandleRunnerReject, HandleRunnerDeferred, TaskEnded

\* The types and the slots at the start.
LEMMA InitTyped ==
    ASSUME Init
    PROVE  TypeOK /\ NeverOverbooked
<1> USE DEF Init, runners, matching
<1>1. /\ <<>> \in Seq(TaskOffer) /\ <<>> \in Seq(Requests)
      /\ <<>> \in Seq(BrokerMessage) /\ <<>> \in Seq(RunnerMessage)
      /\ Range(<<>>) = {} /\ Len(<<>>) = 0 /\ 1..0 = {}
  BY DEF Range
<1>2. TypeOK
  BY <1>1, BrokerAssumption DEF TypeOK
<1>3. NeverOverbooked
  <2>1. \A r \in Runners : openOffers[r] = {} /\ Running(r) = {}
    BY DEF Running
  <2>2. \A r \in Runners : Cardinality(openOffers[r]) = 0 /\ Cardinality(Running(r)) = 0
    BY <2>1, FS_EmptySet
  <2>3. 0 + 0 <= MaxConcurrency
    BY BrokerAssumption
  <2> QED BY <2>2, <2>3 DEF NeverOverbooked
<1> QED BY <1>2, <1>3

\* All the state of the broker, the requester, the runners and the channels between them
\* stays within its types: what the handlers take out of a message is always there.
THEOREM TypeCorrect == Spec => []TypeOK
<1>1. Init => TypeOK
  BY InitTyped
<1>2. TypeOK /\ [Next]_vars => TypeOK'
  BY TypeStep
<1> QED BY <1>1, <1>2, PTL DEF Spec

\* sendOffers(), offerAccepted() and finishTask() never promise more than maxConcurrency
\* slots of a runner, however many runners, offers, tasks and lost connections there are.
THEOREM SlotsKept == Spec => []NeverOverbooked
<1>1. Init => NeverOverbooked
  BY InitTyped
<1>2. TypeOK /\ NeverOverbooked /\ [Next]_vars => NeverOverbooked'
  BY SlotsStep
<1> QED BY <1>1, <1>2, TypeCorrect, PTL DEF Spec


-----------------------------------------------------------------------------
(* The inductive invariant                                                 *)

\* The lists of the broker, the requester and the tasks agree.
BrokerInv ==
    /\ AcceptFindsRequest
    /\ RequestIsTracked
    /\ TaskHasRunner
    /\ \A t \in Tasks : accepting[t] # None => RequestOf(t) \in acceptInProgress
    /\ \A t \in Tasks : tasks[t] # None =>
          /\ request[RequestOf(t)] = "ready"
          /\ \A u \in Tasks : RequestOf(u) = RequestOf(t) /\ u # t => tasks[u] = None
    /\ \A q \in Requests :
          /\ q \in Range(pendingTaskRequests) \ acceptInProgress => request[q] = "waiting"
          /\ request[q] = "idle" => q \notin acceptInProgress

\* Accepts are under way on the connection of the runner that is to accept, or late.
AcceptsInv ==
    \A r \in Runners :
        /\ \A i \in 1..Len(toRunner[r]) : toRunner[r][i].type = "taskofferaccept" =>
              accepting[toRunner[r][i].taskId] \in {None, r}
        /\ \A i \in 1..Len(toBroker[r]) : toBroker[r][i].type = "taskaccepted" =>
              accepting[toBroker[r][i].taskId] \in {None, r}

\* Settings are under way for a request that was not executed, and once.
SettingsOf(r, i, q) ==
    /\ i \in 1..Len(toRunner[r])
    /\ toRunner[r][i].type = "tasksettings" /\ RequestOf(toRunner[r][i].taskId) = q

SettingsInv ==
    \A q \in Requests : \A r \in Runners : \A i \in 1..Len(toRunner[r]) : SettingsOf(r, i, q) =>
        /\ request[q] \in {"ready", "answered"} /\ executed[q] = 0
        /\ \A s \in Runners : \A j \in 1..Len(toRunner[s]) : SettingsOf(s, j, q) => s = r /\ j = i

\* A request is executed at most once, by a task that began to run.
ExecutionInv ==
    /\ \A q \in Requests :
          /\ executed[q] \in {0, 1}
          /\ request[q] \in {"idle", "waiting"} => executed[q] = 0
    /\ \A r \in Runners : \A t \in Tasks :
          runningTasks[r][t] \notin {None, "waitingForSettings"} => executed[RequestOf(t)] = 1

IInv ==
    /\ BrokerInv
    /\ AcceptsInv
    /\ SettingsInv
    /\ ExecutionInv

-----------------------------------------------------------------------------
(* The lists of the broker                                                 *)

\* What a list holds after an append.
LEMMA AppendRange ==
    ASSUME NEW S, NEW s \in Seq(S), NEW e \in S
    PROVE  Append(s, e) \in Seq(S) /\ Range(Append(s, e)) = Range(s) \cup {e}
<1> DEFINE n == Len(s)
           a == Append(s, e)
<1>1. n \in Nat /\ DOMAIN s = 1..n
  BY LenProperties
<1>2. /\ a \in Seq(S) /\ Len(a) = n + 1
      /\ \A i \in 1..n : a[i] = s[i]
      /\ a[n + 1] = e
  BY AppendProperties
<1>3. DOMAIN a = 1..(n + 1)
  BY <1>2, LenProperties
<1> HIDE DEF n, a
<1>4. Range(s) = {s[i] : i \in 1..n} /\ Range(a) = {a[i] : i \in 1..(n + 1)}
  BY <1>1, <1>3 DEF Range
<1>5. \A i \in 1..(n + 1) : i \in 1..n \/ i = n + 1
  BY <1>1
<1>6. n + 1 \in 1..(n + 1) /\ 1..n \subseteq 1..(n + 1)
  BY <1>1
<1>7. Range(a) = Range(s) \cup {e}
  BY <1>2, <1>4, <1>5, <1>6
<1> QED BY <1>2, <1>7 DEF a

\* Matching keeps the lists in agreement, for a request that is new as well.
LEMMA SettledBroker ==
    ASSUME TypeOK, BrokerInv, NEW requests \in Seq(Requests), NEW N, Settled(N, requests),
           UNCHANGED <<tasks, knownRunners>>,
           Range(pendingTaskRequests) \subseteq Range(requests),
           \A q \in Requests : \/ request'[q] = request[q]
                               \/ /\ request[q] = "idle" /\ request'[q] = "waiting"
                                  /\ q \in Range(requests),
           \A q \in Requests : q \in Range(requests) \ Range(pendingTaskRequests) =>
              request[q] = "idle" /\ request'[q] = "waiting"
    PROVE  BrokerInv'
<1>1. /\ N \subseteq Tasks
      /\ \A t \in N : RequestOf(t) \in Range(requests) \ acceptInProgress
      /\ \A t, u \in N : RequestOf(t) = RequestOf(u) => t = u
      /\ pendingTaskRequests' = requests
      /\ acceptInProgress' = acceptInProgress \cup {RequestOf(t) : t \in N}
      /\ \A t \in Tasks : IF t \in N THEN accepting'[t] \in Runners
                                     ELSE accepting'[t] = accepting[t]
  BY DEF Settled, Fresh
<1>2. None \notin Runners
  BY BrokerAssumption
<1>3. \A t \in Tasks : RequestOf(t) \in Requests
  BY RequestOfTask
<1>4. \A q \in Requests : q \in Range(requests) \ acceptInProgress => request'[q] = "waiting"
  BY DEF BrokerInv
<1>5. \A q \in Requests : q \in Range(requests) \ acceptInProgress =>
          \A t \in Tasks : RequestOf(t) = q => accepting[t] = None /\ tasks[t] = None
  <2>1. \A q \in Requests : q \in Range(requests) \ acceptInProgress =>
            request[q] \in {"idle", "waiting"}
    BY DEF BrokerInv
  <2> QED BY <2>1, <1>3 DEF BrokerInv
<1>6. AcceptFindsRequest'
  <2> SUFFICES ASSUME NEW t \in Tasks, accepting'[t] # None
               PROVE  /\ RequestOf(t) \in Range(requests)
                      /\ request'[RequestOf(t)] = "waiting"
                      /\ \A u \in Tasks : RequestOf(u) = RequestOf(t) /\ u # t =>
                            accepting'[u] = None /\ tasks[u] = None
    BY <1>1 DEF AcceptFindsRequest
  <2>1. CASE t \in N
    <3>1. RequestOf(t) \in Range(requests) \ acceptInProgress /\ RequestOf(t) \in Requests
      BY <2>1, <1>1, <1>3
    <3>2. \A u \in Tasks : RequestOf(u) = RequestOf(t) /\ u # t => u \notin N
      BY <2>1, <1>1
    <3> QED BY <3>1, <3>2, <1>1, <1>4, <1>5
  <2>2. CASE t \notin N
    <3>1. accepting[t] # None
      BY <2>2, <1>1
    <3>2. /\ RequestOf(t) \in Range(pendingTaskRequests)
          /\ request[RequestOf(t)] = "waiting"
          /\ \A u \in Tasks : RequestOf(u) = RequestOf(t) /\ u # t =>
                accepting[u] = None /\ tasks[u] = None
          /\ RequestOf(t) \in acceptInProgress
      BY <3>1 DEF BrokerInv, AcceptFindsRequest
    <3>3. \A u \in Tasks : RequestOf(u) = RequestOf(t) => u \notin N
      BY <3>2, <1>1
    <3> QED BY <3>2, <3>3, <1>1, <1>3
  <2> QED BY <2>1, <2>2
<1>7. RequestIsTracked'
  <2> SUFFICES ASSUME NEW q \in Requests
               PROVE  /\ request'[q] = "waiting" =>
                            /\ q \in Range(requests)
                            /\ q \in acceptInProgress' =>
                                  \E t \in Tasks : RequestOf(t) = q /\ accepting'[t] # None
                      /\ request'[q] = "ready" =>
                            \E t \in Tasks : RequestOf(t) = q /\ tasks[t] # None
    BY <1>1 DEF RequestIsTracked
  <2>1. /\ request[q] = "waiting" =>
              /\ q \in Range(pendingTaskRequests)
              /\ q \in acceptInProgress =>
                    \E t \in Tasks : RequestOf(t) = q /\ accepting[t] # None
        /\ request[q] = "ready" => \E t \in Tasks : RequestOf(t) = q /\ tasks[t] # None
        /\ request[q] = "idle" => q \notin acceptInProgress
    BY DEF BrokerInv, RequestIsTracked
  <2>2. \A t \in Tasks : accepting[t] # None => accepting'[t] # None
    BY <1>1, <1>2
  <2>3. q \in acceptInProgress' =>
            \/ q \in acceptInProgress
            \/ \E t \in Tasks : RequestOf(t) = q /\ accepting'[t] # None
    BY <1>1, <1>2
  <2> QED BY <2>1, <2>2, <2>3
<1>8. TaskHasRunner'
  BY DEF BrokerInv, TaskHasRunner
<1>9. \A t \in Tasks : accepting'[t] # None => RequestOf(t) \in acceptInProgress'
  BY <1>1 DEF BrokerInv
<1>10. \A t \in Tasks : tasks'[t] # None =>
          /\ request'[RequestOf(t)] = "ready"
          /\ \A u \in Tasks : RequestOf(u) = RequestOf(t) /\ u # t => tasks'[u] = None
  BY <1>3 DEF BrokerInv
<1>11. ASSUME NEW q \in Requests
       PROVE  /\ q \in Range(requests) \ acceptInProgress' => request'[q] = "waiting"
              /\ request'[q] = "idle" => q \notin acceptInProgress'
  <2>1. q \in Range(requests) \ acceptInProgress' => request'[q] = "waiting"
    BY <1>1, <1>4
  <2>2. request'[q] = "idle" => q \notin acceptInProgress
    BY DEF BrokerInv
  <2>3. \A t \in N : request'[RequestOf(t)] = "waiting"
    BY <1>1, <1>3, <1>4
  <2> QED BY <2>1, <2>2, <2>3, <1>1
<1> QED BY <1>1, <1>6, <1>7, <1>8, <1>9, <1>10, <1>11 DEF BrokerInv

\* acceptOffer() gave up, and the list holds the request, maybe once more.
LEMMA GiveUpBroker ==
    ASSUME TypeOK, BrokerInv, NEW t \in Tasks, accepting[t] # None, GiveUp(t),
           UNCHANGED <<tasks, knownRunners, request>>,
           Range(pendingTaskRequests') \subseteq Range(pendingTaskRequests) \cup {RequestOf(t)},
           Range(pendingTaskRequests) \subseteq Range(pendingTaskRequests')
    PROVE  BrokerInv'
<1>1. /\ acceptInProgress' = acceptInProgress \ {RequestOf(t)}
      /\ accepting'[t] = None
      /\ \A u \in Tasks : u # t => accepting'[u] = accepting[u]
  BY DEF GiveUp, TypeOK
<1>2. /\ RequestOf(t) \in Requests
      /\ RequestOf(t) \in Range(pendingTaskRequests)
      /\ request[RequestOf(t)] = "waiting"
      /\ \A u \in Tasks : RequestOf(u) = RequestOf(t) /\ u # t =>
            accepting[u] = None /\ tasks[u] = None
  BY RequestOfTask DEF BrokerInv, AcceptFindsRequest
<1>3. Range(pendingTaskRequests') = Range(pendingTaskRequests)
  BY <1>2
<1>4. \A u \in Tasks : accepting'[u] # None => accepting[u] # None
  BY <1>1
<1>5. AcceptFindsRequest'
  <2>1. \A u \in Tasks : accepting[u] = None => accepting'[u] = None
    BY <1>4
  <2> QED BY <1>3, <1>4, <2>1 DEF BrokerInv, AcceptFindsRequest
<1>6. RequestIsTracked'
  <2>1. \A q \in Requests : q \in acceptInProgress' => q \in acceptInProgress /\ q # RequestOf(t)
    BY <1>1
  <2>2. \A q \in Requests : q # RequestOf(t) =>
            \A u \in Tasks : RequestOf(u) = q => accepting'[u] = accepting[u]
    BY <1>1
  <2> QED BY <1>3, <2>1, <2>2 DEF BrokerInv, RequestIsTracked
<1>7. TaskHasRunner'
  BY DEF BrokerInv, TaskHasRunner
<1>8. \A u \in Tasks : accepting'[u] # None => RequestOf(u) \in acceptInProgress'
  <2> SUFFICES ASSUME NEW u \in Tasks, accepting'[u] # None
               PROVE  RequestOf(u) \in acceptInProgress'
    OBVIOUS
  <2>1. u # t /\ accepting[u] # None
    BY <1>1
  <2>2. RequestOf(u) # RequestOf(t)
    BY <2>1, <1>2
  <2> QED BY <2>1, <2>2, <1>1 DEF BrokerInv
<1>9. \A u \in Tasks : tasks'[u] # None =>
          /\ request'[RequestOf(u)] = "ready"
          /\ \A v \in Tasks : RequestOf(v) = RequestOf(u) /\ v # u => tasks'[v] = None
  BY DEF BrokerInv
<1>10. \A q \in Requests :
          /\ q \in Range(pendingTaskRequests') \ acceptInProgress' => request'[q] = "waiting"
          /\ request'[q] = "idle" => q \notin acceptInProgress'
  BY <1>1, <1>2, <1>3 DEF BrokerInv
<1> QED BY <1>5, <1>6, <1>7, <1>8, <1>9, <1>10 DEF BrokerInv

\* Tasks T of some requests end with an answer to each.
LEMMA AnsweredBroker ==
    ASSUME TypeOK, BrokerInv, NEW T \in SUBSET Tasks,
           \A t \in T : tasks[t] # None,
           \A t \in Tasks : tasks'[t] = IF t \in T THEN None ELSE tasks[t],
           \A q \in Requests : request'[q] =
              IF \E t \in T : RequestOf(t) = q THEN "answered" ELSE request[q],
           \A t \in Tasks \ T : tasks[t] \in knownRunners => tasks[t] \in knownRunners',
           UNCHANGED <<pendingTaskRequests, acceptInProgress, accepting>>
    PROVE  BrokerInv'
<1>1. \A t \in Tasks : RequestOf(t) \in Requests
  BY RequestOfTask
<1>2. \A t \in T : request[RequestOf(t)] = "ready"
  BY DEF BrokerInv
<1>3. \A q \in Requests : request[q] # "ready" => request'[q] = request[q]
  BY <1>2
<1>4. \A q \in Requests : request'[q] # "answered" => request'[q] = request[q]
  OBVIOUS
<1>5. AcceptFindsRequest'
  <2>1. \A t \in Tasks : tasks[t] = None => tasks'[t] = None
    OBVIOUS
  <2> QED BY <1>1, <1>3, <2>1 DEF BrokerInv, AcceptFindsRequest
<1>6. RequestIsTracked'
  <2> SUFFICES ASSUME NEW q \in Requests
               PROVE  /\ request'[q] = "waiting" =>
                            /\ q \in Range(pendingTaskRequests)
                            /\ q \in acceptInProgress =>
                                  \E t \in Tasks : RequestOf(t) = q /\ accepting[t] # None
                      /\ request'[q] = "ready" =>
                            \E t \in Tasks : RequestOf(t) = q /\ tasks'[t] # None
    BY DEF RequestIsTracked
  <2>1. request'[q] = "waiting" => request[q] = "waiting"
    BY <1>4
  <2>2. ASSUME request'[q] = "ready"
        PROVE  \E t \in Tasks : RequestOf(t) = q /\ tasks'[t] # None
    <3>1. request[q] = "ready" /\ \A t \in T : RequestOf(t) # q
      BY <2>2
    <3>2. PICK t \in Tasks : RequestOf(t) = q /\ tasks[t] # None
      BY <3>1 DEF BrokerInv, RequestIsTracked
    <3> QED BY <3>1, <3>2
  <2> QED BY <2>1, <2>2 DEF BrokerInv, RequestIsTracked
<1>7. TaskHasRunner'
  BY DEF BrokerInv, TaskHasRunner
<1>8. \A t \in Tasks : tasks'[t] # None =>
          /\ request'[RequestOf(t)] = "ready"
          /\ \A u \in Tasks : RequestOf(u) = RequestOf(t) /\ u # t => tasks'[u] = None
  <2> SUFFICES ASSUME NEW t \in Tasks, tasks'[t] # None
               PROVE  /\ request'[RequestOf(t)] = "ready"
                      /\ \A u \in Tasks : RequestOf(u) = RequestOf(t) /\ u # t => tasks'[u] = None
    OBVIOUS
  <2>1. t \notin T /\ tasks[t] # None
    OBVIOUS
  <2>2. /\ request[RequestOf(t)] = "ready"
        /\ \A u \in Tasks : RequestOf(u) = RequestOf(t) /\ u # t => tasks[u] = None
    BY <2>1 DEF BrokerInv
  <2>3. \A u \in T : RequestOf(u) # RequestOf(t)
    BY <2>1, <2>2
  <2> QED BY <2>2, <2>3, <1>1
<1>9. \A q \in Requests :
          /\ q \in Range(pendingTaskRequests) \ acceptInProgress => request'[q] = "waiting"
          /\ request'[q] = "idle" => q \notin acceptInProgress
  BY <1>3, <1>4 DEF BrokerInv
<1> QED BY <1>5, <1>6, <1>7, <1>8, <1>9 DEF BrokerInv

-----------------------------------------------------------------------------
(* What a step does to the messages under way                              *)

\* A message of this type was under way to its runner before, at most one place behind.
Moved(type) ==
    \E d \in [Runners -> {0, 1}] : \A r \in Runners : \A i \in 1..Len(toRunner'[r]) :
        toRunner'[r][i].type = type =>
            i + d[r] \in 1..Len(toRunner[r]) /\ toRunner'[r][i] = toRunner[r][i + d[r]]

\* An accept was under way to the broker before.
AcceptedKept ==
    \A r \in Runners : \A i \in 1..Len(toBroker'[r]) : toBroker'[r][i].type = "taskaccepted" =>
        \E j \in 1..Len(toBroker[r]) : toBroker[r][j] = toBroker'[r][i]

\* Messages that keep their places have moved in the sense above.
LEMMA Unmoved ==
    ASSUME NEW type,
           \A r \in Runners : \A i \in 1..Len(toRunner'[r]) : toRunner'[r][i].type = type =>
              i \in 1..Len(toRunner[r]) /\ toRunner'[r][i] = toRunner[r][i]
    PROVE  Moved(type)
<1> DEFINE d == [r \in Runners |-> 0]
<1>1. d \in [Runners -> {0, 1}]
  OBVIOUS
<1>2. \A r \in Runners : \A i \in 1..Len(toRunner'[r]) : i + d[r] = i
  OBVIOUS
<1> HIDE DEF d
<1> QED BY <1>1, <1>2 DEF Moved

\* So have those of a channel whose first message was taken ...
LEMMA MovedByOne ==
    ASSUME TypeOK, NEW r \in Runners, NEW received, RunnerReceived(r, received), NEW type,
           toRunner' = PopFrom(toRunner, r)
    PROVE  Moved(type)
<1> DEFINE d == [s \in Runners |-> IF s = r THEN 1 ELSE 0]
<1>1. d \in [Runners -> {0, 1}] /\ d[r] = 1 /\ \A s \in Runners : s # r => d[s] = 0
  OBVIOUS
<1> HIDE DEF d
<1>2. /\ \A s \in Runners : s # r => toRunner'[s] = toRunner[s]
      /\ \A i \in 1..Len(toRunner'[r]) :
            i + 1 \in 1..Len(toRunner[r]) /\ toRunner'[r][i] = toRunner[r][i + 1]
  BY RunnerReceivedMessage
<1>3. ASSUME NEW s \in Runners, NEW i \in 1..Len(toRunner'[s])
      PROVE  i + d[s] \in 1..Len(toRunner[s]) /\ toRunner'[s][i] = toRunner[s][i + d[s]]
  <2>1. CASE s = r
    BY <2>1, <1>1, <1>2
  <2>2. CASE s # r
    <3>1. i + d[s] = i
      BY <2>2, <1>1
    <3> QED BY <2>2, <3>1, <1>2
  <2> QED BY <2>1, <2>2
<1> QED BY <1>1, <1>3 DEF Moved

\* ... and those of a channel that gets a message of another type.
LEMMA MovedBySend ==
    ASSUME TypeOK, NEW r \in Runners, NEW m \in BrokerMessage, NEW type, m.type # type,
           toRunner' = SendTo(r, <<m>>)
    PROVE  Moved(type)
BY SentMessage, Unmoved

\* The messages for r are gone.
LEMMA MovedByLoss ==
    ASSUME NEW r \in Runners, NEW type, Len(toRunner'[r]) = 0,
           \A s \in Runners : s # r => toRunner'[s] = toRunner[s]
    PROVE  Moved(type)
<1>1. ASSUME NEW s \in Runners, NEW i \in 1..Len(toRunner'[s])
      PROVE  i \in 1..Len(toRunner[s]) /\ toRunner'[s][i] = toRunner[s][i]
  <2>1. s # r
    <3>1. 1..0 = {}
      OBVIOUS
    <3> QED BY <3>1
  <2> QED BY <2>1
<1> QED BY <1>1, Unmoved

\* settleTasks() sends no settings.
LEMMA MovedBySettle ==
    ASSUME TypeOK, NEW offers \in Seq(TaskOffer), NEW requests \in Seq(Requests),
           SettleTasks(offers, requests)
    PROVE  Moved("tasksettings")
<1>1. PICK N : Settled(N, requests)
  BY SettleEffect
<1>2. \A r \in Runners : Len(toRunner[r]) \in Nat
  BY LenProperties DEF TypeOK
<1>3. ASSUME NEW r \in Runners, NEW i \in 1..Len(toRunner'[r]),
             toRunner'[r][i].type = "tasksettings"
      PROVE  i \in 1..Len(toRunner[r]) /\ toRunner'[r][i] = toRunner[r][i]
  BY <1>1, <1>2, <1>3 DEF Settled, AcceptsSent
<1> QED BY <1>3, Unmoved

\* finishTask() sends no accept.
LEMMA KeptByFinish ==
    ASSUME TypeOK, NEW r \in Runners, NEW t \in Tasks, NEW messages \in Seq(RunnerMessage),
           \A j \in 1..Len(messages) : messages[j].type # "taskaccepted",
           FinishTask(r, t, messages)
    PROVE  AcceptedKept
<1>1. openOffers[r] \in SUBSET Offers
  BY DEF TypeOK
<1>2. IsFiniteSet(Running(r) \ {t})
  BY TasksFinite, FS_Subset DEF Running
<1>3. SendOffers(r, messages, openOffers[r], Running(r) \ {t})
  BY DEF FinishTask
<1>4. /\ \A s \in Runners : s # r => toBroker'[s] = toBroker[s]
      /\ \A i \in 1..Len(toBroker'[r]) :
            \/ i \in 1..Len(toBroker[r]) /\ toBroker'[r][i] = toBroker[r][i]
            \/ \E j \in 1..Len(messages) : toBroker'[r][i] = messages[j]
            \/ toBroker'[r][i].type = "taskoffer"
  BY <1>1, <1>2, <1>3, SendOffersEffect
<1> QED BY <1>4 DEF AcceptedKept

\* The message at the end of a task is not an accept.
LEMMA EndedMessages ==
    ASSUME NEW t \in Tasks
    PROVE  /\ <<Message("taskended", t)>> \in Seq(RunnerMessage)
           /\ \A j \in 1..Len(<<Message("taskended", t)>>) :
                 <<Message("taskended", t)>>[j].type # "taskaccepted"
<1>1. Message("taskended", t) \in RunnerMessage /\ Message("taskended", t).type = "taskended"
  BY DEF Message, RunnerMessage
<1> DEFINE m == Message("taskended", t)
<1> HIDE DEF m
<1>2. Len(<<m>>) = 1 /\ <<m>>[1] = m
  OBVIOUS
<1>3. \A j \in 1..Len(<<m>>) : j = 1
  BY <1>2
<1>4. \A j \in 1..Len(<<m>>) : <<m>>[j].type # "taskaccepted"
  BY <1>1, <1>2, <1>3 DEF m
<1>5. <<m>> \in Seq(RunnerMessage)
  BY <1>1 DEF m
<1> QED BY <1>4, <1>5 DEF m

\* Settings and accepts of the broker come to the channels in three actions only.
LEMMA MoveCases ==
    ASSUME TypeOK, [Next]_vars, NEW type \in {"tasksettings", "taskofferaccept"}
    PROVE  \/ Moved(type)
           \/ \E q \in Requests : RequestTask(q)
           \/ \E r \in Runners : TaskOffered(r) \/ HandleRunnerAccept(r)
<1>1. ASSUME UNCHANGED toRunner
      PROVE  Moved(type)
  BY <1>1, Unmoved
<1>4. ASSUME NEW t \in Tasks, HandleTaskTimeout(t)
      PROVE  Moved(type)
  <2>1. tasks[t] \in Runners
    BY <1>4 DEF HandleTaskTimeout, TypeOK
  <2>2. /\ Message("taskcancel", t) \in BrokerMessage
        /\ Message("taskcancel", t).type # type
    BY DEF Message, BrokerMessage
  <2>3. CASE toRunner' = SendTo(tasks[t], <<Message("taskcancel", t)>>)
    BY <2>1, <2>2, <2>3, MovedBySend
  <2>4. ASSUME NEW r \in Runners, NEW n \in 0..Len(toBroker[r]), Lose(r, n)
        PROVE  Moved(type)
    BY <2>4, LoseEffect, MovedByLoss
  <2> QED BY <1>1, <1>4, <2>3, <2>4 DEF HandleTaskTimeout
<1>5. ASSUME NEW r \in Runners, RegisterRunner(r)
      PROVE  Moved(type)
  <2> DEFINE m == [type |-> "runnerregistered"]
  <2>1. m \in BrokerMessage /\ m.type # type
    BY DEF BrokerMessage
  <2>2. toRunner' = [toRunner EXCEPT ![r] = <<m>>]
    BY <1>5 DEF RegisterRunner
  <2> HIDE DEF m
  <2>3. toRunner'[r] = <<m>> /\ \A s \in Runners : s # r => toRunner'[s] = toRunner[s]
    BY <2>2 DEF TypeOK
  <2>4. Len(<<m>>) = 1 /\ <<m>>[1] = m
    OBVIOUS
  <2>5. \A i \in 1..Len(toRunner'[r]) : toRunner'[r][i] = m
    BY <2>3, <2>4
  <2> QED BY <2>1, <2>3, <2>5, Unmoved
<1>6. ASSUME NEW r \in Runners, DeregisterRunner(r)
      PROVE  Moved(type)
  <2>1. Len(<<>>) = 0
    OBVIOUS
  <2>2. toRunner'[r] = <<>> /\ \A s \in Runners : s # r => toRunner'[s] = toRunner[s]
    BY <1>6 DEF DeregisterRunner, TypeOK
  <2> QED BY <2>1, <2>2, MovedByLoss
<1>7. ASSUME NEW r \in Runners, RunnerStep(r)
      PROVE  Moved(type)
  <2>1. toRunner' = PopFrom(toRunner, r)
    BY <1>7 DEF RunnerStep, StartTaskOffers, OfferAccepted, DeferTask, ReceivedSettings,
                TaskCancelled
  <2>2. \E received : RunnerReceived(r, received)
    BY <1>7 DEF RunnerStep, StartTaskOffers, OfferAccepted, DeferTask, ReceivedSettings,
                TaskCancelled
  <2> QED BY <2>1, <2>2, MovedByOne
<1>8. ASSUME NEW r \in Runners, Break(r)
      PROVE  Moved(type)
  BY <1>8, LoseEffect, MovedByLoss DEF Break
<1> QED
  BY <1>1, <1>4, <1>5, <1>6, <1>7, <1>8
  DEF Next, BrokerStep, vars, OfferExpires, AcceptTimesOut, HandleRunnerReject,
      HandleRunnerDeferred, TaskEnded, OfferInterval, TaskTimedOut, ExecutionEnds

\* Settings come from sendTaskSettings() alone.
LEMMA SettingsMove ==
    ASSUME TypeOK, [Next]_vars
    PROVE  Moved("tasksettings") \/ \E r \in Runners : HandleRunnerAccept(r)
<1>1. ASSUME NEW q \in Requests, RequestTask(q)
      PROVE  Moved("tasksettings")
  <2>1. Append(pendingTaskRequests, q) \in Seq(Requests) /\ pendingTaskOffers \in Seq(TaskOffer)
    BY AppendProperties DEF TypeOK
  <2> QED BY <1>1, <2>1, MovedBySettle DEF RequestTask
<1>2. ASSUME NEW r \in Runners, TaskOffered(r)
      PROVE  Moved("tasksettings")
  <2> DEFINE offer == [runner |-> r, offerId |-> Head(toBroker[r]).offerId, valid |-> TRUE]
  <2>1. Head(toBroker[r]).offerId \in Offers
    BY <1>2, ReceivedMessage DEF TaskOffered
  <2>2. offer \in TaskOffer
    BY <2>1 DEF TaskOffer
  <2>3. SettleTasks(Append(pendingTaskOffers, offer), pendingTaskRequests)
    BY <1>2 DEF TaskOffered
  <2> HIDE DEF offer
  <2>4. Append(pendingTaskOffers, offer) \in Seq(TaskOffer) /\ pendingTaskRequests \in Seq(Requests)
    BY <2>2, AppendProperties DEF TypeOK
  <2> QED BY <2>3, <2>4, MovedBySettle
<1> QED BY <1>1, <1>2, MoveCases

\* Accepts of the broker come from settleTasks() alone.
LEMMA OffersMove ==
    ASSUME TypeOK, [Next]_vars
    PROVE  \/ Moved("taskofferaccept")
           \/ \E q \in Requests : RequestTask(q)
           \/ \E r \in Runners : TaskOffered(r)
<1>1. ASSUME NEW r \in Runners, HandleRunnerAccept(r)
      PROVE  Moved("taskofferaccept")
  <2> DEFINE t == Head(toBroker[r]).taskId
             m == Message("tasksettings", t)
  <2>1. t \in Tasks
    BY <1>1, ReceivedMessage DEF HandleRunnerAccept
  <2>2. m \in BrokerMessage /\ m.type # "taskofferaccept"
    BY <2>1 DEF Message, BrokerMessage
  <2>3. CASE toRunner' = toRunner
    BY <2>3, Unmoved
  <2>4. CASE accepting[t] # None /\ toRunner' = SendTo(accepting[t], <<m>>)
    <3>1. accepting[t] \in Runners
      BY <2>1, <2>4 DEF TypeOK
    <3> HIDE DEF m
    <3> QED BY <2>2, <2>4, <3>1, MovedBySend
  <2> QED BY <1>1, <2>3, <2>4 DEF HandleRunnerAccept
<1> QED BY <1>1, MoveCases

\* Accepts of a runner come from offerAccepted() alone.
LEMMA AcceptedStep ==
    ASSUME TypeOK, [Next]_vars
    PROVE  AcceptedKept \/ \E r \in Runners : OfferAccepted(r)
<1>1. ASSUME UNCHANGED toBroker
      PROVE  AcceptedKept
  BY <1>1 DEF AcceptedKept
<1>2. ASSUME NEW r \in Runners, NEW type, Received(r, type), toBroker' = PopFrom(toBroker, r)
      PROVE  AcceptedKept
  <2>1. \A s \in Runners : \A i \in 1..Len(toBroker'[s]) :
            \E j \in 1..Len(toBroker[s]) : toBroker'[s][i] = toBroker[s][j]
    BY <1>2, ReceivedMessage
  <2> QED BY <2>1 DEF AcceptedKept
<1>3. ASSUME NEW r \in Runners, NEW n \in 0..Len(toBroker[r]), Lose(r, n)
      PROVE  AcceptedKept
  <2>1. \A s \in Runners : \A i \in 1..Len(toBroker'[s]) :
            i \in 1..Len(toBroker[s]) /\ toBroker'[s][i] = toBroker[s][i]
    BY <1>3, LoseEffect
  <2> QED BY <2>1 DEF AcceptedKept
<1>4. ASSUME NEW r \in Runners, DeregisterRunner(r)
      PROVE  AcceptedKept
  <2>1. Len(<<>>) = 0 /\ 1..0 = {}
    OBVIOUS
  <2>2. toBroker'[r] = <<>> /\ \A s \in Runners : s # r => toBroker'[s] = toBroker[s]
    BY <1>4 DEF DeregisterRunner, TypeOK
  <2> QED BY <2>1, <2>2 DEF AcceptedKept
<1>5. ASSUME NEW r \in Runners, DeferTask(r)
      PROVE  AcceptedKept
  <2> DEFINE m == Message("taskdeferred", Head(toRunner[r]).taskId)
  <2>1. Head(toRunner[r]).taskId \in Tasks
    BY <1>5, RunnerReceivedMessage DEF DeferTask
  <2>2. m \in RunnerMessage /\ m.type = "taskdeferred"
    BY <2>1 DEF Message, RunnerMessage
  <2>3. toBroker' = [toBroker EXCEPT ![r] = Append(@, m)]
    BY <1>5 DEF DeferTask
  <2> HIDE DEF m
  <2>4. toBroker \in [Runners -> Seq(RunnerMessage)]
    BY DEF TypeOK
  <2>5. HasAdded(RunnerMessage, toBroker, r, m, toBroker')
    BY <2>2, <2>3, <2>4, AddedOne
  <2>6. /\ \A s \in Runners : s # r => toBroker'[s] = toBroker[s]
        /\ \A i \in 1..Len(toBroker[r]) : toBroker'[r][i] = toBroker[r][i]
        /\ \A i \in 1..Len(toBroker'[r]) : i \notin 1..Len(toBroker[r]) => toBroker'[r][i] = m
    BY <2>5 DEF HasAdded
  <2> QED BY <2>2, <2>6 DEF AcceptedKept
<1>6. ASSUME NEW r \in Runners, NEW t \in Tasks, FinishTask(r, t, <<>>)
      PROVE  AcceptedKept
  <2>1. <<>> \in Seq(RunnerMessage) /\ Len(<<>>) = 0 /\ 1..0 = {}
    OBVIOUS
  <2>2. \A j \in 1..Len(<<>>) : <<>>[j].type # "taskaccepted"
    BY <2>1
  <2> QED BY <1>6, <2>1, <2>2, KeptByFinish
<1>7. ASSUME NEW r \in Runners, NEW t \in Tasks, FinishTask(r, t, <<Message("taskended", t)>>)
      PROVE  AcceptedKept
  BY <1>7, EndedMessages, KeptByFinish
<1>8. ASSUME NEW r \in Runners, OfferInterval(r)
      PROVE  AcceptedKept
  <2>1. <<>> \in Seq(RunnerMessage) /\ Len(<<>>) = 0 /\ 1..0 = {}
    OBVIOUS
  <2>2. openOffers[r] \in SUBSET Offers
    BY DEF TypeOK
  <2>3. IsFiniteSet(Running(r))
    BY RunnerSetsFinite
  <2>4. SendOffers(r, <<>>, openOffers[r], Running(r))
    BY <1>8 DEF OfferInterval
  <2>5. /\ \A s \in Runners : s # r => toBroker'[s] = toBroker[s]
        /\ \A i \in 1..Len(toBroker'[r]) :
              \/ i \in 1..Len(toBroker[r]) /\ toBroker'[r][i] = toBroker[r][i]
              \/ \E j \in 1..Len(<<>>) : toBroker'[r][i] = <<>>[j]
              \/ toBroker'[r][i].type = "taskoffer"
    BY <2>1, <2>2, <2>3, <2>4, SendOffersEffect
  <2>6. \A i \in 1..Len(toBroker'[r]) :
            \/ i \in 1..Len(toBroker[r]) /\ toBroker'[r][i] = toBroker[r][i]
            \/ toBroker'[r][i].type = "taskoffer"
    BY <2>1, <2>5
  <2> QED BY <2>5, <2>6 DEF AcceptedKept
<1>9. ASSUME NEW r \in Runners, BrokerStep(r)
      PROVE  AcceptedKept
  <2>1. toBroker' = PopFrom(toBroker, r)
    BY <1>9 DEF BrokerStep, TaskOffered, HandleRunnerAccept, HandleRunnerReject,
                HandleRunnerDeferred, TaskEnded
  <2>2. \E type : Received(r, type)
    BY <1>9 DEF BrokerStep, TaskOffered, HandleRunnerAccept, HandleRunnerReject,
                HandleRunnerDeferred, TaskEnded
  <2> QED BY <2>1, <2>2, <1>2
<1>10. ASSUME NEW r \in Runners, TaskCancelled(r)
       PROVE  AcceptedKept
  <2>1. Head(toRunner[r]).taskId \in Tasks
    BY <1>10, RunnerReceivedMessage DEF TaskCancelled
  <2> QED BY <1>1, <1>6, <1>10, <2>1 DEF TaskCancelled
<1>11. ASSUME NEW r \in Runners, NEW t \in Tasks, TaskTimedOut(r, t) \/ ExecutionEnds(r, t)
       PROVE  AcceptedKept
  BY <1>1, <1>6, <1>7, <1>11 DEF TaskTimedOut, ExecutionEnds
<1>12. ASSUME NEW t \in Tasks, HandleTaskTimeout(t)
       PROVE  AcceptedKept
  BY <1>1, <1>3, <1>12 DEF HandleTaskTimeout
<1>13. ASSUME NEW r \in Runners, Break(r)
       PROVE  AcceptedKept
  BY <1>3, <1>13 DEF Break
<1> QED
  BY <1>1, <1>4, <1>5, <1>8, <1>9, <1>10, <1>11, <1>12, <1>13
  DEF Next, RunnerStep, vars, RequestTask, OfferExpires, AcceptTimesOut, RegisterRunner,
      StartTaskOffers, ReceivedSettings

-----------------------------------------------------------------------------
(* Accepts under way                                                       *)

\* The two callers of settleTasks() begin exchanges as it does.
LEMMA SettleStep ==
    ASSUME TypeOK
    PROVE  /\ \A q \in Requests : RequestTask(q) =>
                 \E N : Settled(N, Append(pendingTaskRequests, q))
           /\ \A r \in Runners : TaskOffered(r) => \E N : Settled(N, pendingTaskRequests)
<1>1. ASSUME NEW q \in Requests, RequestTask(q)
      PROVE  \E N : Settled(N, Append(pendingTaskRequests, q))
  <2>1. Append(pendingTaskRequests, q) \in Seq(Requests) /\ pendingTaskOffers \in Seq(TaskOffer)
    BY AppendProperties DEF TypeOK
  <2> QED BY <1>1, <2>1, SettleEffect DEF RequestTask
<1>2. ASSUME NEW r \in Runners, TaskOffered(r)
      PROVE  \E N : Settled(N, pendingTaskRequests)
  <2> DEFINE offer == [runner |-> r, offerId |-> Head(toBroker[r]).offerId, valid |-> TRUE]
  <2>1. Head(toBroker[r]).offerId \in Offers
    BY <1>2, ReceivedMessage DEF TaskOffered
  <2>2. offer \in TaskOffer
    BY <2>1 DEF TaskOffer
  <2>3. SettleTasks(Append(pendingTaskOffers, offer), pendingTaskRequests)
    BY <1>2 DEF TaskOffered
  <2> HIDE DEF offer
  <2>4. Append(pendingTaskOffers, offer) \in Seq(TaskOffer) /\ pendingTaskRequests \in Seq(Requests)
    BY <2>2, AppendProperties DEF TypeOK
  <2> QED BY <2>3, <2>4, SettleEffect
<1> QED BY <1>1, <1>2

\* Where no accept is new and no exchange begins, accepts stay with their runners.
LEMMA AcceptsKept ==
    ASSUME TypeOK, AcceptsInv, Moved("taskofferaccept"), AcceptedKept,
           \A t \in Tasks : accepting'[t] \in {accepting[t], None}
    PROVE  AcceptsInv'
<1>1. ASSUME NEW r \in Runners, NEW i \in 1..Len(toRunner'[r]),
             toRunner'[r][i].type = "taskofferaccept"
      PROVE  accepting'[toRunner'[r][i].taskId] \in {None, r}
  <2>1. PICK j \in 1..Len(toRunner[r]) : toRunner'[r][i] = toRunner[r][j]
    BY <1>1 DEF Moved
  <2>2. toRunner[r][j] \in BrokerMessage
    BY ElementOfSeq DEF TypeOK
  <2>3. toRunner[r][j].taskId \in Tasks
    BY <1>1, <2>1, <2>2, MessageFields
  <2> QED BY <1>1, <2>1, <2>3 DEF AcceptsInv
<1>2. ASSUME NEW r \in Runners, NEW i \in 1..Len(toBroker'[r]),
             toBroker'[r][i].type = "taskaccepted"
      PROVE  accepting'[toBroker'[r][i].taskId] \in {None, r}
  <2>1. PICK j \in 1..Len(toBroker[r]) : toBroker'[r][i] = toBroker[r][j]
    BY <1>2 DEF AcceptedKept
  <2>2. toBroker[r][j] \in RunnerMessage
    BY ElementOfSeq DEF TypeOK
  <2>3. toBroker[r][j].taskId \in Tasks
    BY <1>2, <2>1, <2>2, MessageFields
  <2> QED BY <1>2, <2>1, <2>3 DEF AcceptsInv
<1> QED BY <1>1, <1>2 DEF AcceptsInv

\* The task id of a new exchange is in no old message.
LEMMA SettledAccepts ==
    ASSUME TypeOK, AcceptsInv, NEW N, NEW requests, Settled(N, requests), AcceptedKept
    PROVE  AcceptsInv'
<1>1. /\ N \subseteq Tasks
      /\ \A t \in N : Unused(t)
      /\ \A t \in Tasks : t \notin N => accepting'[t] = accepting[t]
  BY DEF Settled, Fresh
<1>2. ASSUME NEW r \in Runners, NEW i \in 1..Len(toRunner'[r]),
             toRunner'[r][i].type = "taskofferaccept"
      PROVE  accepting'[toRunner'[r][i].taskId] \in {None, r}
  <2>1. Len(toRunner[r]) \in Nat /\ Len(toRunner'[r]) \in Nat
    BY LenProperties DEF TypeOK, Settled, AcceptsSent
  <2>2. CASE i <= Len(toRunner[r])
    <3>1. i \in 1..Len(toRunner[r]) /\ toRunner'[r][i] = toRunner[r][i]
      BY <2>1, <2>2 DEF Settled, AcceptsSent
    <3>2. toRunner[r][i] \in BrokerMessage /\ toRunner[r][i] \in Range(toRunner[r])
      BY <3>1, ElementOfSeq, LenProperties DEF TypeOK, Range
    <3>3. toRunner[r][i].taskId \in Tasks
      BY <1>2, <3>1, <3>2, MessageFields
    <3>4. toRunner[r][i].taskId \notin N
      BY <1>1, <1>2, <3>1, <3>2 DEF Unused
    <3> QED BY <1>1, <1>2, <3>1, <3>3, <3>4 DEF AcceptsInv
  <2>3. CASE ~(i <= Len(toRunner[r]))
    BY <2>3 DEF Settled, AcceptsSent
  <2> QED BY <2>2, <2>3
<1>3. ASSUME NEW r \in Runners, NEW i \in 1..Len(toBroker'[r]),
             toBroker'[r][i].type = "taskaccepted"
      PROVE  accepting'[toBroker'[r][i].taskId] \in {None, r}
  <2>1. PICK j \in 1..Len(toBroker[r]) : toBroker'[r][i] = toBroker[r][j]
    BY <1>3 DEF AcceptedKept
  <2>2. toBroker[r][j] \in RunnerMessage /\ toBroker[r][j] \in Range(toBroker[r])
    BY ElementOfSeq, LenProperties DEF TypeOK, Range
  <2>3. toBroker[r][j].taskId \in Tasks
    BY <1>3, <2>1, <2>2, MessageFields
  <2>4. toBroker[r][j].taskId \notin N
    BY <1>1, <1>3, <2>1, <2>2 DEF Unused
  <2> QED BY <1>1, <1>3, <2>1, <2>3, <2>4 DEF AcceptsInv
<1> QED BY <1>2, <1>3 DEF AcceptsInv

\* The runner's accept belongs to the exchange of the broker's.
LEMMA OfferAcceptedAccepts ==
    ASSUME TypeOK, AcceptsInv, NEW r \in Runners, OfferAccepted(r)
    PROVE  AcceptsInv'
<1> DEFINE t == Head(toRunner[r]).taskId
<1>1. /\ t \in Tasks
      /\ 1 \in 1..Len(toRunner[r])
      /\ toRunner[r][1] = Head(toRunner[r]) /\ toRunner[r][1].type = "taskofferaccept"
  BY RunnerReceivedMessage DEF OfferAccepted
<1>2. accepting[t] \in {None, r} /\ accepting' = accepting
  BY <1>1 DEF AcceptsInv, OfferAccepted, matching
<1>3. PICK type \in {"taskaccepted", "taskrejected"} :
          toBroker' = [toBroker EXCEPT ![r] = Append(@, Message(type, t))]
  BY DEF OfferAccepted
<1> DEFINE m == Message(type, t)
<1>4. m \in RunnerMessage /\ m.taskId = t
  BY <1>1 DEF Message, RunnerMessage
<1>5. toBroker' = [toBroker EXCEPT ![r] = Append(@, m)]
  BY <1>3
<1> HIDE DEF m, t
<1>6. HasAdded(RunnerMessage, toBroker, r, m, toBroker')
  BY <1>4, <1>5, AddedOne DEF TypeOK
<1>7. /\ \A s \in Runners : s # r => toBroker'[s] = toBroker[s]
      /\ \A i \in 1..Len(toBroker[r]) : toBroker'[r][i] = toBroker[r][i]
      /\ \A i \in 1..Len(toBroker'[r]) : i \notin 1..Len(toBroker[r]) => toBroker'[r][i] = m
  BY <1>6 DEF HasAdded
<1>8. Moved("taskofferaccept")
  BY MovedByOne DEF OfferAccepted
<1>9. ASSUME NEW s \in Runners, NEW i \in 1..Len(toRunner'[s]),
             toRunner'[s][i].type = "taskofferaccept"
      PROVE  accepting'[toRunner'[s][i].taskId] \in {None, s}
  <2>1. PICK j \in 1..Len(toRunner[s]) : toRunner'[s][i] = toRunner[s][j]
    BY <1>8, <1>9 DEF Moved
  <2> QED BY <1>2, <1>9, <2>1 DEF AcceptsInv
<1>10. ASSUME NEW s \in Runners, NEW i \in 1..Len(toBroker'[s]),
              toBroker'[s][i].type = "taskaccepted"
       PROVE  accepting'[toBroker'[s][i].taskId] \in {None, s}
  <2>1. CASE s = r /\ i \notin 1..Len(toBroker[r])
    BY <2>1, <1>2, <1>4, <1>7
  <2>2. CASE i \in 1..Len(toBroker[s]) /\ toBroker'[s][i] = toBroker[s][i]
    BY <1>2, <1>10, <2>2 DEF AcceptsInv
  <2> QED BY <2>1, <2>2, <1>7
<1> QED BY <1>9, <1>10 DEF AcceptsInv

\* Exchanges begin in settleTasks() alone.
LEMMA AcceptingStep ==
    ASSUME TypeOK, [Next]_vars
    PROVE  \/ \A t \in Tasks : accepting'[t] \in {accepting[t], None}
           \/ \E q \in Requests : RequestTask(q)
           \/ \E r \in Runners : TaskOffered(r)
<1>1. ASSUME UNCHANGED accepting
      PROVE  \A t \in Tasks : accepting'[t] \in {accepting[t], None}
  BY <1>1
<1>2. ASSUME NEW t \in Tasks, accepting' = [accepting EXCEPT ![t] = None]
      PROVE  \A u \in Tasks : accepting'[u] \in {accepting[u], None}
  BY <1>2 DEF TypeOK
<1>3. ASSUME NEW r \in Runners,
             HandleRunnerAccept(r) \/ HandleRunnerReject(r) \/ HandleRunnerDeferred(r)
      PROVE  \A t \in Tasks : accepting'[t] \in {accepting[t], None}
  <2>1. Head(toBroker[r]).taskId \in Tasks
    BY <1>3, ReceivedMessage DEF HandleRunnerAccept, HandleRunnerReject, HandleRunnerDeferred
  <2> QED BY <1>1, <1>2, <1>3, <2>1 DEF HandleRunnerAccept, HandleRunnerReject,
                                        HandleRunnerDeferred, GiveUp, matching
<1>4. ASSUME NEW t \in Tasks, AcceptTimesOut(t)
      PROVE  \A u \in Tasks : accepting'[u] \in {accepting[u], None}
  BY <1>2, <1>4 DEF AcceptTimesOut, GiveUp
<1> QED
  BY <1>1, <1>3, <1>4
  DEF Next, BrokerStep, RunnerStep, vars, matching, OfferExpires, RegisterRunner, DeregisterRunner,
      TaskEnded, HandleTaskTimeout, StartTaskOffers, OfferInterval, OfferAccepted, DeferTask,
      ReceivedSettings, TaskCancelled, TaskTimedOut, ExecutionEnds, Break

\* Every step keeps the accepts with the runners of their exchanges.
LEMMA AcceptsStep ==
    ASSUME TypeOK, AcceptsInv, [Next]_vars
    PROVE  AcceptsInv'
<1>1. ASSUME NEW N, NEW requests, Settled(N, requests),
             \/ \E q \in Requests : RequestTask(q)
             \/ \E r \in Runners : TaskOffered(r)
      PROVE  AcceptsInv'
  <2>1. ASSUME NEW q \in Requests, RequestTask(q)
        PROVE  AcceptedKept
    BY <2>1 DEF RequestTask, AcceptedKept
  <2>2. ASSUME NEW r \in Runners, TaskOffered(r)
        PROVE  AcceptedKept
    <3>1. Received(r, "taskoffer") /\ toBroker' = PopFrom(toBroker, r)
      BY <2>2 DEF TaskOffered
    <3>2. \A s \in Runners : \A i \in 1..Len(toBroker'[s]) :
              \E j \in 1..Len(toBroker[s]) : toBroker'[s][i] = toBroker[s][j]
      BY <3>1, ReceivedMessage
    <3> QED BY <3>2 DEF AcceptedKept
  <2> QED BY <1>1, <2>1, <2>2, SettledAccepts
<1>2. CASE \/ \E q \in Requests : RequestTask(q)
           \/ \E r \in Runners : TaskOffered(r)
  <2>1. \E requests : \E N : Settled(N, requests)
    BY <1>2, SettleStep
  <2> QED BY <1>1, <1>2, <2>1
<1>3. CASE ~ \/ \E q \in Requests : RequestTask(q)
             \/ \E r \in Runners : TaskOffered(r)
  BY <1>3, OffersMove, AcceptedStep, AcceptingStep, AcceptsKept, OfferAcceptedAccepts
<1> QED BY <1>2, <1>3

\* Steps that leave the lists alone, or only get to know a runner, keep the agreement.
LEMMA SameBroker ==
    ASSUME BrokerInv, knownRunners \subseteq knownRunners',
           UNCHANGED <<pendingTaskRequests, acceptInProgress, accepting, tasks, request>>
    PROVE  BrokerInv'
BY DEF BrokerInv, AcceptFindsRequest, RequestIsTracked, TaskHasRunner

\* taskRequested() keeps the lists in agreement.
LEMMA RequestedBroker ==
    ASSUME TypeOK, BrokerInv, NEW q \in Requests, RequestTask(q)
    PROVE  BrokerInv'
<1> DEFINE requests == Append(pendingTaskRequests, q)
<1>1. requests \in Seq(Requests) /\ Range(requests) = Range(pendingTaskRequests) \cup {q}
  BY AppendRange DEF TypeOK
<1>2. PICK N : Settled(N, requests)
  BY SettleStep
<1>3. /\ request[q] = "idle" /\ request'[q] = "waiting"
      /\ \A p \in Requests : p # q => request'[p] = request[p]
      /\ UNCHANGED <<tasks, knownRunners>>
  BY DEF RequestTask, TypeOK
<1> HIDE DEF requests
<1>4. Range(pendingTaskRequests) \subseteq Range(requests)
  BY <1>1
<1>5. \A p \in Requests : \/ request'[p] = request[p]
                          \/ /\ request[p] = "idle" /\ request'[p] = "waiting"
                             /\ p \in Range(requests)
  BY <1>1, <1>3
<1>6. \A p \in Requests : p \in Range(requests) \ Range(pendingTaskRequests) =>
          request[p] = "idle" /\ request'[p] = "waiting"
  BY <1>1, <1>3
<1> QED BY <1>1, <1>2, <1>3, <1>4, <1>5, <1>6, SettledBroker

\* taskOffered() keeps the lists in agreement.
LEMMA OfferedBroker ==
    ASSUME TypeOK, BrokerInv, NEW r \in Runners, TaskOffered(r)
    PROVE  BrokerInv'
<1>1. PICK N : Settled(N, pendingTaskRequests)
  BY SettleStep
<1>2. UNCHANGED <<tasks, knownRunners, request>>
  BY DEF TaskOffered
<1>3. pendingTaskRequests \in Seq(Requests)
  BY DEF TypeOK
<1>4. \A q \in Requests : \/ request'[q] = request[q]
                          \/ /\ request[q] = "idle" /\ request'[q] = "waiting"
                             /\ q \in Range(pendingTaskRequests)
  BY <1>2
<1> QED BY <1>1, <1>2, <1>3, <1>4, SettledBroker

\* The request leaves the list with its task.
LEMMA AcceptedBroker ==
    ASSUME TypeOK, BrokerInv, AcceptsInv, NEW r \in Runners, HandleRunnerAccept(r)
    PROVE  BrokerInv'
<1> DEFINE t == Head(toBroker[r]).taskId
           q == RequestOf(t)
<1>1. /\ t \in Tasks /\ q \in Requests
      /\ r \in knownRunners
      /\ 1 \in 1..Len(toBroker[r])
      /\ toBroker[r][1] = Head(toBroker[r]) /\ toBroker[r][1].type = "taskaccepted"
  BY ReceivedMessage, RequestOfTask DEF HandleRunnerAccept
<1>2. CASE UNCHANGED <<matching, tasks, request>>
  BY <1>2, SameBroker DEF HandleRunnerAccept, matching
<1>3. CASE /\ accepting[t] # None
           /\ accepting' = [accepting EXCEPT ![t] = None]
           /\ tasks' = [tasks EXCEPT ![t] = accepting[t]]
           /\ pendingTaskRequests' = RemoveFirst(pendingTaskRequests, q)
           /\ request' = [request EXCEPT ![q] = "ready"]
           /\ UNCHANGED <<pendingTaskOffers, acceptInProgress>>
  <2>1. accepting[t] = r
    BY <1>1, <1>3 DEF AcceptsInv
  <2>2. UNCHANGED knownRunners
    BY DEF HandleRunnerAccept
  <2> HIDE DEF t
  <2>3. /\ accepting'[t] = None /\ tasks'[t] = r
        /\ \A u \in Tasks : u # t => accepting'[u] = accepting[u] /\ tasks'[u] = tasks[u]
    BY <1>1, <1>3, <2>1 DEF TypeOK
  <2> HIDE DEF q
  <2>4. request'[q] = "ready" /\ \A p \in Requests : p # q => request'[p] = request[p]
    BY <1>1, <1>3 DEF TypeOK
  <2>5. /\ q \in Range(pendingTaskRequests) /\ request[q] = "waiting"
        /\ q \in acceptInProgress
        /\ \A u \in Tasks : RequestOf(u) = q /\ u # t => accepting[u] = None /\ tasks[u] = None
    BY <1>1, <1>3 DEF BrokerInv, AcceptFindsRequest, q
  <2>6. /\ Range(pendingTaskRequests') \subseteq Range(pendingTaskRequests)
        /\ \A p \in Range(pendingTaskRequests) : p # q => p \in Range(pendingTaskRequests')
    <3>1. pendingTaskRequests \in Seq(Requests)
      BY DEF TypeOK
    <3>2. PICK i \in 1..Len(pendingTaskRequests) : pendingTaskRequests[i] = q
      BY <2>5, <3>1, LenProperties DEF Range
    <3> QED BY <3>1, <3>2, <1>3, RemoveFirstProperties
  <2>7. RequestOf(t) = q /\ r # None /\ \A u \in Tasks : RequestOf(u) \in Requests
    BY RequestOfTask, BrokerAssumption DEF q
  <2>8. \A u \in Tasks : RequestOf(u) # q => u # t
    BY <2>7
  <2>9. AcceptFindsRequest'
    <3> SUFFICES ASSUME NEW u \in Tasks, accepting'[u] # None
                 PROVE  /\ RequestOf(u) \in Range(pendingTaskRequests')
                        /\ request'[RequestOf(u)] = "waiting"
                        /\ \A v \in Tasks : RequestOf(v) = RequestOf(u) /\ v # u =>
                              accepting'[v] = None /\ tasks'[v] = None
      BY DEF AcceptFindsRequest
    <3>1. u # t /\ accepting[u] # None
      BY <2>3
    <3>2. RequestOf(u) # q
      BY <3>1, <2>5
    <3>3. /\ RequestOf(u) \in Range(pendingTaskRequests)
          /\ request[RequestOf(u)] = "waiting"
          /\ \A v \in Tasks : RequestOf(v) = RequestOf(u) /\ v # u =>
                accepting[v] = None /\ tasks[v] = None
      BY <3>1 DEF BrokerInv, AcceptFindsRequest
    <3> QED BY <3>2, <3>3, <2>3, <2>4, <2>6, <2>7, <2>8
  <2>10. RequestIsTracked'
    <3> SUFFICES ASSUME NEW p \in Requests
                 PROVE  /\ request'[p] = "waiting" =>
                              /\ p \in Range(pendingTaskRequests')
                              /\ p \in acceptInProgress' =>
                                    \E u \in Tasks : RequestOf(u) = p /\ accepting'[u] # None
                        /\ request'[p] = "ready" =>
                              \E u \in Tasks : RequestOf(u) = p /\ tasks'[u] # None
      BY DEF RequestIsTracked
    <3>1. CASE p = q
      BY <3>1, <1>1, <2>3, <2>4, <2>7
    <3>2. CASE p # q
      <4>1. /\ request[p] = "waiting" =>
                  /\ p \in Range(pendingTaskRequests)
                  /\ p \in acceptInProgress =>
                        \E u \in Tasks : RequestOf(u) = p /\ accepting[u] # None
            /\ request[p] = "ready" =>
                  \E u \in Tasks : RequestOf(u) = p /\ tasks[u] # None
        BY DEF BrokerInv, RequestIsTracked
      <4>2. \A u \in Tasks : RequestOf(u) = p =>
                accepting'[u] = accepting[u] /\ tasks'[u] = tasks[u]
        BY <3>2, <2>3, <2>8
      <4>3. acceptInProgress' = acceptInProgress
        BY <1>3
      <4> QED BY <3>2, <4>1, <4>2, <4>3, <2>4, <2>6
    <3> QED BY <3>1, <3>2
  <2>11. TaskHasRunner'
    BY <1>1, <2>2, <2>3 DEF BrokerInv, TaskHasRunner
  <2>12. \A u \in Tasks : accepting'[u] # None => RequestOf(u) \in acceptInProgress'
    BY <1>3, <2>3 DEF BrokerInv
  <2>13. \A u \in Tasks : tasks'[u] # None =>
            /\ request'[RequestOf(u)] = "ready"
            /\ \A v \in Tasks : RequestOf(v) = RequestOf(u) /\ v # u => tasks'[v] = None
    <3> SUFFICES ASSUME NEW u \in Tasks, tasks'[u] # None
                 PROVE  /\ request'[RequestOf(u)] = "ready"
                        /\ \A v \in Tasks : RequestOf(v) = RequestOf(u) /\ v # u =>
                              tasks'[v] = None
      OBVIOUS
    <3>1. CASE u = t
      BY <3>1, <2>3, <2>4, <2>5, <2>7
    <3>2. CASE u # t
      <4>1. tasks[u] # None
        BY <3>2, <2>3
      <4>2. RequestOf(u) # q
        BY <3>2, <4>1, <2>5
      <4> QED BY <4>1, <4>2, <2>3, <2>4, <2>7, <2>8 DEF BrokerInv
    <3> QED BY <3>1, <3>2
  <2>14. \A p \in Requests :
            /\ p \in Range(pendingTaskRequests') \ acceptInProgress' => request'[p] = "waiting"
            /\ request'[p] = "idle" => p \notin acceptInProgress'
    <3>1. acceptInProgress' = acceptInProgress
      BY <1>3
    <3> QED BY <3>1, <2>4, <2>5, <2>6 DEF BrokerInv
  <2> QED BY <2>9, <2>10, <2>11, <2>12, <2>13, <2>14 DEF BrokerInv
<1> QED BY <1>2, <1>3 DEF HandleRunnerAccept

\* A rejection keeps the lists in agreement, and so does a deferral.
LEMMA GivenUpBroker ==
    ASSUME TypeOK, BrokerInv, NEW r \in Runners, HandleRunnerReject(r) \/ HandleRunnerDeferred(r)
    PROVE  BrokerInv'
<1> DEFINE t == Head(toBroker[r]).taskId
<1>1. t \in Tasks /\ RequestOf(t) \in Requests
  BY ReceivedMessage, RequestOfTask DEF HandleRunnerReject, HandleRunnerDeferred
<1>2. UNCHANGED <<tasks, knownRunners, request>>
  BY DEF HandleRunnerReject, HandleRunnerDeferred
<1>3. CASE UNCHANGED <<accepting, acceptInProgress, pendingTaskRequests>>
  BY <1>2, <1>3, SameBroker
<1>4. CASE accepting[t] # None /\ GiveUp(t) /\ UNCHANGED pendingTaskRequests
  BY <1>1, <1>2, <1>4, GiveUpBroker
<1>5. CASE /\ accepting[t] # None /\ GiveUp(t)
           /\ pendingTaskRequests' = Append(pendingTaskRequests, RequestOf(t))
  <2> HIDE DEF t
  <2>1. Range(pendingTaskRequests') = Range(pendingTaskRequests) \cup {RequestOf(t)}
    BY <1>1, <1>5, AppendRange DEF TypeOK
  <2>2. /\ Range(pendingTaskRequests') \subseteq Range(pendingTaskRequests) \cup {RequestOf(t)}
        /\ Range(pendingTaskRequests) \subseteq Range(pendingTaskRequests')
    BY <2>1
  <2> QED BY <1>1, <1>2, <1>5, <2>2, GiveUpBroker
<1> QED BY <1>3, <1>4, <1>5 DEF HandleRunnerReject, HandleRunnerDeferred

\* The end of one task keeps the lists in agreement.
LEMMA AnswerBroker ==
    ASSUME TypeOK, BrokerInv, NEW t \in Tasks, tasks[t] # None, Answer(t),
           UNCHANGED <<pendingTaskRequests, acceptInProgress, accepting, knownRunners>>
    PROVE  BrokerInv'
<1>1. {t} \in SUBSET Tasks /\ \A u \in {t} : tasks[u] # None
  OBVIOUS
<1>2. \A u \in Tasks : tasks'[u] = IF u \in {t} THEN None ELSE tasks[u]
  BY DEF Answer, TypeOK
<1>3. \A q \in Requests : request'[q] =
          IF \E u \in {t} : RequestOf(u) = q THEN "answered" ELSE request[q]
  BY RequestOfTask DEF Answer, TypeOK
<1> QED BY <1>1, <1>2, <1>3, AnsweredBroker

\* The loss of a runner keeps the lists in agreement: all its tasks end.
LEMMA DeregisteredBroker ==
    ASSUME TypeOK, BrokerInv, NEW r \in Runners, DeregisterRunner(r)
    PROVE  BrokerInv'
<1> DEFINE T == {t \in Tasks : tasks[t] = r}
<1>1. T \in SUBSET Tasks /\ \A t \in T : tasks[t] # None
  BY BrokerAssumption
<1>2. \A t \in Tasks : tasks'[t] = IF t \in T THEN None ELSE tasks[t]
  BY DEF DeregisterRunner, FailTasks
<1>3. \A q \in Requests : request'[q] =
          IF \E t \in T : RequestOf(t) = q THEN "answered" ELSE request[q]
  BY DEF DeregisterRunner, FailTasks
<1>4. \A t \in Tasks \ T : tasks[t] \in knownRunners => tasks[t] \in knownRunners'
  BY DEF DeregisterRunner
<1>5. UNCHANGED <<pendingTaskRequests, acceptInProgress, accepting>>
  BY DEF DeregisterRunner
<1> HIDE DEF T
<1> QED BY <1>1, <1>2, <1>3, <1>4, <1>5, AnsweredBroker

\* Every step keeps the lists of the broker in agreement.
LEMMA BrokerStepInv ==
    ASSUME TypeOK, BrokerInv, AcceptsInv, [Next]_vars
    PROVE  BrokerInv'
<1>1. ASSUME NEW t \in Tasks, AcceptTimesOut(t)
      PROVE  BrokerInv'
  BY <1>1, GiveUpBroker DEF AcceptTimesOut
<1>2. ASSUME NEW t \in Tasks, HandleTaskTimeout(t)
      PROVE  BrokerInv'
  BY <1>2, AnswerBroker DEF HandleTaskTimeout, matching
<1>3. ASSUME NEW r \in Runners, TaskEnded(r)
      PROVE  BrokerInv'
  <2>1. Head(toBroker[r]).taskId \in Tasks
    BY <1>3, ReceivedMessage DEF TaskEnded
  <2> QED BY <1>3, <2>1, AnswerBroker, SameBroker DEF TaskEnded, matching
<1>4. ASSUME NEW r \in Runners, RegisterRunner(r)
      PROVE  BrokerInv'
  BY <1>4, SameBroker DEF RegisterRunner, matching
<1>5. ASSUME UNCHANGED <<matching, tasks, request, knownRunners>>
      PROVE  BrokerInv'
  BY <1>5, SameBroker DEF matching
<1>6. ASSUME NEW k \in DOMAIN pendingTaskOffers, OfferExpires(k)
      PROVE  BrokerInv'
  BY <1>6, SameBroker DEF OfferExpires
<1>7. ASSUME NEW r \in Runners, BrokerStep(r)
      PROVE  BrokerInv'
  BY <1>3, <1>7, OfferedBroker, AcceptedBroker, GivenUpBroker DEF BrokerStep
<1> QED
  BY <1>1, <1>2, <1>4, <1>5, <1>6, <1>7, RequestedBroker, DeregisteredBroker
  DEF Next, RunnerStep, vars, StartTaskOffers, OfferInterval, OfferAccepted, DeferTask,
      ReceivedSettings, TaskCancelled, TaskTimedOut, ExecutionEnds, Break

-----------------------------------------------------------------------------
(* Requests and executions                                                 *)

\* The message at the head of a runner's channel, when it holds settings.
LEMMA HeadSettings ==
    ASSUME TypeOK, SettingsInv, NEW r \in Runners, RunnerReceived(r, "tasksettings")
    PROVE  /\ Head(toRunner[r]).taskId \in Tasks
           /\ RequestOf(Head(toRunner[r]).taskId) \in Requests
           /\ SettingsOf(r, 1, RequestOf(Head(toRunner[r]).taskId))
           /\ request[RequestOf(Head(toRunner[r]).taskId)] \in {"ready", "answered"}
           /\ executed[RequestOf(Head(toRunner[r]).taskId)] = 0
<1> DEFINE t == Head(toRunner[r]).taskId
<1>1. t \in Tasks /\ RequestOf(t) \in Requests
  BY RunnerReceivedMessage, RequestOfTask
<1>2. 1 \in 1..Len(toRunner[r]) /\ SettingsOf(r, 1, RequestOf(t))
  BY RunnerReceivedMessage DEF SettingsOf
<1>3. request[RequestOf(t)] \in {"ready", "answered"} /\ executed[RequestOf(t)] = 0
  BY <1>1, <1>2 DEF SettingsInv
<1> QED BY <1>1, <1>2, <1>3

\* An answer is one of the abstract specification: the task was ready.
LEMMA AnswerRefines ==
    ASSUME TypeOK, BrokerInv, NEW t \in Tasks, tasks[t] # None, Answer(t), UNCHANGED executed
    PROVE  Abstract!Next
<1>1. RequestOf(t) \in Requests /\ request[RequestOf(t)] = "ready"
  BY RequestOfTask DEF BrokerInv
<1>2. request' = [q \in Requests |-> IF q \in {RequestOf(t)} THEN "answered" ELSE request[q]]
  BY DEF Answer, TypeOK
<1>3. Abstract!Answer({RequestOf(t)})
  BY <1>1, <1>2 DEF Abstract!Answer
<1>4. {RequestOf(t)} \in SUBSET Requests
  BY <1>1
<1> QED BY <1>3, <1>4 DEF Abstract!Next

\* Every step is one of the abstract specification, or changes nothing that it has.
LEMMA AbstractStep ==
    ASSUME TypeOK, IInv, [Next]_vars
    PROVE  [Abstract!Next]_<<request, executed>>
<1> USE DEF IInv
<1>1. ASSUME NEW q \in Requests, RequestTask(q)
      PROVE  Abstract!Next
  BY <1>1 DEF RequestTask, runners, Abstract!Ask, Abstract!Next
<1>2. ASSUME NEW r \in Runners, HandleRunnerAccept(r)
      PROVE  Abstract!Next \/ UNCHANGED <<request, executed>>
  <2> DEFINE q == RequestOf(Head(toBroker[r]).taskId)
  <2>1. Head(toBroker[r]).taskId \in Tasks /\ q \in Requests
    BY <1>2, ReceivedMessage, RequestOfTask DEF HandleRunnerAccept
  <2>2. CASE accepting[Head(toBroker[r]).taskId] = None
    BY <1>2, <2>2 DEF HandleRunnerAccept, runners
  <2>3. CASE accepting[Head(toBroker[r]).taskId] # None
    <3>1. request[q] = "waiting"
      BY <2>1, <2>3 DEF BrokerInv, AcceptFindsRequest
    <3>2. request' = [request EXCEPT ![q] = "ready"] /\ UNCHANGED executed
      BY <1>2, <2>3 DEF HandleRunnerAccept, runners
    <3> QED BY <2>1, <3>1, <3>2 DEF Abstract!Assign, Abstract!Next
  <2> QED BY <2>2, <2>3
<1>3. ASSUME NEW r \in Runners, TaskEnded(r)
      PROVE  Abstract!Next \/ UNCHANGED <<request, executed>>
  <2>1. Head(toBroker[r]).taskId \in Tasks
    BY <1>3, ReceivedMessage DEF TaskEnded
  <2> QED BY <1>3, <2>1, AnswerRefines DEF TaskEnded, runners
<1>4. ASSUME NEW t \in Tasks, HandleTaskTimeout(t)
      PROVE  Abstract!Next
  <2>1. UNCHANGED executed
    BY <1>4 DEF HandleTaskTimeout, runners, Lose, Forget
  <2> QED BY <1>4, <2>1, AnswerRefines DEF HandleTaskTimeout
<1>5. ASSUME NEW r \in Runners, DeregisterRunner(r)
      PROVE  Abstract!Next
  <2> DEFINE Q == {q \in Requests : \E t \in Tasks : RequestOf(t) = q /\ tasks[t] = r}
  <2>1. \A q \in Q : request[q] = "ready"
    BY BrokerAssumption DEF BrokerInv
  <2>2. request' = [q \in Requests |-> IF q \in Q THEN "answered" ELSE request[q]]
    BY <1>5 DEF DeregisterRunner, FailTasks
  <2>3. UNCHANGED executed
    BY <1>5 DEF DeregisterRunner, Forget
  <2> HIDE DEF Q
  <2>4. Abstract!Answer(Q)
    BY <2>1, <2>2, <2>3 DEF Abstract!Answer
  <2>5. Q \in SUBSET Requests
    BY DEF Q
  <2> QED BY <2>4, <2>5 DEF Abstract!Next
<1>6. ASSUME NEW r \in Runners, ReceivedSettings(r)
      PROVE  Abstract!Next \/ UNCHANGED <<request, executed>>
  <2> DEFINE t == Head(toRunner[r]).taskId
             q == RequestOf(t)
  <2>1. q \in Requests /\ request[q] \in {"ready", "answered"} /\ executed[q] = 0
    BY <1>6, HeadSettings DEF ReceivedSettings
  <2>2. CASE runningTasks[r][t] = None
    BY <1>6, <2>2 DEF ReceivedSettings
  <2>3. CASE runningTasks[r][t] # None
    <3>1. executed' = [executed EXCEPT ![q] = @ + 1] /\ UNCHANGED request
      BY <1>6, <2>3 DEF ReceivedSettings
    <3> HIDE DEF q
    <3>2. executed' = [executed EXCEPT ![q] = 1]
      BY <2>1, <3>1 DEF TypeOK
    <3> QED BY <2>1, <3>1, <3>2 DEF Abstract!Execute, Abstract!Next
  <2> QED BY <2>2, <2>3
<1>7. ASSUME UNCHANGED <<request, executed>>
      PROVE  [Abstract!Next]_<<request, executed>>
  BY <1>7
<1>8. ASSUME NEW r \in Runners, NEW n \in 0..Len(toBroker[r]), Lose(r, n)
      PROVE  UNCHANGED executed
  BY <1>8 DEF Lose, Forget
<1> QED
  BY <1>1, <1>2, <1>3, <1>4, <1>5, <1>6, <1>7, <1>8
  DEF Next, BrokerStep, RunnerStep, vars, runners, TaskOffered, OfferExpires, AcceptTimesOut,
      HandleRunnerReject, HandleRunnerDeferred, RegisterRunner, StartTaskOffers, OfferInterval,
      OfferAccepted, DeferTask, TaskCancelled, TaskTimedOut, ExecutionEnds, Break

\* Requests go forward, and so do executions.
LEMMA Forward ==
    ASSUME TypeOK, [Abstract!Next]_<<request, executed>>, NEW q \in Requests
    PROVE  /\ request[q] \in {"ready", "answered"} => request'[q] \in {"ready", "answered"}
           /\ request'[q] \in {"idle", "waiting"} =>
                 request[q] \in {"idle", "waiting"} /\ executed'[q] = executed[q]
           /\ \/ executed'[q] = executed[q]
              \/ executed[q] = 0 /\ executed'[q] = 1
<1>1. CASE UNCHANGED <<request, executed>>
  BY <1>1 DEF TypeOK
<1>2. ASSUME NEW p \in Requests, Abstract!Ask(p)
      PROVE  /\ executed' = executed
             /\ \/ request'[q] = request[q]
                \/ request[q] = "idle" /\ request'[q] = "waiting"
  BY <1>2 DEF Abstract!Ask, TypeOK
<1>3. ASSUME NEW p \in Requests, Abstract!Assign(p)
      PROVE  /\ executed' = executed
             /\ request'[q] = request[q] \/ request'[q] = "ready"
  BY <1>3 DEF Abstract!Assign, TypeOK
<1>4. ASSUME NEW p \in Requests, Abstract!Execute(p)
      PROVE  /\ request' = request
             /\ \/ executed'[q] = executed[q]
                \/ /\ request[q] \in {"ready", "answered"}
                   /\ executed[q] = 0 /\ executed'[q] = 1
  BY <1>4 DEF Abstract!Execute, TypeOK
<1>5. ASSUME NEW Q \in SUBSET Requests, Abstract!Answer(Q)
      PROVE  /\ executed' = executed
             /\ request'[q] = request[q] \/ request'[q] = "answered"
  BY <1>5 DEF Abstract!Answer, TypeOK
<1> QED BY <1>1, <1>2, <1>3, <1>4, <1>5 DEF Abstract!Next, TypeOK

-----------------------------------------------------------------------------
(* Settings under way                                                      *)

\* Where no settings are new, those under way stay the only ones of a request that
\* was not executed.
LEMMA SettingsKept ==
    ASSUME TypeOK, SettingsInv, Moved("tasksettings"),
           \A q \in Requests : request[q] \in {"ready", "answered"} =>
              request'[q] \in {"ready", "answered"},
           \A q \in Requests : executed'[q] = executed[q]
              \/ \A r \in Runners : \A i \in 1..Len(toRunner'[r]) : ~SettingsOf(r, i, q)'
    PROVE  SettingsInv'
<1>1. PICK d \in [Runners -> {0, 1}] : \A r \in Runners : \A i \in 1..Len(toRunner'[r]) :
          toRunner'[r][i].type = "tasksettings" =>
              i + d[r] \in 1..Len(toRunner[r]) /\ toRunner'[r][i] = toRunner[r][i + d[r]]
  BY DEF Moved
<1>2. \A q \in Requests : \A r \in Runners : \A i \in 1..Len(toRunner'[r]) :
          SettingsOf(r, i, q)' => SettingsOf(r, i + d[r], q)
  BY <1>1 DEF SettingsOf
<1>3. \A r \in Runners : \A i \in 1..Len(toRunner'[r]) : i \in Int
  OBVIOUS
<1>4. \A r \in Runners : d[r] \in Int
  BY <1>1
<1>5. ASSUME NEW q \in Requests, NEW r \in Runners, NEW i \in 1..Len(toRunner'[r]),
             SettingsOf(r, i, q)'
      PROVE  /\ request'[q] \in {"ready", "answered"} /\ executed'[q] = 0
             /\ \A s \in Runners : \A j \in 1..Len(toRunner'[s]) : SettingsOf(s, j, q)' =>
                   s = r /\ j = i
  <2>1. SettingsOf(r, i + d[r], q) /\ i + d[r] \in 1..Len(toRunner[r])
    BY <1>2, <1>5 DEF SettingsOf
  <2>2. request'[q] \in {"ready", "answered"} /\ executed'[q] = 0
    BY <1>5, <2>1 DEF SettingsInv
  <2>3. ASSUME NEW s \in Runners, NEW j \in 1..Len(toRunner'[s]), SettingsOf(s, j, q)'
        PROVE  s = r /\ j = i
    <3>1. SettingsOf(s, j + d[s], q) /\ j + d[s] \in 1..Len(toRunner[s])
      BY <1>2, <2>3 DEF SettingsOf
    <3>2. s = r /\ j + d[s] = i + d[r]
      BY <2>1, <3>1 DEF SettingsInv
    <3> QED BY <3>2, <1>3, <1>4
  <2> QED BY <2>2, <2>3
<1> QED BY <1>5 DEF SettingsInv

\* The runner takes the only settings of the request.
LEMMA ReceivedSettingsKept ==
    ASSUME TypeOK, IInv, NEW r \in Runners, ReceivedSettings(r)
    PROVE  SettingsInv'
<1>0. RequestOf(Head(toRunner[r]).taskId) \in Requests
  BY HeadSettings DEF ReceivedSettings, IInv
<1> PICK q \in Requests : q = RequestOf(Head(toRunner[r]).taskId)
  BY <1>0
<1>1. q \in Requests /\ SettingsOf(r, 1, q) /\ 1 \in 1..Len(toRunner[r])
  BY HeadSettings, RunnerReceivedMessage DEF ReceivedSettings, IInv
<1>2. Moved("tasksettings")
  BY MovedByOne DEF ReceivedSettings
<1>3. toRunner' = PopFrom(toRunner, r) /\ UNCHANGED request
  BY DEF ReceivedSettings
<1>4. \A p \in Requests : p # q => executed'[p] = executed[p]
  BY DEF ReceivedSettings, TypeOK
<1>5. /\ \A s \in Runners : s # r => toRunner'[s] = toRunner[s]
      /\ \A i \in 1..Len(toRunner'[r]) :
            i + 1 \in 1..Len(toRunner[r]) /\ toRunner'[r][i] = toRunner[r][i + 1]
  BY <1>3, RunnerReceivedMessage DEF ReceivedSettings
<1>6. ASSUME NEW s \in Runners, NEW i \in 1..Len(toRunner'[s]), SettingsOf(s, i, q)'
      PROVE  FALSE
  <2>1. CASE s = r
    <3>1. SettingsOf(r, i + 1, q) /\ i + 1 \in 1..Len(toRunner[r])
      BY <1>5, <1>6, <2>1 DEF SettingsOf
    <3>2. i + 1 = 1
      BY <1>1, <3>1 DEF SettingsInv, IInv
    <3>3. i \in Nat /\ i >= 1
      OBVIOUS
    <3> QED BY <3>2, <3>3
  <2>2. CASE s # r
    <3>1. SettingsOf(s, i, q) /\ i \in 1..Len(toRunner[s])
      BY <1>5, <1>6, <2>2 DEF SettingsOf
    <3> QED BY <1>1, <2>2, <3>1 DEF SettingsInv, IInv
  <2> QED BY <2>1, <2>2
<1>7. \A p \in Requests : executed'[p] = executed[p]
          \/ \A s \in Runners : \A i \in 1..Len(toRunner'[s]) : ~SettingsOf(s, i, p)'
  BY <1>4, <1>6
<1>8. \A p \in Requests : request[p] \in {"ready", "answered"} =>
          request'[p] \in {"ready", "answered"}
  BY <1>3
<1> QED BY <1>2, <1>7, <1>8, SettingsKept DEF IInv

\* sendTaskSettings(): the first settings of the request.
LEMMA SentSettings ==
    ASSUME TypeOK, IInv, NEW r \in Runners, HandleRunnerAccept(r)
    PROVE  SettingsInv'
<1> DEFINE t == Head(toBroker[r]).taskId
           m == Message("tasksettings", t)
<1>0. RequestOf(t) \in Requests
  BY ReceivedMessage, RequestOfTask DEF HandleRunnerAccept
<1> PICK q \in Requests : q = RequestOf(t)
  BY <1>0
<1>1. t \in Tasks /\ q \in Requests
  BY ReceivedMessage, RequestOfTask DEF HandleRunnerAccept
<1>2. UNCHANGED executed
  BY DEF HandleRunnerAccept, runners
<1>3. CASE accepting[t] = None
  <2>1. UNCHANGED <<toRunner, request>>
    BY <1>3 DEF HandleRunnerAccept
  <2>2. Moved("tasksettings")
    BY <2>1, Unmoved
  <2> QED BY <1>2, <2>1, <2>2, SettingsKept DEF IInv
<1>4. CASE accepting[t] # None
  <2>1. /\ toRunner' = SendTo(accepting[t], <<m>>)
        /\ request' = [request EXCEPT ![q] = "ready"]
    BY <1>4 DEF HandleRunnerAccept
  <2>2. accepting[t] \in Runners
    BY <1>1, <1>4 DEF TypeOK
  <2>3. request[q] = "waiting" /\ executed[q] = 0
    BY <1>1, <1>4 DEF IInv, BrokerInv, AcceptFindsRequest, ExecutionInv
  <2>4. m \in BrokerMessage /\ m.taskId = t
    BY <1>1 DEF Message, BrokerMessage
  <2> DEFINE a == accepting[t]
             new == SendTo(a, <<m>>)
  <2> HIDE DEF t, m
  <2>5. \A s \in Runners : \A i \in 1..Len(new[s]) :
            \/ i \in 1..Len(toRunner[s]) /\ new[s][i] = toRunner[s][i]
            \/ s = a /\ i = Len(toRunner[s]) + 1 /\ new[s][i] = m
    BY <2>2, <2>4, SentMessage
  <2>6. new = toRunner'
    BY <2>1
  <2> HIDE DEF a, new
  <2>7. \A s \in Runners : \A i \in 1..Len(toRunner'[s]) :
            \/ i \in 1..Len(toRunner[s]) /\ toRunner'[s][i] = toRunner[s][i]
            \/ s = a /\ i = Len(toRunner[a]) + 1 /\ RequestOf(toRunner'[s][i].taskId) = q
    BY <2>4, <2>5, <2>6
  <2>8. request'[q] = "ready" /\ \A p \in Requests : p # q => request'[p] = request[p]
    BY <1>1, <2>1 DEF TypeOK
  <2>9. \A s \in Runners : \A i \in 1..Len(toRunner[s]) : ~SettingsOf(s, i, q)
    BY <1>1, <2>3 DEF IInv, SettingsInv
  <2>10. \A s \in Runners : \A i \in 1..Len(toRunner'[s]) : SettingsOf(s, i, q)' =>
            s = a /\ i = Len(toRunner[a]) + 1
    BY <2>7, <2>9 DEF SettingsOf
  <2>11. \A p \in Requests : p # q =>
            \A s \in Runners : \A i \in 1..Len(toRunner'[s]) : SettingsOf(s, i, p)' =>
                i \in 1..Len(toRunner[s]) /\ SettingsOf(s, i, p)
    BY <2>7 DEF SettingsOf
  <2>12. ASSUME NEW p \in Requests, NEW s \in Runners, NEW i \in 1..Len(toRunner'[s]),
                SettingsOf(s, i, p)'
         PROVE  /\ request'[p] \in {"ready", "answered"} /\ executed'[p] = 0
                /\ \A u \in Runners : \A j \in 1..Len(toRunner'[u]) : SettingsOf(u, j, p)' =>
                      u = s /\ j = i
    <3>1. CASE p = q
      BY <3>1, <2>12, <1>2, <2>3, <2>8, <2>10
    <3>2. CASE p # q
      <4>1. i \in 1..Len(toRunner[s]) /\ SettingsOf(s, i, p)
        BY <3>2, <2>11, <2>12
      <4> QED BY <3>2, <4>1, <1>2, <2>8, <2>11 DEF IInv, SettingsInv
    <3> QED BY <3>1, <3>2
  <2> QED BY <2>12 DEF SettingsInv
<1> QED BY <1>3, <1>4

\* Every step keeps the settings under way unique and ahead of the execution.
LEMMA SettingsStep ==
    ASSUME TypeOK, IInv, [Next]_vars
    PROVE  SettingsInv'
<1>1. \A q \in Requests : request[q] \in {"ready", "answered"} =>
          request'[q] \in {"ready", "answered"}
  BY AbstractStep, Forward
<1>2. CASE \E r \in Runners : HandleRunnerAccept(r) \/ ReceivedSettings(r)
  BY <1>2, SentSettings, ReceivedSettingsKept
<1>3. CASE ~\E r \in Runners : HandleRunnerAccept(r) \/ ReceivedSettings(r)
  <2>1. Moved("tasksettings")
    BY <1>3, SettingsMove
  <2>2. UNCHANGED executed
    BY <1>3
    DEF Next, BrokerStep, RunnerStep, vars, runners, RequestTask, TaskOffered, OfferExpires,
        AcceptTimesOut, HandleRunnerReject, HandleRunnerDeferred, TaskEnded, HandleTaskTimeout,
        RegisterRunner, DeregisterRunner, StartTaskOffers, OfferInterval, OfferAccepted, DeferTask,
        TaskCancelled, TaskTimedOut, ExecutionEnds, Break, Lose, Forget
  <2> QED BY <1>1, <2>1, <2>2, SettingsKept DEF IInv
<1> QED BY <1>2, <1>3

\* Only settings start the code of a task.
LEMMA StatusStep ==
    ASSUME TypeOK, [Next]_vars, NEW s \in Runners, NEW u \in Tasks,
           runningTasks'[s][u] \notin {None, "waitingForSettings"}
    PROVE  \/ runningTasks[s][u] \notin {None, "waitingForSettings"}
           \/ /\ ReceivedSettings(s)
              /\ u = Head(toRunner[s]).taskId /\ runningTasks[s][u] # None
<1> DEFINE Before == runningTasks[s][u] \notin {None, "waitingForSettings"}
<1>1. ASSUME UNCHANGED runningTasks
      PROVE  Before
  BY <1>1
<1>2. ASSUME NEW r \in Runners, NEW t \in Tasks, NEW status \in Statuses \cup {None},
             runningTasks' = [runningTasks EXCEPT ![r][t] = status],
             status \in {None, "waitingForSettings"}
                \/ runningTasks[r][t] \notin {None, "waitingForSettings"}
      PROVE  Before
  <2>1. /\ runningTasks'[r][t] = status
        /\ \A v \in Tasks : v # t => runningTasks'[r][v] = runningTasks[r][v]
        /\ \A v \in Runners : v # r => runningTasks'[v] = runningTasks[v]
    BY <1>2, StatusChange
  <2> QED BY <1>2, <2>1
<1>3. ASSUME NEW r \in Runners, NEW t \in Tasks, NEW messages, FinishTask(r, t, messages)
      PROVE  Before
  <2>1. None \in Statuses \cup {None}
    OBVIOUS
  <2> QED BY <1>2, <1>3, <2>1 DEF FinishTask
<1>4. ASSUME NEW r \in Runners, Forget(r)
      PROVE  Before
  BY <1>4 DEF Forget, TypeOK
<1>5. ASSUME NEW r \in Runners, OfferAccepted(r)
      PROVE  Before
  <2>1. Head(toRunner[r]).taskId \in Tasks
    BY <1>5, RunnerReceivedMessage DEF OfferAccepted
  <2>2. "waitingForSettings" \in Statuses \cup {None}
    BY DEF Statuses
  <2> QED BY <1>1, <1>2, <1>5, <2>1, <2>2 DEF OfferAccepted
<1>6. ASSUME NEW r \in Runners, ReceivedSettings(r)
      PROVE  Before \/ /\ ReceivedSettings(s)
                       /\ u = Head(toRunner[s]).taskId /\ runningTasks[s][u] # None
  <2> DEFINE t == Head(toRunner[r]).taskId
  <2>1. t \in Tasks
    BY <1>6, RunnerReceivedMessage DEF ReceivedSettings
  <2>2. CASE runningTasks[r][t] = None
    BY <1>1, <1>6, <2>2 DEF ReceivedSettings
  <2>3. CASE runningTasks[r][t] # None
    <3>1. runningTasks' = [runningTasks EXCEPT ![r][t] = "running"]
      BY <1>6, <2>3 DEF ReceivedSettings
    <3>2. "running" \in Statuses \cup {None}
      BY DEF Statuses
    <3> HIDE DEF t
    <3>3. /\ \A v \in Tasks : v # t => runningTasks'[r][v] = runningTasks[r][v]
          /\ \A v \in Runners : v # r => runningTasks'[v] = runningTasks[v]
      BY <2>1, <3>1, <3>2, StatusChange
    <3>4. CASE s = r /\ u = t
      BY <1>6, <2>3, <3>4 DEF t
    <3>5. CASE ~(s = r /\ u = t)
      BY <3>3, <3>5
    <3> QED BY <3>4, <3>5
  <2> QED BY <2>2, <2>3
<1>7. ASSUME NEW r \in Runners, TaskCancelled(r)
      PROVE  Before
  <2> DEFINE t == Head(toRunner[r]).taskId
  <2>1. t \in Tasks
    BY <1>7, RunnerReceivedMessage DEF TaskCancelled
  <2>2. CASE runningTasks[r][t] = "waitingForSettings"
    BY <1>3, <1>7, <2>1, <2>2 DEF TaskCancelled
  <2>3. CASE runningTasks[r][t] = "running"
    <3>1. runningTasks' = [runningTasks EXCEPT ![r][t] = "aborting:cancelled"]
      <4>1. runningTasks' = [runningTasks EXCEPT ![r][t] =
                                IF @ = "running" THEN "aborting:cancelled" ELSE @]
        BY <1>7, <2>3 DEF TaskCancelled
      <4> QED BY <2>3, <4>1, Zenon
    <3>2. "aborting:cancelled" \in Statuses \cup {None}
      BY DEF Statuses
    <3>3. "running" \notin {None, "waitingForSettings"}
      BY BrokerAssumption DEF Statuses
    <3> QED BY <1>2, <2>1, <2>3, <3>1, <3>2, <3>3
  <2>4. CASE runningTasks[r][t] \notin {"running", "waitingForSettings"}
    <3>1. runningTasks' = runningTasks
      <4>1. runningTasks' = [runningTasks EXCEPT ![r][t] =
                                IF @ = "running" THEN "aborting:cancelled" ELSE @]
        BY <1>7, <2>4 DEF TaskCancelled
      <4>2. runningTasks' = [runningTasks EXCEPT ![r][t] = runningTasks[r][t]]
        BY <2>4, <4>1, Zenon
      <4>3. runningTasks[r][t] \in Statuses \cup {None}
        BY <2>1 DEF TypeOK
      <4>4. /\ runningTasks' \in [Runners -> [Tasks -> Statuses \cup {None}]]
            /\ \A v \in Tasks : runningTasks'[r][v] = runningTasks[r][v]
            /\ \A v \in Runners : v # r => runningTasks'[v] = runningTasks[v]
        <5> HIDE DEF t
        <5> QED BY <2>1, <4>2, <4>3, StatusChange
      <4> QED BY <4>4 DEF TypeOK
    <3> QED BY <1>1, <3>1
  <2> QED BY <2>2, <2>3, <2>4
<1>8. ASSUME NEW r \in Runners, NEW t \in Tasks, TaskTimedOut(r, t)
      PROVE  Before
  <2>1. CASE FinishTask(r, t, <<Message("taskended", t)>>)
    BY <1>3, <2>1
  <2>2. CASE /\ runningTasks[r][t] = "running"
             /\ runningTasks' = [runningTasks EXCEPT ![r][t] = "aborting:timeout"]
    <3>1. "aborting:timeout" \in Statuses \cup {None}
      BY DEF Statuses
    <3>2. "running" \notin {None, "waitingForSettings"}
      BY BrokerAssumption DEF Statuses
    <3> QED BY <1>2, <2>2, <3>1, <3>2
  <2> QED BY <1>8, <2>1, <2>2 DEF TaskTimedOut
<1>9. ASSUME NEW r \in Runners, NEW t \in Tasks, ExecutionEnds(r, t)
      PROVE  Before
  BY <1>3, <1>9 DEF ExecutionEnds
<1>10. ASSUME NEW r \in Runners, NEW n \in 0..Len(toBroker[r]), Lose(r, n)
       PROVE  Before
  BY <1>4, <1>10 DEF Lose
<1>11. ASSUME NEW t \in Tasks, HandleTaskTimeout(t)
       PROVE  Before
  BY <1>1, <1>10, <1>11 DEF HandleTaskTimeout, runners
<1>12. ASSUME NEW r \in Runners, Break(r) \/ DeregisterRunner(r)
       PROVE  Before
  BY <1>4, <1>10, <1>12 DEF Break, DeregisterRunner
<1>13. CASE UNCHANGED runningTasks
  BY <1>1, <1>13
<1> HIDE DEF Before
<1>14. Before \/ \E r \in Runners : ReceivedSettings(r)
  BY <1>5, <1>7, <1>8, <1>9, <1>11, <1>12, <1>1
  DEF Next, BrokerStep, RunnerStep, vars, runners, RequestTask, TaskOffered, HandleRunnerAccept,
      HandleRunnerReject, HandleRunnerDeferred, TaskEnded, OfferExpires, AcceptTimesOut,
      RegisterRunner, StartTaskOffers, OfferInterval, DeferTask
<1> QED BY <1>6, <1>14 DEF Before

\* Every step keeps the executions at one at most, and never before the task.
LEMMA ExecutionStep ==
    ASSUME TypeOK, IInv, [Next]_vars
    PROVE  ExecutionInv'
<1>1. [Abstract!Next]_<<request, executed>>
  BY AbstractStep
<1>2. \A q \in Requests :
          /\ request'[q] \in {"idle", "waiting"} =>
                request[q] \in {"idle", "waiting"} /\ executed'[q] = executed[q]
          /\ \/ executed'[q] = executed[q]
             \/ executed[q] = 0 /\ executed'[q] = 1
  BY <1>1, Forward
<1>3. \A q \in Requests :
          /\ executed'[q] \in {0, 1}
          /\ request'[q] \in {"idle", "waiting"} => executed'[q] = 0
  BY <1>2 DEF IInv, ExecutionInv
<1>4. ASSUME NEW s \in Runners, NEW u \in Tasks,
             runningTasks'[s][u] \notin {None, "waitingForSettings"}
      PROVE  executed'[RequestOf(u)] = 1
  <2>1. RequestOf(u) \in Requests
    BY RequestOfTask
  <2>2. CASE runningTasks[s][u] \notin {None, "waitingForSettings"}
    <3>1. executed[RequestOf(u)] = 1
      BY <2>2 DEF IInv, ExecutionInv
    <3> QED BY <2>1, <3>1, <1>2
  <2>3. CASE /\ ReceivedSettings(s)
             /\ u = Head(toRunner[s]).taskId /\ runningTasks[s][u] # None
    <3>1. executed[RequestOf(u)] = 0
      BY <2>3, HeadSettings DEF ReceivedSettings, IInv
    <3>2. executed' = [executed EXCEPT ![RequestOf(u)] = @ + 1]
      BY <2>3 DEF ReceivedSettings
    <3> QED BY <2>1, <3>1, <3>2 DEF TypeOK
  <2> QED BY <1>4, <2>2, <2>3, StatusStep
<1> QED BY <1>3, <1>4 DEF ExecutionInv

-----------------------------------------------------------------------------
(* The theorems                                                            *)

\* The invariants hold at the start ...
LEMMA InitInvariants ==
    ASSUME Init
    PROVE  TypeOK /\ IInv
<1> USE DEF Init, runners, matching
<1>1. /\ <<>> \in Seq(TaskOffer) /\ <<>> \in Seq(Requests)
      /\ <<>> \in Seq(BrokerMessage) /\ <<>> \in Seq(RunnerMessage)
      /\ Range(<<>>) = {} /\ Len(<<>>) = 0 /\ 1..0 = {}
  BY DEF Range
<1>2. BrokerInv
  BY <1>1 DEF BrokerInv, AcceptFindsRequest, RequestIsTracked, TaskHasRunner, RequestOf, Tasks
<1>3. AcceptsInv
  BY <1>1 DEF AcceptsInv
<1>4. SettingsInv
  BY <1>1 DEF SettingsInv, SettingsOf
<1>5. ExecutionInv
  BY DEF ExecutionInv, RequestOf, Tasks
<1> QED BY <1>2, <1>3, <1>4, <1>5, InitTyped DEF IInv

\* ... and every step keeps them.
LEMMA StepInvariants ==
    ASSUME TypeOK, IInv, [Next]_vars
    PROVE  TypeOK' /\ IInv'
<1>1. BrokerInv /\ AcceptsInv
  BY DEF IInv
<1>2. BrokerInv' /\ AcceptsInv'
  BY <1>1, BrokerStepInv, AcceptsStep
<1>3. SettingsInv' /\ ExecutionInv'
  BY SettingsStep, ExecutionStep
<1> QED BY <1>2, <1>3, TypeStep DEF IInv

\* The lists, the accepts, the settings and the executions agree in every state.
THEOREM Invariance == Spec => []IInv
<1>1. Init => TypeOK /\ IInv
  BY InitInvariants
<1>2. TypeOK /\ IInv /\ [Next]_vars => TypeOK' /\ IInv'
  BY StepInvariants
<1> QED BY <1>1, <1>2, PTL DEF Spec

\* An acceptOffer() under way is the only one for its request, and finds it in the list of
\* the broker and waiting at the requester, when the runner's accept arrives.
THEOREM ExchangesSound == Spec => []AcceptFindsRequest
<1>1. IInv => AcceptFindsRequest
  BY DEF IInv, BrokerInv
<1> QED BY <1>1, Invariance, PTL

\* No request is lost between the lists of the broker, through rejections, deferrals,
\* timeouts and lost runners.
THEOREM RequestsTracked == Spec => []RequestIsTracked
<1>1. IInv => RequestIsTracked
  BY DEF IInv, BrokerInv
<1> QED BY <1>1, Invariance, PTL

\* Every task is with a runner the broker knows, so that deregisterRunner() will fail it.
THEOREM TasksHaveRunners == Spec => []TaskHasRunner
<1>1. IInv => TaskHasRunner
  BY DEF IInv, BrokerInv
<1> QED BY <1>1, Invariance, PTL

\* receivedSettings() never finds a task that runs or aborts already: its assertion holds.
THEOREM SettingsAwaited == Spec => []SettingsFindWaiting
<1>1. ASSUME TypeOK, IInv
      PROVE  SettingsFindWaiting
  <2> SUFFICES ASSUME NEW r \in Runners, NEW m \in Range(toRunner[r]), m.type = "tasksettings"
               PROVE  runningTasks[r][m.taskId] \in {None, "waitingForSettings"}
    BY DEF SettingsFindWaiting
  <2>1. PICK i \in 1..Len(toRunner[r]) : toRunner[r][i] = m
    BY <1>1, LenProperties DEF TypeOK, Range
  <2>2. m.taskId \in Tasks
    <3>1. m \in BrokerMessage
      BY <1>1, <2>1, ElementOfSeq DEF TypeOK
    <3> QED BY <3>1, MessageFields
  <2>3. RequestOf(m.taskId) \in Requests
    BY <2>2, RequestOfTask
  <2>4. SettingsOf(r, i, RequestOf(m.taskId))
    BY <2>1 DEF SettingsOf
  <2>5. executed[RequestOf(m.taskId)] = 0
    BY <1>1, <2>3, <2>4 DEF IInv, SettingsInv
  <2> QED BY <1>1, <2>2, <2>5 DEF IInv, ExecutionInv
<1>2. TypeOK /\ IInv => SettingsFindWaiting
  BY <1>1
<1> QED BY <1>2, TypeCorrect, Invariance, PTL

\* The broker, the requester and the runners implement what startTask() promises: one
\* ready task and one answer for a request, whose code runs at most once and only then.
THEOREM Refinement == Spec => ImplementsTaskRequests
<1>1. Init => Abstract!Init
  BY DEF Init, Abstract!Init, runners
<1>2. TypeOK /\ IInv /\ [Next]_vars => [Abstract!Next]_<<request, executed>>
  BY AbstractStep
<1> QED BY <1>1, <1>2, TypeCorrect, Invariance, PTL DEF Spec, ImplementsTaskRequests, Abstract!Spec
=============================================================================
