---------------------- MODULE ConcurrencyControlProofs ----------------------
(***************************************************************************)
(* The safety of the concurrency limiter, for any set of requests and      *)
(* any limits.  The inductive invariant is the conjunction of the checked  *)
(* ones: the accounting needs the queue to hold exactly the throttled      *)
(* requests, and the bound on running executions needs the accounting.     *)
(***************************************************************************)
EXTENDS ConcurrencyControl, QueueLemmas, FiniteSetTheorems, TLAPS

Statuses == {"idle", "queued", "granted", "free"}
Kind(r) == QueueOf(ExecutionOf[r])

\* The granted requests of type t when the requests are as in req.
RunningIn(req, t) == {r \in Requests : req[r] = "granted" /\ Kind(r) = t}

\* The requests are as in after once the status of r in before becomes s.
Sets(before, after, r, s) ==
    /\ before \in [Requests -> Statuses]
    /\ r \in Requests
    /\ s \in Statuses
    /\ after = [before EXCEPT ![r] = s]

\* line holds exactly the requests of type t throttled in req, each once.
Holds(line, req, t) ==
    /\ \A r \in Requests :
          req[r] = "queued" /\ Kind(r) = t <=> \E i \in 1..Len(line) : line[i] = r
    /\ \A i, j \in 1..Len(line) : line[i] = line[j] => i = j

\* The invariants of type t, in terms of the operators above.
Balanced(t) ==
    /\ Holds(queue[t], request, t)
    /\ isEnabled =>
         /\ capacity[t] =
               Limit[t] - Cardinality(RunningIn(request, t)) - Len(queue[t])
         /\ queue[t] # <<>> => Cardinality(RunningIn(request, t)) >= Limit[t]
    /\ Cardinality(RunningIn(request, t)) <= Limit[t] + removals[t]

\* Inductive.  The last conjunct: a call let through without being counted is
\* not counted by its release() either.
IInv ==
    /\ TypeOK
    /\ \A t \in LimitedTypes : Balanced(t)
    /\ \A r \in Requests : request[r] = "free" => Bypassed(r)

-----------------------------------------------------------------------------
\* Granting one more request, and ending a granted one, change the number of
\* running executions of its type by one and of no other type.
LEMMA GrantOne ==
    ASSUME NEW req, NEW r, NEW after,
           Sets(req, after, r, "granted"), req[r] # "granted"
    PROVE  \A t :
              /\ Cardinality(RunningIn(req, t)) \in Nat
              /\ Cardinality(RunningIn(after, t)) =
                    Cardinality(RunningIn(req, t)) + (IF Kind(r) = t THEN 1 ELSE 0)
<1> USE DEF Sets
<1> TAKE t
<1>1. IsFiniteSet(RunningIn(req, t))
  BY FS_Subset, ConcurrencyAssumption DEF RunningIn
<1>2. CASE Kind(r) = t
  <2>1. RunningIn(after, t) = RunningIn(req, t) \cup {r}
    BY <1>2 DEF RunningIn
  <2>2. r \notin RunningIn(req, t)
    BY DEF RunningIn
  <2> QED BY <1>1, <1>2, <2>1, <2>2, FS_AddElement, FS_CardinalityType
<1>3. CASE Kind(r) # t
  <2>1. RunningIn(after, t) = RunningIn(req, t)
    BY <1>3 DEF RunningIn
  <2> QED BY <1>1, <1>3, <2>1, FS_CardinalityType
<1> QED BY <1>2, <1>3

LEMMA EndOne ==
    ASSUME NEW req, NEW r, NEW s, NEW after,
           Sets(req, after, r, s), s # "granted"
    PROVE  \A t :
              /\ Cardinality(RunningIn(req, t)) \in Nat
              /\ Cardinality(RunningIn(after, t)) =
                    Cardinality(RunningIn(req, t))
                      - (IF req[r] = "granted" /\ Kind(r) = t THEN 1 ELSE 0)
<1> USE DEF Sets
<1> TAKE t
<1>1. IsFiniteSet(RunningIn(req, t))
  BY FS_Subset, ConcurrencyAssumption DEF RunningIn
<1>2. CASE req[r] = "granted" /\ Kind(r) = t
  <2>1. RunningIn(after, t) = RunningIn(req, t) \ {r}
    BY <1>2 DEF RunningIn
  <2>2. r \in RunningIn(req, t)
    BY <1>2 DEF RunningIn
  <2> QED BY <1>1, <1>2, <2>1, <2>2, FS_RemoveElement, FS_CardinalityType
<1>3. CASE ~(req[r] = "granted" /\ Kind(r) = t)
  <2>1. RunningIn(after, t) = RunningIn(req, t)
    BY <1>3 DEF RunningIn
  <2> QED BY <1>1, <1>3, <2>1, FS_CardinalityType
<1> QED BY <1>2, <1>3

-----------------------------------------------------------------------------
\* resolveNext() keeps every queue exact, and grants the head of the line it
\* works on, if there is one.
LEMMA ResolveNextStep ==
    ASSUME NEW t \in LimitedTypes, queue \in [LimitedTypes -> Seq(Requests)],
           NEW others \in [Requests -> Statuses], NEW line \in Seq(Requests),
           Holds(line, others, t),
           \A u \in LimitedTypes \ {t} : Holds(queue[u], others, u),
           ResolveNext(t, line, others)
    PROVE  /\ queue' \in [LimitedTypes -> Seq(Requests)]
           /\ request' \in [Requests -> Statuses]
           /\ \A u \in LimitedTypes : Holds(queue'[u], request', u)
           /\ \A u \in LimitedTypes \ {t} : queue'[u] = queue[u]
           /\ Len(queue'[t]) = Len(line) - (IF line = <<>> THEN 0 ELSE 1)
           /\ \A u \in LimitedTypes :
                 /\ Cardinality(RunningIn(others, u)) \in Nat
                 /\ Cardinality(RunningIn(request', u)) =
                      Cardinality(RunningIn(others, u))
                        + (IF u = t /\ line # <<>> THEN 1 ELSE 0)
<1>1. CASE line = <<>>
  <2>1. request' = others /\ queue' = [queue EXCEPT ![t] = <<>>]
    BY <1>1 DEF ResolveNext
  <2>2. \A u : Cardinality(RunningIn(others, u)) \in Nat
    BY FS_Subset, FS_CardinalityType, ConcurrencyAssumption DEF RunningIn
  <2> QED BY <1>1, <2>1, <2>2, EmptySeq
<1>2. CASE line # <<>>
  <2> DEFINE r == Head(line)
  <2>1. /\ r \in Requests
        /\ Tail(line) \in Seq(Requests)
        /\ Len(line) \in Nat \ {0}
        /\ Len(Tail(line)) = Len(line) - 1
        /\ \A i \in 1..(Len(line) - 1) : Tail(line)[i] = line[i + 1]
        /\ r = line[1]
    BY <1>2, HeadTailProperties, EmptySeq
  <2>2. /\ request' = [others EXCEPT ![r] = "granted"]
        /\ queue' = [queue EXCEPT ![t] = Tail(line)]
    BY <1>2 DEF ResolveNext
  <2> HIDE DEF r
  <2>3. others[r] = "queued" /\ Kind(r) = t
    BY <2>1 DEF Holds
  <2>8. Sets(others, request', r, "granted")
    BY <2>1, <2>2 DEF Sets, Statuses
  <2>4. Holds(Tail(line), request', t)
    <3>1. \A q \in Requests :
            request'[q] = "queued" /\ Kind(q) = t
                <=> \E i \in 1..Len(Tail(line)) : Tail(line)[i] = q
      <4> TAKE q \in Requests
      <4>1. ASSUME request'[q] = "queued", Kind(q) = t
            PROVE  \E i \in 1..Len(Tail(line)) : Tail(line)[i] = q
        <5>1. q # r /\ others[q] = "queued"
          BY <2>1, <2>2, <4>1
        <5>2. PICK i \in 1..Len(line) : line[i] = q
          BY <4>1, <5>1 DEF Holds
        <5>3. i - 1 \in 1..(Len(line) - 1) /\ (i - 1) + 1 = i
          BY <5>1, <5>2, <2>1
        <5> QED BY <5>2, <5>3, <2>1
      <4>2. ASSUME NEW i \in 1..Len(Tail(line)), Tail(line)[i] = q
            PROVE  request'[q] = "queued" /\ Kind(q) = t
        <5>1. i + 1 \in 1..Len(line) /\ line[i + 1] = q /\ i + 1 # 1
          BY <4>2, <2>1
        <5>2. others[q] = "queued" /\ Kind(q) = t
          BY <5>1 DEF Holds
        <5>3. q # r
          BY <5>1, <2>1 DEF Holds
        <5> QED BY <5>2, <5>3, <2>2
      <4> QED BY <4>1, <4>2
    <3>2. \A i, j \in 1..Len(Tail(line)) : Tail(line)[i] = Tail(line)[j] => i = j
      <4> TAKE i, j \in 1..Len(Tail(line))
      <4>1. i + 1 \in 1..Len(line) /\ j + 1 \in 1..Len(line)
        BY <2>1
      <4> QED BY <4>1, <2>1 DEF Holds
    <3> QED BY <3>1, <3>2 DEF Holds
  <2>5. \A u \in LimitedTypes \ {t} : Holds(queue'[u], request', u)
    <3> TAKE u \in LimitedTypes \ {t}
    <3>1. queue'[u] = queue[u] /\ Kind(r) # u
      BY <2>2, <2>3
    <3>2. \A q \in Requests : q = r \/ request'[q] = others[q]
      BY <2>2
    <3>3. request'[r] # "queued"
      BY <2>1, <2>2
    <3> QED BY <3>1, <3>2, <3>3, <2>1 DEF Holds
  <2>6. \A u \in LimitedTypes :
          /\ Cardinality(RunningIn(others, u)) \in Nat
          /\ Cardinality(RunningIn(request', u)) =
               Cardinality(RunningIn(others, u)) + (IF Kind(r) = u THEN 1 ELSE 0)
    BY <2>8, <2>3, GrantOne
  <2>7. request' \in [Requests -> Statuses]
    BY <2>2 DEF Statuses
  <2> QED BY <1>2, <2>1, <2>2, <2>3, <2>4, <2>5, <2>6, <2>7
<1> QED BY <1>1, <1>2

-----------------------------------------------------------------------------
\* A queue stays exact when the status of a request it does not concern changes.
LEMMA HoldsUnaffected ==
    ASSUME NEW req, NEW r, NEW s, NEW after, Sets(req, after, r, s),
           NEW u, NEW line, Holds(line, req, u),
           Kind(r) # u \/ (req[r] # "queued" /\ s # "queued")
    PROVE  Holds(line, after, u)
BY DEF Holds, Sets

\* A queue stays exact when a request is appended to it as it is throttled.
LEMMA HoldsAppended ==
    ASSUME NEW req, NEW r, NEW after, Sets(req, after, r, "queued"),
           req[r] # "queued", NEW line \in Seq(Requests), Holds(line, req, Kind(r))
    PROVE  Holds(Append(line, r), after, Kind(r))
<1> DEFINE longer == Append(line, r)
<1> USE DEF Sets
<1>1. /\ Len(line) \in Nat
      /\ Len(longer) = Len(line) + 1
      /\ \A i \in 1..Len(line) : longer[i] = line[i]
      /\ longer[Len(line) + 1] = r
  BY AppendProperties, LenProperties
<1>2. \A i \in 1..Len(line) : line[i] # r
  BY DEF Holds
<1>3. after \in [Requests -> Statuses] /\ after[r] = "queued"
  BY DEF Statuses
<1>4. \A q \in Requests : q # r => after[q] = req[q]
  OBVIOUS
<1> HIDE DEF longer
<1>5. ASSUME NEW q \in Requests
      PROVE  after[q] = "queued" /\ Kind(q) = Kind(r)
                <=> \E i \in 1..Len(longer) : longer[i] = q
  <2>1. CASE q = r
    BY <1>1, <1>3, <2>1
  <2>2. CASE q # r
    <3>1. (\E i \in 1..Len(longer) : longer[i] = q)
             <=> \E i \in 1..Len(line) : line[i] = q
      BY <1>1, <2>2
    <3> QED BY <1>4, <2>2, <3>1 DEF Holds
  <2> QED BY <2>1, <2>2
<1>6. \A i, j \in 1..Len(longer) : longer[i] = longer[j] => i = j
  BY <1>1, <1>2 DEF Holds
<1>7. Holds(longer, after, Kind(r))
  BY <1>5, <1>6 DEF Holds
<1> QED BY <1>7 DEF longer

\* What every step of the proof needs of the types.
LEMMA Typed ==
    ASSUME IInv
    PROVE  /\ isEnabled \in BOOLEAN
           /\ capacity \in [LimitedTypes -> Int]
           /\ queue \in [LimitedTypes -> Seq(Requests)]
           /\ request \in [Requests -> Statuses]
           /\ removals \in [LimitedTypes -> Nat]
           /\ \A u \in LimitedTypes :
                 /\ Limit[u] \in Int
                 /\ Len(queue[u]) \in Nat
                 /\ Cardinality(RunningIn(request, u)) \in Nat
<1>1. \A u : Cardinality(RunningIn(request, u)) \in Nat
  BY FS_Subset, FS_CardinalityType, ConcurrencyAssumption DEF RunningIn
<1> QED
  BY <1>1, ConcurrencyAssumption, LenProperties DEF IInv, TypeOK, Statuses, LimitedTypes

LEMMA InitIInv == Init => IInv
<1> SUFFICES ASSUME Init PROVE IInv
  OBVIOUS
<1>1. TypeOK
  BY ConcurrencyAssumption, EmptySeq DEF Init, TypeOK, LimitedTypes, Types
<1>2. ASSUME NEW t \in LimitedTypes
      PROVE  Balanced(t)
  <2>1. RunningIn(request, t) = {}
    BY DEF Init, RunningIn
  <2>2. Cardinality(RunningIn(request, t)) = 0
    BY <2>1, FS_EmptySet
  <2>3. /\ capacity[t] = Limit[t] /\ Limit[t] \in Int /\ Limit[t] > 0
        /\ removals[t] = 0 /\ queue[t] = <<>>
    BY ConcurrencyAssumption DEF Init, LimitedTypes, Types
  <2>4. Holds(queue[t], request, t)
    BY <2>3 DEF Init, Holds
  <2> QED BY <2>2, <2>3, <2>4 DEF Balanced
<1>3. \A r \in Requests : request[r] # "free"
  BY DEF Init
<1> QED BY <1>1, <1>2, <1>3 DEF IInv

LEMMA ThrottleIInv ==
    ASSUME IInv, NEW r \in Requests, Throttle(r)
    PROVE  IInv'
<1> DEFINE t == Kind(r)
<1>1. request[r] = "idle"
  BY DEF Throttle
<1>2. CASE PassThrough(r)
  <2>1. /\ request' = [request EXCEPT ![r] = "free"]
        /\ UNCHANGED <<isEnabled, capacity, queue, removals>>
        /\ Bypassed(r)
    BY <1>2 DEF PassThrough
  <2>6. Sets(request, request', r, "free")
    BY <2>1, Typed DEF Sets, Statuses
  <2>2. \A u : Cardinality(RunningIn(request', u)) = Cardinality(RunningIn(request, u))
    BY <1>1, <2>6, EndOne
  <2>3. \A u \in LimitedTypes : Holds(queue'[u], request', u)
    BY <1>1, <2>1, <2>6, HoldsUnaffected DEF IInv, Balanced
  <2>4. \A u \in LimitedTypes : Balanced(u)'
    BY <2>1, <2>2, <2>3 DEF IInv, Balanced
  <2>5. TypeOK'
    BY <2>1, Typed DEF TypeOK, Statuses
  <2> QED BY <2>1, <2>4, <2>5, Typed DEF IInv, Bypassed
<1>3. CASE ~Bypassed(r) /\ Enqueue(r)
  <2>1. isEnabled /\ t \in LimitedTypes
    BY <1>3 DEF Bypassed, Kind
  <2>2. /\ capacity' = [capacity EXCEPT ![t] = @ - 1]
        /\ UNCHANGED <<isEnabled, removals>>
    BY <1>3 DEF Enqueue, Kind
  <2>3. CASE /\ capacity[t] - 1 >= 0
             /\ request' = [request EXCEPT ![r] = "granted"]
             /\ UNCHANGED queue
    <3>5. Sets(request, request', r, "granted")
      BY <2>3, Typed DEF Sets, Statuses
    <3>1. \A u : Cardinality(RunningIn(request', u)) =
                   Cardinality(RunningIn(request, u)) + (IF t = u THEN 1 ELSE 0)
      BY <1>1, <3>5, GrantOne
    <3>2. \A u \in LimitedTypes : Holds(queue'[u], request', u)
      BY <1>1, <2>3, <3>5, HoldsUnaffected DEF IInv, Balanced
    <3>3. \A u \in LimitedTypes : Balanced(u)'
      <4> TAKE u \in LimitedTypes
      <4>1. Balanced(u)
        BY DEF IInv
      <4>2. /\ capacity'[u] = capacity[u] - (IF t = u THEN 1 ELSE 0)
            /\ capacity[u] \in Int /\ removals[u] \in Nat /\ Limit[u] \in Int
            /\ Len(queue[u]) \in Nat /\ queue'[u] = queue[u]
            /\ Cardinality(RunningIn(request, u)) \in Nat
        BY <2>1, <2>2, <2>3, Typed
      <4>3. t = u => capacity[u] >= 1
        BY <2>1, <2>3, Typed
      <4>4. queue[u] # <<>> => Len(queue[u]) > 0
        BY Typed, EmptySeq
      <4> QED BY <2>1, <2>2, <3>1, <3>2, <4>1, <4>2, <4>3, <4>4 DEF Balanced
    <3>4. TypeOK'
      BY <2>1, <2>2, <2>3, Typed DEF TypeOK, Statuses
    <3> QED BY <2>2, <2>3, <3>3, <3>4, Typed DEF IInv, Bypassed
  <2>4. CASE /\ capacity[t] - 1 < 0
             /\ request' = [request EXCEPT ![r] = "queued"]
             /\ queue' = [queue EXCEPT ![t] = Append(@, r)]
    <3>6. Sets(request, request', r, "queued")
      BY <2>4, Typed DEF Sets, Statuses
    <3>1. \A u : Cardinality(RunningIn(request', u)) = Cardinality(RunningIn(request, u))
      BY <1>1, <3>6, EndOne
    <3>2. /\ Append(queue[t], r) \in Seq(Requests)
          /\ Len(Append(queue[t], r)) = Len(queue[t]) + 1
      BY <2>1, Typed, AppendProperties
    <3>3. \A u \in LimitedTypes : Holds(queue'[u], request', u)
      <4> TAKE u \in LimitedTypes
      <4>1. CASE u = t
        BY <1>1, <2>4, <3>6, <4>1, HoldsAppended, Typed DEF IInv, Balanced
      <4>2. CASE u # t
        <5>1. queue'[u] = queue[u] /\ Holds(queue[u], request, u)
          BY <2>4, <4>2, Typed DEF IInv, Balanced
        <5> QED BY <3>6, <4>2, <5>1, HoldsUnaffected
      <4> QED BY <4>1, <4>2
    <3>4. \A u \in LimitedTypes : Balanced(u)'
      <4> TAKE u \in LimitedTypes
      <4>1. Balanced(u)
        BY DEF IInv
      <4>2. Len(queue'[u]) = Len(queue[u]) + (IF u = t THEN 1 ELSE 0)
        BY <2>1, <2>4, <3>2, Typed
      <4>3. queue[u] = <<>> => Len(queue[u]) = 0
        OBVIOUS
      <4>4. u # t => queue'[u] = queue[u]
        BY <2>4, Typed
      <4>5. /\ capacity'[u] = capacity[u] - (IF t = u THEN 1 ELSE 0)
            /\ capacity[u] \in Int /\ removals[u] \in Nat /\ Limit[u] \in Int
            /\ Len(queue[u]) \in Nat
            /\ Cardinality(RunningIn(request, u)) \in Nat
        BY <2>1, <2>2, Typed
      <4>6. t = u => capacity[u] < 1
        BY <2>1, <2>4, Typed
      <4>7. CASE u # t
        BY <2>2, <3>1, <3>3, <4>1, <4>4, <4>5, <4>7 DEF Balanced
      <4>8. CASE u = t
        <5>1. Cardinality(RunningIn(request, u)) >= Limit[u]
          BY <2>1, <4>1, <4>3, <4>5, <4>6, <4>8 DEF Balanced
        <5> QED BY <2>1, <2>2, <3>1, <3>3, <4>1, <4>2, <4>5, <4>8, <5>1, SMTT(30) DEF Balanced
      <4> QED BY <4>7, <4>8
    <3>5. TypeOK'
      BY <2>1, <2>2, <2>4, <3>2, Typed DEF TypeOK, Statuses
    <3> QED BY <2>2, <2>4, <3>4, <3>5, Typed DEF IInv, Bypassed
  <2> QED BY <1>3, <2>3, <2>4 DEF Enqueue, Kind
<1> QED BY <1>2, <1>3 DEF Throttle

\* A queue stays exact when an item is taken out and its request goes idle.
LEMMA HoldsRemoved ==
    ASSUME NEW line \in Seq(Requests), NEW i \in 1..Len(line), NEW t,
           NEW req, NEW after, Holds(line, req, t), Sets(req, after, line[i], "idle")
    PROVE  Holds(RemoveAt(line, i), after, t)
<1> DEFINE shorter == RemoveAt(line, i)
<1>1. /\ Len(line) \in Nat
      /\ Len(shorter) = Len(line) - 1
      /\ \A j \in 1..(Len(line) - 1) : shorter[j] = IF j < i THEN line[j] ELSE line[j + 1]
  BY RemoveAtProperties, LenProperties
<1>2. /\ line[i] \in Requests
      /\ after[line[i]] = "idle"
      /\ \A q \in Requests : q # line[i] => after[q] = req[q]
  BY DEF Sets
<1> HIDE DEF shorter
<1>3. \A j \in 1..Len(shorter) : \E k \in 1..Len(line) : k # i /\ shorter[j] = line[k]
  <2> TAKE j \in 1..Len(shorter)
  <2>1. CASE j < i
    <3>1. j \in 1..Len(line) /\ j # i /\ shorter[j] = line[j]
      BY <1>1, <2>1
    <3> QED BY <3>1
  <2>2. CASE ~(j < i)
    <3>1. j + 1 \in 1..Len(line) /\ j + 1 # i /\ shorter[j] = line[j + 1]
      BY <1>1, <2>2
    <3> QED BY <3>1
  <2> QED BY <2>1, <2>2
<1>4. \A k \in 1..Len(line) : k # i => \E j \in 1..Len(shorter) : shorter[j] = line[k]
  <2> SUFFICES ASSUME NEW k \in 1..Len(line), k # i
               PROVE  \E j \in 1..Len(shorter) : shorter[j] = line[k]
    OBVIOUS
  <2>1. CASE k < i
    <3>1. k \in 1..Len(shorter) /\ shorter[k] = line[k]
      BY <1>1, <2>1
    <3> QED BY <3>1
  <2>2. CASE ~(k < i)
    <3>1. k - 1 \in 1..Len(shorter) /\ (k - 1) + 1 = k /\ ~(k - 1 < i)
      BY <1>1, <2>2
    <3>2. shorter[k - 1] = line[k]
      BY <1>1, <3>1
    <3> QED BY <3>1, <3>2
  <2> QED BY <2>1, <2>2
<1>5. ASSUME NEW q \in Requests
      PROVE  after[q] = "queued" /\ Kind(q) = t
                <=> \E j \in 1..Len(shorter) : shorter[j] = q
  <2>1. CASE q = line[i]
    <3>1. \A k \in 1..Len(line) : k # i => line[k] # q
      BY <2>1 DEF Holds
    <3> QED BY <1>2, <1>3, <2>1, <3>1
  <2>2. CASE q # line[i]
    <3>1. (\E j \in 1..Len(shorter) : shorter[j] = q)
             <=> \E k \in 1..Len(line) : line[k] = q
      BY <1>3, <1>4, <2>2
    <3> QED BY <1>2, <2>2, <3>1 DEF Holds
  <2> QED BY <2>1, <2>2
<1>6. \A j, k \in 1..Len(shorter) : shorter[j] = shorter[k] => j = k
  <2> SUFFICES ASSUME NEW j \in 1..Len(shorter), NEW k \in 1..Len(shorter),
                      shorter[j] = shorter[k]
               PROVE  j = k
    OBVIOUS
  <2> DEFINE at(m) == IF m < i THEN m ELSE m + 1
  <2>1. /\ at(j) \in 1..Len(line) /\ shorter[j] = line[at(j)]
        /\ at(k) \in 1..Len(line) /\ shorter[k] = line[at(k)]
    BY <1>1
  <2>2. at(j) = at(k)
    BY <2>1 DEF Holds
  <2> QED BY <2>2
<1>7. Holds(shorter, after, t)
  BY <1>5, <1>6 DEF Holds
<1> QED BY <1>7 DEF shorter

LEMMA ReleaseIInv ==
    ASSUME IInv, NEW r \in Requests, Release(r)
    PROVE  IInv'
<1> DEFINE t == Kind(r)
<1>1. request[r] \in {"granted", "free"}
  BY DEF Release
<1>2. CASE Bypassed(r) /\ request' = [request EXCEPT ![r] = "idle"]
           /\ UNCHANGED <<isEnabled, capacity, queue, removals>>
  <2>1. Sets(request, request', r, "idle")
    BY <1>2, Typed DEF Sets, Statuses
  <2>2. \A u : Cardinality(RunningIn(request', u)) =
                 Cardinality(RunningIn(request, u))
                   - (IF request[r] = "granted" /\ t = u THEN 1 ELSE 0)
    BY <2>1, EndOne
  <2>3. \A u \in LimitedTypes : Balanced(u)'
    <3> TAKE u \in LimitedTypes
    <3>1. Balanced(u)
      BY DEF IInv
    <3>2. Holds(queue'[u], request', u)
      BY <1>1, <1>2, <2>1, <3>1, HoldsUnaffected DEF Balanced
    <3>3. isEnabled => t # u
      BY <1>2 DEF Bypassed, Kind
    <3>4. Limit[u] \in Int /\ removals[u] \in Nat
          /\ Cardinality(RunningIn(request, u)) \in Nat
      BY Typed
    <3>5. /\ Cardinality(RunningIn(request', u)) \in Int
          /\ Cardinality(RunningIn(request', u)) <= Cardinality(RunningIn(request, u))
          /\ isEnabled => Cardinality(RunningIn(request', u)) =
                             Cardinality(RunningIn(request, u))
      BY <2>2, <3>3, <3>4
    <3>6. /\ queue'[u] = queue[u] /\ capacity'[u] = capacity[u]
          /\ removals'[u] = removals[u] /\ isEnabled' = isEnabled
      BY <1>2
    <3> QED BY <3>1, <3>2, <3>4, <3>5, <3>6 DEF Balanced
  <2>4. TypeOK'
    BY <1>2, Typed DEF TypeOK, Statuses
  <2> QED BY <1>2, <2>3, <2>4, Typed DEF IInv, Bypassed
<1>3. CASE ~Bypassed(r) /\ Dequeue(r)
  <2> DEFINE others == [request EXCEPT ![r] = "idle"]
  <2>1. isEnabled /\ t \in LimitedTypes /\ request[r] = "granted"
    BY <1>1, <1>3 DEF Bypassed, Kind, IInv
  <2>2. /\ capacity' = [capacity EXCEPT ![t] = @ + 1]
        /\ ResolveNext(t, queue[t], others)
        /\ UNCHANGED <<isEnabled, removals>>
    BY <1>3 DEF Dequeue, Kind
  <2>3. Sets(request, others, r, "idle") /\ others \in [Requests -> Statuses]
    BY Typed DEF Sets, Statuses
  <2> HIDE DEF others
  <2>4. \A u : Cardinality(RunningIn(others, u)) =
                 Cardinality(RunningIn(request, u)) - (IF t = u THEN 1 ELSE 0)
    BY <2>1, <2>3, EndOne
  <2>5. \A u \in LimitedTypes : Holds(queue[u], others, u)
    BY <2>1, <2>3, HoldsUnaffected DEF IInv, Balanced
  <2>6. /\ queue' \in [LimitedTypes -> Seq(Requests)]
        /\ request' \in [Requests -> Statuses]
        /\ \A u \in LimitedTypes : Holds(queue'[u], request', u)
        /\ \A u \in LimitedTypes \ {t} : queue'[u] = queue[u]
        /\ Len(queue'[t]) = Len(queue[t]) - (IF queue[t] = <<>> THEN 0 ELSE 1)
        /\ \A u \in LimitedTypes :
              Cardinality(RunningIn(request', u)) =
                   Cardinality(RunningIn(others, u))
                     + (IF u = t /\ queue[t] # <<>> THEN 1 ELSE 0)
    BY <2>1, <2>2, <2>3, <2>5, ResolveNextStep, Typed
  <2>7. \A u \in LimitedTypes : Balanced(u)'
    <3> TAKE u \in LimitedTypes
    <3>1. Balanced(u)
      BY DEF IInv
    <3>2. /\ capacity'[u] = capacity[u] + (IF t = u THEN 1 ELSE 0)
          /\ capacity[u] \in Int /\ removals'[u] = removals[u] /\ removals[u] \in Nat
          /\ Limit[u] \in Int /\ Len(queue[u]) \in Nat
          /\ Cardinality(RunningIn(request, u)) \in Nat
          /\ isEnabled' = isEnabled
      BY <2>1, <2>2, Typed
    <3>3. CASE u # t
      BY <2>1, <2>4, <2>6, <3>1, <3>2, <3>3 DEF Balanced
    <3>4. CASE u = t
      <4>1. queue[u] = <<>> => queue'[u] = <<>>
        BY <2>2, <2>1, <3>4, Typed DEF ResolveNext
      <4>2. CASE queue[u] = <<>>
        <5>1. /\ Len(queue[u]) = 0 /\ Len(queue'[u]) = 0
              /\ Cardinality(RunningIn(request', u)) =
                    Cardinality(RunningIn(request, u)) - 1
          BY <2>4, <2>6, <3>2, <3>4, <4>1, <4>2
        <5>2. Holds(queue'[u], request', u)
          BY <2>6
        <5> QED BY <2>1, <3>1, <3>2, <3>4, <4>1, <4>2, <5>1, <5>2 DEF Balanced
      <4>3. CASE queue[u] # <<>>
        <5>1. /\ Len(queue'[u]) = Len(queue[u]) - 1
              /\ Cardinality(RunningIn(request', u)) =
                    Cardinality(RunningIn(request, u))
          BY <2>4, <2>6, <3>2, <3>4, <4>3
        <5>2. Holds(queue'[u], request', u)
          BY <2>6
        <5>3. /\ capacity[u] = Limit[u] - Cardinality(RunningIn(request, u))
                                  - Len(queue[u])
              /\ Cardinality(RunningIn(request, u)) >= Limit[u]
              /\ Cardinality(RunningIn(request, u)) <= Limit[u] + removals[u]
          BY <2>1, <3>1, <4>3 DEF Balanced
        <5>4. capacity'[u] = capacity[u] + 1
          BY <3>2, <3>4
        <5>5. capacity'[u] = Limit[u] - Cardinality(RunningIn(request', u))
                                - Len(queue'[u])
          BY <3>2, <5>1, <5>3, <5>4
        <5> QED BY <3>2, <5>1, <5>2, <5>3, <5>5 DEF Balanced
      <4> QED BY <4>2, <4>3
    <3> QED BY <3>3, <3>4
  <2>8. TypeOK'
    BY <2>1, <2>2, <2>6, Typed DEF TypeOK, Statuses
  <2>9. \A q \in Requests : request'[q] = "free" => request[q] = "free"
    BY <2>1, <2>2, <2>3, Typed DEF ResolveNext, Sets
  <2> QED BY <2>2, <2>7, <2>8, <2>9 DEF IInv, Bypassed
<1> QED BY <1>2, <1>3 DEF Release

LEMMA RemoveQueuedIInv ==
    ASSUME IInv, NEW e \in Executions, NEW i, RemoveQueued(e, i)
    PROVE  IInv'
<1> DEFINE t == QueueOf(e)
           r == queue[t][i]
           line == RemoveAt(queue[t], i)
           others == [request EXCEPT ![r] = "idle"]
<1>1. /\ isEnabled /\ t \in LimitedTypes /\ i \in 1..Len(queue[t])
      /\ removals' = [removals EXCEPT ![t] = @ + 1]
      /\ capacity' = [capacity EXCEPT ![t] = @ + 1]
      /\ ResolveNext(t, line, others)
      /\ UNCHANGED isEnabled
  BY DEF RemoveQueued
<1>2. r \in Requests /\ request[r] = "queued" /\ Kind(r) = t
  BY <1>1, Typed, ElementOfSeq DEF IInv, Balanced, Holds
<1>3. Sets(request, others, r, "idle") /\ others \in [Requests -> Statuses]
  BY <1>2, Typed DEF Sets, Statuses
<1> HIDE DEF others
<1>4. \A u : Cardinality(RunningIn(others, u)) = Cardinality(RunningIn(request, u))
  <2> TAKE u
  <2>1. Cardinality(RunningIn(request, u)) \in Nat
    BY <1>3, EndOne
  <2> QED BY <1>2, <1>3, <2>1, EndOne
<1>5. /\ line \in Seq(Requests)
      /\ Len(line) = Len(queue[t]) - 1
  BY <1>1, Typed, RemoveAtProperties
<1>6. Holds(line, others, t)
  BY <1>1, <1>3, Typed, HoldsRemoved DEF IInv, Balanced
<1>7. \A u \in LimitedTypes \ {t} : Holds(queue[u], others, u)
  BY <1>2, <1>3, HoldsUnaffected DEF IInv, Balanced
<1> HIDE DEF t, r, line
<1>8. /\ queue' \in [LimitedTypes -> Seq(Requests)]
      /\ request' \in [Requests -> Statuses]
      /\ \A u \in LimitedTypes : Holds(queue'[u], request', u)
      /\ \A u \in LimitedTypes \ {t} : queue'[u] = queue[u]
      /\ Len(queue'[t]) = Len(line) - (IF line = <<>> THEN 0 ELSE 1)
      /\ \A u \in LimitedTypes :
            Cardinality(RunningIn(request', u)) =
                 Cardinality(RunningIn(others, u))
                   + (IF u = t /\ line # <<>> THEN 1 ELSE 0)
  BY <1>1, <1>3, <1>5, <1>6, <1>7, ResolveNextStep, Typed
<1>9. \A u \in LimitedTypes : Balanced(u)'
  <2> TAKE u \in LimitedTypes
  <2>1. Balanced(u)
    BY DEF IInv
  <2>2. /\ capacity'[u] = capacity[u] + (IF t = u THEN 1 ELSE 0)
        /\ removals'[u] = removals[u] + (IF t = u THEN 1 ELSE 0)
        /\ capacity[u] \in Int /\ removals[u] \in Nat
        /\ Limit[u] \in Int /\ Len(queue[u]) \in Nat
        /\ Cardinality(RunningIn(request, u)) \in Nat
        /\ isEnabled' = isEnabled
    BY <1>1, Typed
  <2>3. CASE u # t
    BY <1>1, <1>4, <1>8, <2>1, <2>2, <2>3 DEF Balanced
  <2>4. CASE u = t
    <3>1. queue[u] # <<>>
      BY <1>1, <2>4, EmptySeq
    <3>4. /\ capacity[u] = Limit[u] - Cardinality(RunningIn(request, u))
                              - Len(queue[u])
          /\ Cardinality(RunningIn(request, u)) >= Limit[u]
          /\ Cardinality(RunningIn(request, u)) <= Limit[u] + removals[u]
      BY <1>1, <2>1, <3>1 DEF Balanced
    <3>5. capacity'[u] = capacity[u] + 1 /\ removals'[u] = removals[u] + 1
      BY <2>2, <2>4
    <3>6. /\ capacity[u] \in Int /\ removals[u] \in Nat
          /\ Limit[u] \in Int /\ Len(queue[u]) \in Nat
          /\ Cardinality(RunningIn(request, u)) \in Nat
      BY <2>2
    <3>2. CASE line = <<>>
      <4>1. /\ Len(queue'[u]) = Len(queue[u]) - 1
            /\ queue'[u] = <<>>
            /\ Cardinality(RunningIn(request', u)) = Cardinality(RunningIn(request, u))
        BY <1>1, <1>4, <1>5, <1>8, <2>2, <2>4, <3>2, Typed DEF ResolveNext
      <4>2. Holds(queue'[u], request', u) /\ isEnabled
        BY <1>1, <1>8
      <4>3. capacity'[u] = Limit[u] - Cardinality(RunningIn(request', u))
                              - Len(queue'[u])
        <5> DEFINE l == Limit[u]
                   n == Cardinality(RunningIn(request, u))
                   q == Len(queue[u])
        <5>1. l \in Int /\ n \in Int /\ q \in Int
          BY <3>6
        <5>2. capacity'[u] = l - n - q + 1
          BY <3>4, <3>5
        <5>3. Cardinality(RunningIn(request', u)) = n /\ Len(queue'[u]) = q - 1
          BY <4>1
        <5> HIDE DEF l, n, q
        <5>4. capacity'[u] = l - n - (q - 1)
          BY <5>1, <5>2
        <5> QED BY <5>3, <5>4 DEF l
      <4> QED BY <2>2, <3>4, <3>5, <4>1, <4>2, <4>3 DEF Balanced
    <3>3. CASE line # <<>>
      <4>1. /\ Len(queue'[u]) = Len(queue[u]) - 2
            /\ Cardinality(RunningIn(request', u)) =
                  Cardinality(RunningIn(request, u)) + 1
        BY <1>4, <1>5, <1>8, <2>2, <2>4, <3>3
      <4>2. Holds(queue'[u], request', u) /\ isEnabled
        BY <1>1, <1>8
      <4>3. capacity'[u] = Limit[u] - Cardinality(RunningIn(request', u))
                              - Len(queue'[u])
        <5> DEFINE l == Limit[u]
                   n == Cardinality(RunningIn(request, u))
                   q == Len(queue[u])
        <5>1. l \in Int /\ n \in Int /\ q \in Int
          BY <3>6
        <5>2. capacity'[u] = l - n - q + 1
          BY <3>4, <3>5
        <5>3. Cardinality(RunningIn(request', u)) = n + 1 /\ Len(queue'[u]) = q - 2
          BY <4>1
        <5> HIDE DEF l, n, q
        <5>4. capacity'[u] = l - (n + 1) - (q - 2)
          BY <5>1, <5>2
        <5> QED BY <5>3, <5>4 DEF l
      <4> QED BY <2>2, <3>4, <3>5, <4>1, <4>2, <4>3 DEF Balanced
    <3> QED BY <3>2, <3>3
  <2> QED BY <2>3, <2>4
<1>10. TypeOK'
  BY <1>1, <1>8, Typed DEF TypeOK, Statuses
<1>11. \A q \in Requests : request'[q] = "free" => request[q] = "free"
  BY <1>1, <1>3, Typed DEF ResolveNext, Sets
<1> QED BY <1>1, <1>9, <1>10, <1>11 DEF IInv, Bypassed

LEMMA DisableIInv ==
    ASSUME IInv, Disable
    PROVE  IInv'
<1>1. /\ isEnabled' = FALSE
      /\ UNCHANGED <<capacity, queue, request, removals>>
  BY DEF Disable
<1>2. \A t \in LimitedTypes : Balanced(t)'
  BY <1>1 DEF IInv, Balanced
<1>3. TypeOK'
  BY <1>1 DEF IInv, TypeOK
<1> QED BY <1>1, <1>2, <1>3 DEF IInv, Bypassed

LEMMA StutterIInv == IInv /\ UNCHANGED vars => IInv'
BY DEF IInv, vars, TypeOK, Balanced, Bypassed

LEMMA NextIInv == IInv /\ [Next]_vars => IInv'
<1> SUFFICES ASSUME IInv, [Next]_vars PROVE IInv'
  OBVIOUS
<1>1. ASSUME NEW r \in Requests, Throttle(r) PROVE IInv'
  BY <1>1, ThrottleIInv
<1>2. ASSUME NEW r \in Requests, Release(r) PROVE IInv'
  BY <1>2, ReleaseIInv
<1>3. ASSUME NEW e \in Executions, NEW i \in 1..Cardinality(Requests),
             RemoveQueued(e, i)
      PROVE  IInv'
  BY <1>3, RemoveQueuedIInv
<1>4. CASE Disable
  BY <1>4, DisableIInv
<1>5. CASE UNCHANGED vars
  BY <1>5, StutterIInv
<1> QED BY <1>1, <1>2, <1>3, <1>4, <1>5 DEF Next

\* The invariant says what the checked ones say.
LEMMA IInvImplies ==
    IInv => /\ TypeOK
            /\ QueueHoldsThrottled
            /\ CapacityAccounting
            /\ NoIdleCapacity
            /\ OverrunBoundedByRemovals
<1>1. \A t : RunningIn(request, t) = Running(t)
  BY DEF RunningIn, Running, Kind
<1>2. (\A t \in LimitedTypes : Holds(queue[t], request, t)) => QueueHoldsThrottled
  BY DEF QueueHoldsThrottled, Throttled, Holds, Kind
<1> QED
  BY <1>1, <1>2 DEF IInv, Balanced, CapacityAccounting, NoIdleCapacity,
                    OverrunBoundedByRemovals

-----------------------------------------------------------------------------
(* The order in which the executions of a queue are let in *)

\* What the invariant says of the queue of one type.
LEMMA QueueHolds ==
    ASSUME IInv, NEW t \in LimitedTypes
    PROVE  /\ queue[t] \in Seq(Requests)
           /\ Len(queue[t]) \in Nat
           /\ \A i \in 1..Len(queue[t]) :
                 /\ queue[t][i] \in Requests
                 /\ request[queue[t][i]] = "queued" /\ Kind(queue[t][i]) = t
           /\ \A i, j \in 1..Len(queue[t]) : queue[t][i] = queue[t][j] => i = j
<1>1. Holds(queue[t], request, t)
  BY DEF IInv, Balanced
<1>2. queue[t] \in Seq(Requests) /\ Len(queue[t]) \in Nat
  BY Typed
<1>3. \A i \in 1..Len(queue[t]) : queue[t][i] \in Requests
  BY <1>2, ElementOfSeq
<1> QED BY <1>1, <1>2, <1>3 DEF Holds

\* r is the request at place i of the queue of t, and none before it waits
\* any more once the requests are as in after.
ServedAt(r, t, i, after) ==
    /\ i \in 1..Len(queue[t]) /\ queue[t][i] = r
    /\ \A j \in 1..(i-1) : after[queue[t][j]] # "queued"

\* A request that starts to run while others of its type wait is one of them,
\* and none before it is left waiting.
Served(r, t) == queue[t] # <<>> => \E i : ServedAt(r, t, i, request')

\* What resolveNext() lets in: the head of the line, and nothing else.
LEMMA ResolveNextGrants ==
    ASSUME NEW t, NEW others \in [Requests -> Statuses], NEW line \in Seq(Requests),
           ResolveNext(t, line, others),
           NEW r \in Requests, request'[r] = "granted", others[r] # "granted"
    PROVE  line # <<>> /\ r = line[1] /\ request' = [others EXCEPT ![r] = "granted"]
<1>1. line # <<>>
  BY DEF ResolveNext
<1>2. Head(line) = line[1]
  BY <1>1, HeadTailProperties
<1>3. request' = [others EXCEPT ![Head(line)] = "granted"]
  BY <1>1 DEF ResolveNext
<1>4. r = Head(line)
  BY <1>3
<1> QED BY <1>1, <1>2, <1>3, <1>4

\* A call of throttle() is let in only when nobody waits: it needs capacity.
LEMMA ThrottleServes ==
    ASSUME IInv, NEW q \in Requests, Throttle(q), NEW t \in LimitedTypes,
           NEW r \in Requests, Kind(r) = t, request'[r] = "granted", request[r] # "granted"
    PROVE  Served(r, t)
<1>1. request \in [Requests -> Statuses]
  BY Typed
<1>2. ~PassThrough(q)
  BY <1>1 DEF PassThrough
<1>3. ~Bypassed(q) /\ Enqueue(q)
  BY <1>2 DEF Throttle
<1>4. /\ capacity[Kind(q)] - 1 >= 0
      /\ request' = [request EXCEPT ![q] = "granted"]
  BY <1>1, <1>3 DEF Enqueue, Kind
<1>5. q = r /\ isEnabled
  BY <1>1, <1>3, <1>4 DEF Bypassed
<1>6. /\ capacity[t] = Limit[t] - Cardinality(RunningIn(request, t)) - Len(queue[t])
      /\ queue[t] # <<>> => Cardinality(RunningIn(request, t)) >= Limit[t]
  BY <1>5 DEF IInv, Balanced
<1>7. /\ Limit[t] \in Int /\ Len(queue[t]) \in Nat
      /\ Cardinality(RunningIn(request, t)) \in Nat
  BY Typed
<1> QED BY <1>4, <1>5, <1>6, <1>7 DEF Served

\* release() lets in the first request of the queue.
LEMMA ReleaseServes ==
    ASSUME IInv, NEW q \in Requests, Release(q), NEW t \in LimitedTypes,
           NEW r \in Requests, Kind(r) = t, request'[r] = "granted", request[r] # "granted"
    PROVE  Served(r, t)
<1> DEFINE u == Kind(q)
           others == [request EXCEPT ![q] = "idle"]
<1>1. request \in [Requests -> Statuses]
  BY Typed
<1>2. ~(request' = [request EXCEPT ![q] = "idle"])
  BY <1>1
<1>3. ~Bypassed(q) /\ Dequeue(q)
  BY <1>2 DEF Release
<1>4. u \in LimitedTypes /\ ResolveNext(u, queue[u], others)
  BY <1>3 DEF Bypassed, Dequeue, Kind
<1>5. others \in [Requests -> Statuses] /\ others[r] # "granted"
  BY <1>1 DEF Statuses
<1> HIDE DEF others, u
<1>6. queue[u] # <<>> /\ r = queue[u][1]
  BY <1>4, <1>5, ResolveNextGrants, QueueHolds
<1>7. 1 \in 1..Len(queue[u])
  BY <1>4, <1>6, QueueHolds, EmptySeq
<1>8. u = t
  BY <1>4, <1>6, <1>7, QueueHolds
<1> QED BY <1>6, <1>7, <1>8 DEF Served, ServedAt

\* remove() lets in the first request that it leaves in the queue: the first,
\* or the second when the first is the one that was stopped.
LEMMA RemoveQueuedServes ==
    ASSUME IInv, NEW e \in Executions, NEW k, RemoveQueued(e, k), NEW t \in LimitedTypes,
           NEW r \in Requests, Kind(r) = t, request'[r] = "granted", request[r] # "granted"
    PROVE  Served(r, t)
<1> DEFINE u == QueueOf(e)
           q == queue[u][k]
           line == RemoveAt(queue[u], k)
           others == [request EXCEPT ![q] = "idle"]
<1>1. /\ u \in LimitedTypes /\ k \in 1..Len(queue[u])
      /\ ResolveNext(u, line, others)
  BY DEF RemoveQueued
<1>2. request \in [Requests -> Statuses] /\ q \in Requests
  BY <1>1, Typed, QueueHolds
<1>3. others \in [Requests -> Statuses] /\ others[r] # "granted" /\ others[q] = "idle"
  BY <1>2 DEF Statuses
<1>4. /\ line \in Seq(Requests) /\ Len(line) = Len(queue[u]) - 1
      /\ \A j \in 1..(Len(queue[u]) - 1) :
            line[j] = IF j < k THEN queue[u][j] ELSE queue[u][j + 1]
  <2>1. queue[u] \in Seq(Requests)
    BY <1>1, QueueHolds
  <2> QED BY <1>1, <2>1, RemoveAtProperties
<1> HIDE DEF others, line
<1>5. line # <<>> /\ r = line[1] /\ request' = [others EXCEPT ![r] = "granted"]
  BY <1>1, <1>3, <1>4, ResolveNextGrants
<1>6. Len(queue[u]) \in Nat /\ 1 \in 1..(Len(queue[u]) - 1)
  BY <1>1, <1>4, <1>5, QueueHolds, EmptySeq
<1>7. request'[q] # "queued"
  BY <1>2, <1>3, <1>5
<1> DEFINE i == IF 1 < k THEN 1 ELSE 2
<1>8. i \in 1..Len(queue[u]) /\ queue[u][i] = r
  BY <1>1, <1>4, <1>5, <1>6
<1>9. \A j \in 1..(i-1) : queue[u][j] = q
  BY <1>1, <1>6
<1> HIDE DEF i, q
<1>10. u = t
  BY <1>1, <1>8, QueueHolds
<1> QED BY <1>7, <1>8, <1>9, <1>10 DEF Served, ServedAt

\* Every step that lets a request in serves its queue in order.
LEMMA NextServes ==
    ASSUME IInv, [Next]_vars, NEW t \in LimitedTypes, NEW r \in Requests,
           Kind(r) = t, request'[r] = "granted", request[r] # "granted"
    PROVE  Served(r, t)
<1>1. ASSUME NEW q \in Requests, Throttle(q) PROVE Served(r, t)
  BY <1>1, ThrottleServes
<1>2. ASSUME NEW q \in Requests, Release(q) PROVE Served(r, t)
  BY <1>2, ReleaseServes
<1>3. ASSUME NEW e \in Executions, NEW i \in 1..Cardinality(Requests), RemoveQueued(e, i)
      PROVE  Served(r, t)
  BY <1>3, RemoveQueuedServes
<1>4. CASE Disable \/ UNCHANGED vars
  BY <1>4 DEF Disable, vars
<1> QED BY <1>1, <1>2, <1>3, <1>4 DEF Next

\* The action of FirstComeFirstServed follows from the invariant.
LEMMA StepServes ==
    ASSUME IInv, [Next]_vars, NEW t \in LimitedTypes, NEW r \in Requests,
           r \in Running(t)', r \notin Running(t), queue[t] # <<>>
    PROVE  /\ r \in Throttled(t)
           /\ \A i \in 1..Len(queue[t]) : queue[t][i] = r =>
                 \A j \in 1..(i-1) : queue[t][j] \notin Throttled(t)'
<1>1. Kind(r) = t /\ request'[r] = "granted" /\ request[r] # "granted"
  BY DEF Running, Kind
<1>2. PICK i : ServedAt(r, t, i, request')
  BY <1>1, NextServes DEF Served
<1>3. /\ request[r] = "queued"
      /\ \A k \in 1..Len(queue[t]) : queue[t][k] = r => k = i
  BY <1>2, QueueHolds DEF ServedAt
<1>4. \A j \in 1..(i-1) : queue[t][j] \notin Throttled(t)'
  BY <1>2 DEF ServedAt, Throttled
<1> QED BY <1>1, <1>3, <1>4 DEF Throttled, Kind

-----------------------------------------------------------------------------
LEMMA Invariance == Spec => []IInv
BY InitIInv, NextIInv, PTL DEF Spec

\* The fields keep their types whatever the order of the calls.
THEOREM TypeCorrect == Spec => []TypeOK
BY Invariance, IInvImplies, PTL

\* Every throttled request is in its queue exactly once (enqueue, remove and
\* resolveNext), for any number of requests and any repetition of ids.
THEOREM QueueExact == Spec => []QueueHoldsThrottled
BY Invariance, IInvImplies, PTL

\* The capacity field counts the running and the throttled executions.
THEOREM CapacityAccounted == Spec => []CapacityAccounting
BY Invariance, IInvImplies, PTL

\* No execution is throttled while a slot is idle.
THEOREM WorkConserving == Spec => []NoIdleCapacity
BY Invariance, IInvImplies, PTL

\* The limit is exceeded by at most one execution per removal from the queue.
THEOREM OverrunBounded == Spec => []OverrunBoundedByRemovals
BY Invariance, IInvImplies, PTL

\* Executions leave a queue in the order in which throttle() put them there,
\* and none overtakes one that waits, whatever is released or removed between.
THEOREM ServedInOrder == Spec => FirstComeFirstServed
<1>1. IInv /\ [Next]_vars =>
          [\A t \in LimitedTypes : \A r \in Requests :
              /\ r \in Running(t)' /\ r \notin Running(t)
              /\ queue[t] # <<>>
              => r \in Throttled(t)
                 /\ \A i \in 1..Len(queue[t]) :
                       queue[t][i] = r =>
                           \A j \in 1..(i-1) : queue[t][j] \notin Throttled(t)']_vars
  BY StepServes
<1> QED BY <1>1, Invariance, PTL DEF Spec, FirstComeFirstServed
=============================================================================
