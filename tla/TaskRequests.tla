---------------------------- MODULE TaskRequests ----------------------------
(***************************************************************************)
(* What the broker and the runners together promise to the callers of      *)
(* startTask(): a call waits until its task is ready, that is with one     *)
(* runner, and gets one answer; the code of the task runs at most once,    *)
(* and never before the task is ready.  An answer does not wait for the    *)
(* code: the task may have timed out, or its runner may be gone.           *)
(***************************************************************************)
EXTENDS Integers

CONSTANT Requests

VARIABLES request,  \* idle, waiting, ready or answered
          executed  \* how often a runner began to execute the code

Init ==
    /\ request = [q \in Requests |-> "idle"]
    /\ executed = [q \in Requests |-> 0]

Ask(q) ==
    /\ request[q] = "idle"
    /\ request' = [request EXCEPT ![q] = "waiting"]
    /\ UNCHANGED executed

Assign(q) ==
    /\ request[q] = "waiting"
    /\ request' = [request EXCEPT ![q] = "ready"]
    /\ UNCHANGED executed

\* A runner that goes takes several tasks with it.
Answer(Q) ==
    /\ \A q \in Q : request[q] = "ready"
    /\ request' = [q \in Requests |-> IF q \in Q THEN "answered" ELSE request[q]]
    /\ UNCHANGED executed

Execute(q) ==
    /\ request[q] \in {"ready", "answered"}
    /\ executed[q] = 0
    /\ executed' = [executed EXCEPT ![q] = 1]
    /\ UNCHANGED request

Next ==
    \/ \E q \in Requests : Ask(q) \/ Assign(q) \/ Execute(q)
    \/ \E Q \in SUBSET Requests : Answer(Q)

Spec == Init /\ [][Next]_<<request, executed>>
=============================================================================
