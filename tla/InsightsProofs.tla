---------------------------- MODULE InsightsProofs ----------------------------
(***************************************************************************)
(* The collection of insights neither loses nor repeats an event, a main   *)
(* that saves synchronously holds nothing nobody waits for, and compaction *)
(* counts what was saved once: for any number of mains, executions and     *)
(* workflows, any batch size, and any failures.                            *)
(***************************************************************************)
EXTENDS Insights, QueueLemmas, FiniteSetTheorems, TLAPS

Stages == {"running", "flushing", "flushed", "ended"}
Phases == {"up", "stopping", "stopped", "exited"}

Flush == [events : SUBSET Events, at : {"finding", "inserting"},
          created : SUBSET Workflows, waiter : Events \cup {None}, awaited : BOOLEAN]

Service == [buffer : SUBSET Events, flushes : SUBSET Flush, timer : BOOLEAN, async : BOOLEAN]

\* The events that a collection service with the fields s holds.
HeldBy(s) == s.buffer \cup UNION {f.events : f \in s.flushes}

\* It holds none of them twice.
Disjoint(s) ==
    /\ \A f \in s.flushes : f.events \cap s.buffer = {}
    /\ \A f, g \in s.flushes : f.events \cap g.events # {} => f = g

Awaited(s) ==
    ~s.async => /\ s.buffer = {}
                /\ \A f \in s.flushes : f.awaited \/ f.waiter # None

Good(s) == s \in Service /\ Disjoint(s) /\ Awaited(s)

\* The executions that wait for its flushes are as in stages.
Ended(s, stages) == \A f \in s.flushes : f.waiter # None => stages[f.waiter].at # "running"

\* Inductive.  A waiter has ended, so that the end of its flush makes no
\* execution look as if its events had been collected; an event is not saved
\* before its execution ends, so that the one that is collected is new.
IInv ==
    /\ service \in [Mains -> Service]
    /\ execution \in [Events -> [main : Mains, at : Stages]]
    /\ phase \in [Mains -> Phases]
    /\ \A m \in Mains : Good(service[m]) /\ Ended(service[m], execution)
    /\ \A m \in Mains : \A e \in HeldBy(service[m]) :
          m = execution[e].main /\ execution[e].at # "running" /\ e \notin saved
    /\ \A e \in Events :
          /\ e \in saved => execution[e].at # "running"
          /\ execution[e].at # "running" /\ phase[execution[e].main] # "exited" =>
                e \in saved \/ e \in HeldBy(service[execution[e].main])

-----------------------------------------------------------------------------
(* What the operations of the service make of its fields *)

LEMMA StartFlushingTimerGood ==
    ASSUME NEW s \in Service, Disjoint(s)
    PROVE  /\ Good(StartFlushingTimer(s))
           /\ HeldBy(StartFlushingTimer(s)) = HeldBy(s)
           /\ StartFlushingTimer(s).flushes = s.flushes
BY DEF StartFlushingTimer, Service, Good, Disjoint, Awaited, HeldBy

LEMMA StopFlushingTimerGood ==
    ASSUME NEW s \in Service, Good(s)
    PROVE  /\ Good(StopFlushingTimer(s))
           /\ HeldBy(StopFlushingTimer(s)) = HeldBy(s)
           /\ StopFlushingTimer(s).flushes = s.flushes
BY DEF StopFlushingTimer, Service, Good, Disjoint, Awaited, HeldBy

\* A flush takes over what was in the buffer; somebody waits for it if the
\* service is to go on saving synchronously.
LEMMA FlushEventsGood ==
    ASSUME NEW s \in Service, Disjoint(s),
           NEW waiter \in Events \cup {None}, NEW awaited \in BOOLEAN,
           ~s.async => /\ awaited \/ waiter # None
                       /\ \A f \in s.flushes : f.awaited \/ f.waiter # None
    PROVE  /\ Good(FlushEvents(s, waiter, awaited))
           /\ HeldBy(FlushEvents(s, waiter, awaited)) = HeldBy(s)
           /\ \A f \in FlushEvents(s, waiter, awaited).flushes :
                 f \in s.flushes \/ f.waiter = waiter
<1> DEFINE after == FlushEvents(s, waiter, awaited)
           new == [events |-> s.buffer, at |-> "finding", created |-> {},
                   waiter |-> waiter, awaited |-> awaited]
<1>1. CASE s.buffer = {}
  BY <1>1, StartFlushingTimerGood DEF FlushEvents
<1>2. CASE s.buffer # {}
  <2>1. /\ after = [s EXCEPT !.timer = FALSE, !.buffer = {}, !.flushes = @ \cup {new}]
        /\ after.buffer = {} /\ after.flushes = s.flushes \cup {new}
        /\ after.async = s.async
    BY <1>2 DEF FlushEvents, StopFlushingTimer, Service
  <2>2. new \in Flush
    BY DEF Flush, Service
  <2>3. after \in Service
    BY <2>1, <2>2 DEF Service
  <2>4. Disjoint(after)
    BY <2>1 DEF Disjoint
  <2>5. Awaited(after)
    BY <2>1 DEF Awaited
  <2>6. HeldBy(after) = HeldBy(s)
    <3>1. new.events = s.buffer
      OBVIOUS
    <3> HIDE DEF after, new
    <3> QED BY <2>1, <3>1 DEF HeldBy
  <2> QED BY <2>1, <2>3, <2>4, <2>5, <2>6 DEF Good
<1> QED BY <1>1, <1>2

LEMMA FlushIfFullGood ==
    ASSUME NEW s \in Service, Good(s)
    PROVE  /\ Good(FlushIfFull(s))
           /\ HeldBy(FlushIfFull(s)) = HeldBy(s)
           /\ \A f \in FlushIfFull(s).flushes : f \in s.flushes \/ f.waiter = None
<1>1. CASE Cardinality(s.buffer) >= FlushBatchSize
  <2>1. s.buffer # {}
    BY <1>1, FS_EmptySet, InsightsAssumption
  <2>2. s.async
    BY <2>1 DEF Good, Awaited, Service
  <2> QED BY <1>1, <2>2, FlushEventsGood DEF FlushIfFull, Good
<1>2. CASE ~(Cardinality(s.buffer) >= FlushBatchSize)
  BY <1>2 DEF FlushIfFull
<1> QED BY <1>1, <1>2

\* What EndFlush makes of the service: of the events of the flush, it holds
\* those that are given back.
LEMMA EndFlushGood ==
    ASSUME NEW s \in Service, Good(s), NEW f \in s.flushes, NEW back \in SUBSET f.events,
           NEW after, after = StartFlushingTimer(WithoutFlush(s, f, back))
    PROVE  /\ Good(after)
           /\ HeldBy(after) = HeldBy(s) \ (f.events \ back)
           /\ after.flushes \subseteq s.flushes
<1> DEFINE ended == WithoutFlush(s, f, back)
<1>1. /\ ended.flushes = s.flushes \ {f} /\ ended.buffer = s.buffer \cup back
      /\ ended \in Service
  BY DEF Service, Flush, WithoutFlush
<1>2. Disjoint(ended)
  BY <1>1 DEF Good, Disjoint
<1>3. HeldBy(ended) = HeldBy(s) \ (f.events \ back)
  BY <1>1 DEF HeldBy, Good, Disjoint
<1> HIDE DEF ended
<1>4. /\ Good(StartFlushingTimer(ended))
      /\ HeldBy(StartFlushingTimer(ended)) = HeldBy(ended)
      /\ StartFlushingTimer(ended).flushes = ended.flushes
  BY <1>1, <1>2, StartFlushingTimerGood
<1> QED BY <1>1, <1>3, <1>4 DEF ended

-----------------------------------------------------------------------------
(* What a step of one service means for the invariant *)

\* A main changes the fields of its service to s and saves some of the events
\* it holds; no execution starts or ends.
LEMMA ServiceStep ==
    ASSUME IInv, NEW m \in Mains, NEW s, NEW done \in SUBSET HeldBy(service[m]),
           Good(s), Ended(s, execution'),
           HeldBy(s) = HeldBy(service[m]) \ done,
           service' = [service EXCEPT ![m] = s],
           saved' = saved \cup done,
           phase' \in [Mains -> Phases],
           \A n \in Mains : phase[n] = "exited" => phase'[n] = "exited",
           execution' \in [Events -> [main : Mains, at : Stages]],
           \A e \in Events :
              /\ execution'[e].main = execution[e].main
              /\ execution'[e].at = "running" <=> execution[e].at = "running"
    PROVE  IInv'
<1>1. service' \in [Mains -> Service]
  BY DEF IInv, Good
<1>2. /\ service'[m] = s
      /\ \A n \in Mains \ {m} : service'[n] = service[n]
  BY DEF IInv
<1>3. \A n \in Mains : \A e \in HeldBy(service[n]) : e \in Events
  BY DEF IInv, HeldBy, Service, Flush
<1>4. \A n \in Mains : Good(service'[n]) /\ Ended(service'[n], execution')
  <2> SUFFICES ASSUME NEW n \in Mains \ {m} PROVE Ended(service[n], execution')
    BY <1>2 DEF IInv
  <2>1. \A f \in service[n].flushes : f.waiter \in Events \cup {None}
    BY DEF IInv, Service, Flush
  <2> QED BY <2>1 DEF IInv, Ended
<1>5. \A n \in Mains : \A e \in HeldBy(service'[n]) :
          n = execution'[e].main /\ execution'[e].at # "running" /\ e \notin saved'
  <2> TAKE n \in Mains
  <2> TAKE e \in HeldBy(service'[n])
  <2>1. e \in HeldBy(service[n]) /\ e \notin done
    BY <1>2 DEF IInv
  <2> QED BY <2>1, <1>3 DEF IInv
<1>6. \A e \in Events :
          /\ e \in saved' => execution'[e].at # "running"
          /\ execution'[e].at # "running" /\ phase'[execution'[e].main] # "exited" =>
                e \in saved' \/ e \in HeldBy(service'[execution'[e].main])
  <2> TAKE e \in Events
  <2>1. e \in saved' => execution'[e].at # "running"
    BY DEF IInv
  <2>2. ASSUME execution'[e].at # "running", phase'[execution'[e].main] # "exited"
        PROVE  e \in saved' \/ e \in HeldBy(service'[execution'[e].main])
    <3>1. execution[e].main \in Mains
      BY DEF IInv
    <3>2. e \in saved \/ e \in HeldBy(service[execution[e].main])
      BY <2>2, <3>1 DEF IInv
    <3> QED BY <3>1, <3>2, <1>2
  <2> QED BY <2>1, <2>2
<1> QED BY <1>1, <1>4, <1>5, <1>6 DEF IInv

\* Nothing that the invariant is about changes but the service of m.
LEMMA QuietStep ==
    ASSUME IInv, NEW m \in Mains, NEW s, Good(s), HeldBy(s) = HeldBy(service[m]),
           \A f \in s.flushes : f.waiter = None \/
              \E g \in service[m].flushes : g.waiter = f.waiter,
           service' = [service EXCEPT ![m] = s],
           phase' \in [Mains -> Phases],
           \A n \in Mains : phase[n] = "exited" => phase'[n] = "exited",
           UNCHANGED <<execution, saved>>
    PROVE  IInv'
<1>1. Ended(s, execution')
  BY DEF IInv, Ended
<1>2. {} \in SUBSET HeldBy(service[m]) /\ HeldBy(s) = HeldBy(service[m]) \ {}
      /\ saved' = saved \cup {}
  OBVIOUS
<1>3. execution' \in [Events -> [main : Mains, at : Stages]]
  BY DEF IInv
<1> QED BY <1>1, <1>2, <1>3, ServiceStep

-----------------------------------------------------------------------------
(* Every action preserves the invariant *)

LEMMA InitIInv == Init => IInv
<1> SUFFICES ASSUME Init PROVE IInv
  OBVIOUS
<1>1. \A m \in Mains : /\ service[m].buffer = {} /\ service[m].flushes = {}
                       /\ service[m].async = TRUE /\ service[m].timer \in BOOLEAN
  BY DEF Init
<1>2. service \in [Mains -> Service]
  BY DEF Init, Service
<1>3. \A m \in Mains : HeldBy(service[m]) = {}
  BY <1>1 DEF HeldBy
<1>4. \A m \in Mains : Good(service[m]) /\ Ended(service[m], execution)
  BY <1>1, <1>2 DEF Good, Disjoint, Awaited, Ended
<1>5. /\ execution \in [Events -> [main : Mains, at : Stages]]
      /\ phase \in [Mains -> Phases]
      /\ \A e \in Events : execution[e].at = "running"
      /\ saved = {}
  BY DEF Init, Stages, Phases
<1> QED BY <1>2, <1>3, <1>4, <1>5 DEF IInv

\* The event that is collected is new: its execution was running.
LEMMA HandleIInv == ASSUME IInv, NEW e \in Events, Handle(e) PROVE IInv'
<1> DEFINE m == execution[e].main
           added == [service[m] EXCEPT !.buffer = @ \cup {e}]
<1>1. m \in Mains /\ execution[e].at = "running"
  BY DEF IInv, Handle
<1>2. /\ added \in Service /\ added.async = service[m].async
      /\ added.flushes = service[m].flushes /\ added.buffer = service[m].buffer \cup {e}
  BY <1>1 DEF IInv, Service
<1>3. HeldBy(added) = HeldBy(service[m]) \cup {e}
  BY <1>2 DEF HeldBy
<1>4. Disjoint(added)
  <2>1. \A f \in service[m].flushes : e \notin f.events
    BY <1>1 DEF IInv, HeldBy
  <2> QED BY <1>1, <1>2, <2>1 DEF IInv, Good, Disjoint
<1> DEFINE after == service'[m]
<1>5. /\ service' = [service EXCEPT ![m] = after]
      /\ Good(after) /\ HeldBy(after) = HeldBy(added)
      /\ \A f \in after.flushes : f \in added.flushes \/ f.waiter \in {None, e}
      /\ \E s \in {"flushing", "ended"} : execution' = [execution EXCEPT ![e].at = s]
  <2> SUFFICES \E new :
         /\ service' = [service EXCEPT ![m] = new]
         /\ Good(new) /\ HeldBy(new) = HeldBy(added)
         /\ \A f \in new.flushes : f \in added.flushes \/ f.waiter \in {None, e}
         /\ \E s \in {"flushing", "ended"} : execution' = [execution EXCEPT ![e].at = s]
    BY <1>1 DEF IInv
  <2>1. CASE added.async
    <3>1. Good(added)
      BY <1>2, <1>4, <2>1 DEF Good, Awaited
    <3>2. /\ service' = [service EXCEPT ![m] = FlushIfFull(added)]
          /\ execution' = [execution EXCEPT ![e].at = "ended"]
      BY <2>1 DEF Handle
    <3> HIDE DEF added
    <3> QED BY <1>2, <3>1, <3>2, FlushIfFullGood
  <2>2. CASE ~added.async
    <3>1. /\ service' = [service EXCEPT ![m] = FlushEvents(added, e, FALSE)]
          /\ execution' = [execution EXCEPT ![e].at = "flushing"]
      BY <2>2 DEF Handle
    <3>2. e # None
      BY InsightsAssumption
    <3>3. \A f \in added.flushes : f.awaited \/ f.waiter # None
      BY <1>1, <1>2, <2>2 DEF IInv, Good, Awaited
    <3>4. added.flushes = service[m].flushes /\ added \in Service
      BY <1>2
    <3> HIDE DEF added
    <3>5. /\ Good(FlushEvents(added, e, FALSE))
          /\ HeldBy(FlushEvents(added, e, FALSE)) = HeldBy(added)
          /\ \A f \in FlushEvents(added, e, FALSE).flushes : f \in added.flushes \/ f.waiter = e
      BY <1>4, <3>2, <3>3, <3>4, FlushEventsGood
    <3> QED BY <3>1, <3>5
  <2> QED BY <2>1, <2>2
<1>6. /\ execution' \in [Events -> [main : Mains, at : Stages]]
      /\ execution'[e].main = m /\ execution'[e].at # "running"
      /\ \A d \in Events \ {e} : execution'[d] = execution[d]
  BY <1>1, <1>5 DEF IInv, Stages
<1>7. saved' = saved /\ phase' = phase
  BY DEF Handle, roleVars
<1>8. \A n \in Mains \ {m} : service'[n] = service[n]
  BY <1>5 DEF IInv
<1> HIDE DEF m, added, after
<1>9. service' \in [Mains -> Service]
  BY <1>1, <1>5 DEF IInv, Good
<1>10. \A n \in Mains : \A d \in HeldBy(service[n]) : d \in Events
  BY DEF IInv, HeldBy, Service, Flush
<1>11. \A n \in Mains : Good(service'[n]) /\ Ended(service'[n], execution')
  <2>1. \A n \in Mains : \A f \in service[n].flushes :
            f.waiter # None => execution'[f.waiter].at # "running"
    <3>1. \A n \in Mains : \A f \in service[n].flushes : f.waiter \in Events \cup {None}
      BY DEF IInv, Service, Flush
    <3> QED BY <1>6, <3>1 DEF IInv, Ended
  <2>2. Ended(after, execution')
    BY <1>1, <1>2, <1>5, <1>6, <2>1 DEF Ended
  <2> QED BY <1>5, <1>8, <2>1, <2>2 DEF IInv, Ended, after
<1>12. \A n \in Mains : \A d \in HeldBy(service'[n]) :
          n = execution'[d].main /\ execution'[d].at # "running" /\ d \notin saved'
  <2>1. \A d \in HeldBy(service'[m]) : d = e \/ d \in HeldBy(service[m])
    BY <1>3, <1>5 DEF after
  <2>2. e \notin saved' /\ \A n \in Mains : e \notin HeldBy(service[n])
    BY <1>1, <1>7 DEF IInv
  <2>3. \A d \in HeldBy(service'[m]) :
            m = execution'[d].main /\ execution'[d].at # "running" /\ d \notin saved'
    BY <2>1, <2>2, <1>1, <1>6, <1>7, <1>10 DEF IInv
  <2>4. \A n \in Mains \ {m} : \A d \in HeldBy(service'[n]) :
            n = execution'[d].main /\ execution'[d].at # "running" /\ d \notin saved'
    BY <2>2, <1>6, <1>7, <1>8, <1>10, SMTT(30) DEF IInv
  <2> QED BY <2>3, <2>4
<1>13. \A d \in Events :
          /\ d \in saved' => execution'[d].at # "running"
          /\ execution'[d].at # "running" /\ phase'[execution'[d].main] # "exited" =>
                d \in saved' \/ d \in HeldBy(service'[execution'[d].main])
  <2> TAKE d \in Events
  <2>1. CASE d = e
    BY <2>1, <1>3, <1>5, <1>6 DEF after
  <2>2. CASE d # e
    <3>1. execution'[d] = execution[d] /\ execution[d].main \in Mains
      BY <2>2, <1>6 DEF IInv
    <3>2. HeldBy(service[execution[d].main]) \subseteq HeldBy(service'[execution[d].main])
      BY <3>1, <1>3, <1>5, <1>8 DEF after
    <3> QED BY <3>1, <3>2, <1>7 DEF IInv
  <2> QED BY <2>1, <2>2
<1> QED BY <1>6, <1>7, <1>9, <1>11, <1>12, <1>13 DEF IInv

LEMMA ContinueHandlerIInv == ASSUME IInv, NEW e \in Events, ContinueHandler(e) PROVE IInv'
<1> DEFINE m == execution[e].main
           s == FlushIfFull(service[m])
<1>1. m \in Mains /\ service[m] \in Service /\ Good(service[m])
  BY DEF IInv
<1>2. /\ execution[e].at = "flushed"
      /\ service' = [service EXCEPT ![m] = s]
      /\ execution' = [execution EXCEPT ![e].at = "ended"]
      /\ saved' = saved \cup {} /\ phase' = phase
  BY DEF ContinueHandler, roleVars
<1>3. /\ Good(s) /\ HeldBy(s) = HeldBy(service[m]) \ {}
      /\ \A f \in s.flushes : f \in service[m].flushes \/ f.waiter = None
  BY <1>1, FlushIfFullGood
<1>4. /\ execution' \in [Events -> [main : Mains, at : Stages]]
      /\ \A d \in Events :
            /\ execution'[d].main = execution[d].main
            /\ execution'[d].at = "running" <=> execution[d].at = "running"
  BY <1>2 DEF IInv, Stages
<1> HIDE DEF m, s
<1>5. Ended(s, execution')
  <2>1. \A f \in service[m].flushes :
            /\ f.waiter \in Events \cup {None}
            /\ f.waiter # None => execution[f.waiter].at # "running"
    BY <1>1 DEF Service, Flush, IInv, Ended
  <2> QED BY <1>3, <1>4, <2>1 DEF Ended
<1>6. phase' \in [Mains -> Phases] /\ {} \in SUBSET HeldBy(service[m])
  BY <1>2 DEF IInv
<1> QED BY <1>1, <1>2, <1>3, <1>4, <1>5, <1>6, ServiceStep

LEMMA FlushTimerIInv == ASSUME IInv, NEW m \in Mains, FlushTimer(m) PROVE IInv'
<1> DEFINE fired == [service[m] EXCEPT !.timer = FALSE]
           s == FlushEvents(fired, None, FALSE)
<1>0. service[m] \in Service
  BY DEF IInv
<1>1. /\ fired \in Service /\ fired.async = service[m].async
      /\ fired.flushes = service[m].flushes /\ fired.buffer = service[m].buffer
  BY <1>0 DEF Service
<1>2. Disjoint(fired) /\ HeldBy(fired) = HeldBy(service[m])
  BY <1>1 DEF IInv, Good, Disjoint, HeldBy
<1>3. /\ service' = [service EXCEPT ![m] = s]
      /\ phase' = phase /\ execution' = execution /\ saved' = saved
  BY DEF FlushTimer, roleVars
<1>4. /\ Good(s) /\ HeldBy(s) = HeldBy(fired)
      /\ \A f \in s.flushes : f \in fired.flushes \/ f.waiter = None
  <2> HIDE DEF fired
  <2>1. CASE fired.buffer = {}
    <3>1. s = StartFlushingTimer(fired)
      BY <2>1 DEF FlushEvents
    <3> QED BY <1>1, <1>2, <3>1, StartFlushingTimerGood
  <2>2. CASE fired.buffer # {}
    <3>1. fired.async
      BY <2>2, <1>1 DEF IInv, Good, Awaited
    <3> QED BY <1>1, <1>2, <3>1, FlushEventsGood
  <2> QED BY <2>1, <2>2
<1> HIDE DEF fired, s
<1>5. phase' \in [Mains -> Phases]
  BY <1>3 DEF IInv
<1> QED BY <1>1, <1>2, <1>3, <1>4, <1>5, QuietStep

\* The end of a flush, which gives back what it did not save.
LEMMA EndFlushIInv ==
    ASSUME IInv, NEW m \in Mains, NEW f \in service[m].flushes,
           NEW back \in {{}, f.events}, EndFlush(m, f, back),
           saved' = saved \cup (f.events \ back), phase' = phase
    PROVE  IInv'
<1> DEFINE s == StartFlushingTimer(WithoutFlush(service[m], f, back))
<1>1. /\ service[m] \in Service /\ Good(service[m]) /\ Ended(service[m], execution)
      /\ back \in SUBSET f.events
  BY DEF IInv
<1>2. service' = [service EXCEPT ![m] = s]
  BY DEF EndFlush
<1> HIDE DEF s
<1>3. /\ Good(s) /\ HeldBy(s) = HeldBy(service[m]) \ (f.events \ back)
      /\ s.flushes \subseteq service[m].flushes
  BY <1>1, EndFlushGood DEF s
<1>4. f.events \ back \in SUBSET HeldBy(service[m])
  BY DEF HeldBy
<1>5. /\ execution' \in [Events -> [main : Mains, at : Stages]]
      /\ \A d \in Events :
            /\ execution'[d].main = execution[d].main
            /\ execution'[d].at = "running" <=> execution[d].at = "running"
  <2>1. CASE f.waiter = None
    BY <2>1 DEF EndFlush, IInv
  <2>2. CASE f.waiter # None
    <3>1. f.waiter \in Events /\ execution[f.waiter].at # "running"
      BY <1>1, <2>2 DEF Ended, Service, Flush
    <3>2. execution' = [execution EXCEPT ![f.waiter].at = "flushed"]
      BY <2>2 DEF EndFlush
    <3> QED BY <3>1, <3>2 DEF IInv, Stages
  <2> QED BY <2>1, <2>2
<1>6. Ended(s, execution')
  <2>1. \A g \in service[m].flushes :
            /\ g.waiter \in Events \cup {None}
            /\ g.waiter # None => execution[g.waiter].at # "running"
    BY <1>1 DEF Service, Flush, Ended
  <2> QED BY <1>3, <1>5, <2>1 DEF Ended
<1>7. /\ phase' \in [Mains -> Phases]
      /\ \A n \in Mains : phase[n] = "exited" => phase'[n] = "exited"
  BY DEF IInv
<1> QED BY <1>2, <1>3, <1>4, <1>5, <1>6, <1>7, ServiceStep

LEMMA FindMetadataIInv ==
    ASSUME IInv, NEW m \in Mains, NEW f \in service[m].flushes, FindMetadata(m, f)
    PROVE  IInv'
<1> DEFINE created == {w \in WorkflowsOf(f.events) \ deleted :
                          cachedMetadata[m][w] = "none"} \ metadata
           found == [f EXCEPT !.at = "inserting", !.created = created]
           s == [service[m] EXCEPT !.flushes = (@ \ {f}) \cup {found}]
<1>1. phase' = phase
  BY DEF FindMetadata, roleVars
<1>2. CASE EndFlush(m, f, f.events) /\ saved' = saved
  BY <1>1, <1>2, EndFlushIInv
<1>3. CASE /\ service' = [service EXCEPT ![m].flushes = (@ \ {f}) \cup {found}]
           /\ execution' = execution /\ saved' = saved
  <2>1. /\ service[m] \in Service /\ Good(service[m]) /\ f \in Flush
        /\ WorkflowsOf(f.events) \subseteq Workflows
    BY InsightsAssumption DEF IInv, Service, Flush, WorkflowsOf
  <2>2. created \subseteq Workflows
    BY <2>1
  <2> HIDE DEF created
  <2>3. /\ found \in Flush /\ found.events = f.events /\ found.waiter = f.waiter
        /\ found.awaited = f.awaited
    BY <2>1, <2>2 DEF Flush
  <2> HIDE DEF found
  <2>4. /\ s \in Service /\ s.buffer = service[m].buffer /\ s.async = service[m].async
        /\ s.flushes = (service[m].flushes \ {f}) \cup {found}
    BY <2>1, <2>3 DEF Service
  <2>5. service' = [service EXCEPT ![m] = s]
    BY <1>3
  <2> HIDE DEF s
  <2>6. Disjoint(s)
    BY <2>1, <2>3, <2>4 DEF Good, Disjoint
  <2>7. Awaited(s)
    BY <2>1, <2>3, <2>4 DEF Good, Awaited
  <2>8. HeldBy(s) = HeldBy(service[m])
    BY <2>3, <2>4 DEF HeldBy
  <2>9. \A g \in s.flushes : \E h \in service[m].flushes : h.waiter = g.waiter
    BY <2>3, <2>4
  <2>10. phase' \in [Mains -> Phases]
    BY <1>1 DEF IInv
  <2> QED BY <1>1, <1>3, <2>4, <2>5, <2>6, <2>7, <2>8, <2>9, <2>10, QuietStep DEF Good
<1> QED BY <1>2, <1>3 DEF FindMetadata, FailFlush

LEMMA InsertRawIInv ==
    ASSUME IInv, NEW m \in Mains, NEW f \in service[m].flushes, InsertRaw(m, f)
    PROVE  IInv'
<1>1. phase' = phase
  BY DEF InsertRaw, roleVars
<1>2. CASE EndFlush(m, f, {}) /\ saved' = saved \cup f.events
  BY <1>1, <1>2, EndFlushIInv
<1>3. CASE EndFlush(m, f, f.events) /\ saved' = saved
  BY <1>1, <1>3, EndFlushIInv
<1> QED BY <1>2, <1>3 DEF InsertRaw, FailFlush

LEMMA SaveFailsIInv ==
    ASSUME IInv, NEW m \in Mains, NEW f \in service[m].flushes, SaveFails(m, f)
    PROVE  IInv'
<1>1. phase' = phase /\ EndFlush(m, f, f.events) /\ saved' = saved
  BY DEF SaveFails, FailFlush, roleVars
<1> QED BY <1>1, EndFlushIInv

LEMMA TakeoverIInv == ASSUME IInv, NEW m \in Mains, Takeover(m) PROVE IInv'
<1>1. /\ service' = [service EXCEPT ![m] = StartFlushingTimer(service[m])]
      /\ UNCHANGED <<phase, execution, saved>>
  BY DEF Takeover, StartBackgroundProcess
<1>2. service[m] \in Service /\ Disjoint(service[m])
  BY DEF IInv, Good
<1>3. phase' \in [Mains -> Phases]
  BY <1>1 DEF IInv
<1> QED BY <1>1, <1>2, <1>3, StartFlushingTimerGood, QuietStep

LEMMA StepDownIInv == ASSUME IInv, NEW m \in Mains, StepDown(m) PROVE IInv'
<1>1. /\ service' = [service EXCEPT ![m] = StopFlushingTimer(service[m])]
      /\ UNCHANGED <<phase, execution, saved>>
  BY DEF StepDown, StopBackgroundProcess
<1>2. service[m] \in Service /\ Good(service[m])
  BY DEF IInv
<1>3. phase' \in [Mains -> Phases]
  BY <1>1 DEF IInv
<1> QED BY <1>1, <1>2, <1>3, StopFlushingTimerGood, QuietStep

\* Whatever is under way is waited for, and so is the flush of the rest.
LEMMA ShutdownIInv == ASSUME IInv, NEW m \in Mains, Shutdown(m) PROVE IInv'
<1> DEFINE stopped == [StopFlushingTimer(service[m]) EXCEPT
                          !.async = FALSE,
                          !.flushes = {[f EXCEPT !.awaited = TRUE] : f \in @}]
           s == FlushEvents(stopped, None, TRUE)
<1>1. /\ phase[m] = "up" /\ phase' = [phase EXCEPT ![m] = "stopping"]
      /\ service' = [service EXCEPT ![m] = s]
      /\ execution' = execution /\ saved' = saved
  BY DEF Shutdown
<1>2. service[m] \in Service /\ Good(service[m])
  BY DEF IInv
<1>3. \A f \in Flush : /\ [f EXCEPT !.awaited = TRUE] \in Flush
                       /\ [f EXCEPT !.awaited = TRUE].events = f.events
                       /\ [f EXCEPT !.awaited = TRUE].waiter = f.waiter
                       /\ [f EXCEPT !.awaited = TRUE].awaited = TRUE
  BY DEF Flush
<1>4. /\ stopped.buffer = service[m].buffer /\ stopped.async = FALSE
      /\ stopped.flushes = {[f EXCEPT !.awaited = TRUE] : f \in service[m].flushes}
      /\ stopped.timer = FALSE
      /\ DOMAIN stopped = {"buffer", "flushes", "timer", "async"}
  BY <1>2 DEF StopFlushingTimer, Service
<1>5. stopped \in Service
  <2> DEFINE q == StopFlushingTimer(service[m])
             flushes == {[f EXCEPT !.awaited = TRUE] : f \in q.flushes}
  <2>1. q \in Service
    BY <1>2, StopFlushingTimerGood DEF Good
  <2>2. flushes \in SUBSET Flush
    BY <2>1, <1>3 DEF Service
  <2>3. stopped = [q EXCEPT !.async = FALSE, !.flushes = flushes]
    BY Zenon
  <2> HIDE DEF stopped, q, flushes
  <2> QED BY <2>1, <2>2, <2>3 DEF Service
<1> HIDE DEF stopped
<1>6. /\ \A g \in stopped.flushes : \E f \in service[m].flushes :
            /\ g = [f EXCEPT !.awaited = TRUE]
            /\ g.events = f.events /\ g.waiter = f.waiter /\ g.awaited = TRUE
      /\ \A f \in service[m].flushes : \E g \in stopped.flushes : g.events = f.events
  <2>1. \A f \in service[m].flushes : f \in Flush
    BY <1>2 DEF Service
  <2>2. \A g : g \in stopped.flushes <=>
               \E f \in service[m].flushes : g = [f EXCEPT !.awaited = TRUE]
    BY <1>4, Zenon
  <2>3. ASSUME NEW g \in stopped.flushes
        PROVE  \E f \in service[m].flushes :
                  /\ g = [f EXCEPT !.awaited = TRUE]
                  /\ g.events = f.events /\ g.waiter = f.waiter /\ g.awaited = TRUE
    <3>1. PICK f \in service[m].flushes : g = [f EXCEPT !.awaited = TRUE]
      BY <2>2
    <3> QED BY <1>3, <2>1, <3>1
  <2>4. ASSUME NEW f \in service[m].flushes
        PROVE  \E g \in stopped.flushes : g.events = f.events
    <3>1. [f EXCEPT !.awaited = TRUE] \in stopped.flushes
      BY <2>2
    <3> QED BY <1>3, <2>1, <3>1
  <2> QED BY <2>3, <2>4
<1>7. Disjoint(stopped)
  <2>1. \A f \in stopped.flushes : f.events \cap stopped.buffer = {}
    BY <1>2, <1>4, <1>6 DEF Good, Disjoint
  <2>2. ASSUME NEW f \in stopped.flushes, NEW g \in stopped.flushes,
               f.events \cap g.events # {}
        PROVE  f = g
    <3>1. PICK h \in service[m].flushes :
             f = [h EXCEPT !.awaited = TRUE] /\ f.events = h.events
      BY <1>6
    <3>2. PICK k \in service[m].flushes :
             g = [k EXCEPT !.awaited = TRUE] /\ g.events = k.events
      BY <1>6
    <3>3. h = k
      BY <1>2, <2>2, <3>1, <3>2 DEF Good, Disjoint
    <3> QED BY <3>1, <3>2, <3>3
  <2> QED BY <2>1, <2>2 DEF Disjoint
<1>8. HeldBy(stopped) = HeldBy(service[m])
  <2>1. \A e : (\E g \in stopped.flushes : e \in g.events)
               <=> (\E f \in service[m].flushes : e \in f.events)
    BY <1>6
  <2> QED BY <1>4, <2>1 DEF HeldBy
<1>9. /\ Good(s) /\ HeldBy(s) = HeldBy(stopped)
      /\ \A f \in s.flushes : f \in stopped.flushes \/ f.waiter = None
  BY <1>5, <1>6, <1>7, FlushEventsGood
<1> HIDE DEF s
<1>10. \A f \in s.flushes : f.waiter = None \/
          \E g \in service[m].flushes : g.waiter = f.waiter
  BY <1>6, <1>9
<1>11. /\ phase' \in [Mains -> Phases]
       /\ \A n \in Mains : phase[n] = "exited" => phase'[n] = "exited"
  BY <1>1 DEF IInv, Phases
<1> QED BY <1>1, <1>8, <1>9, <1>10, <1>11, QuietStep

LEMMA ShutdownEndsIInv == ASSUME IInv, NEW m \in Mains, ShutdownEnds(m) PROVE IInv'
<1>1. /\ phase' \in [Mains -> Phases]
      /\ \A n \in Mains : phase[n] = "exited" => phase'[n] = "exited"
      /\ UNCHANGED <<service, execution, saved>>
  BY DEF ShutdownEnds, collectionVars, IInv, Phases
<1>2. /\ service' = [service EXCEPT ![m] = service[m]]
      /\ Good(service[m])
  BY <1>1 DEF IInv
<1> QED BY <1>1, <1>2, QuietStep

\* The events of a process that is gone are gone with it.
LEMMA GoneIInv == ASSUME IInv, NEW m \in Mains, Gone(m) PROVE IInv'
<1> DEFINE s == [buffer |-> {}, flushes |-> {}, timer |-> FALSE, async |-> TRUE]
<1>1. /\ service' = [service EXCEPT ![m] = s]
      /\ phase' = [phase EXCEPT ![m] = "exited"]
      /\ UNCHANGED <<execution, saved>>
  BY DEF Gone
<1>2. s \in Service /\ HeldBy(s) = {} /\ Good(s) /\ Ended(s, execution')
  BY DEF Service, HeldBy, Good, Disjoint, Awaited, Ended
<1> HIDE DEF s
<1>3. /\ service' \in [Mains -> Service] /\ phase' \in [Mains -> Phases]
      /\ service'[m] = s /\ phase'[m] = "exited"
      /\ \A n \in Mains \ {m} : service'[n] = service[n] /\ phase'[n] = phase[n]
  BY <1>1, <1>2 DEF IInv, Phases
<1>4. \A n \in Mains : Good(service'[n]) /\ Ended(service'[n], execution')
  BY <1>1, <1>2, <1>3 DEF IInv
<1>5. \A n \in Mains : HeldBy(service'[n]) \subseteq HeldBy(service[n])
  BY <1>2, <1>3
<1>6. \A e \in Events :
          execution'[e].at # "running" /\ phase'[execution'[e].main] # "exited" =>
              e \in saved' \/ e \in HeldBy(service'[execution'[e].main])
  <2> SUFFICES ASSUME NEW e \in Events, execution[e].at # "running",
                      phase'[execution[e].main] # "exited"
               PROVE  e \in saved \/ e \in HeldBy(service'[execution[e].main])
    BY <1>1
  <2>1. execution[e].main \in Mains \ {m}
    BY <1>3 DEF IInv
  <2> QED BY <2>1, <1>3 DEF IInv
<1>7. \A n \in Mains : \A e \in HeldBy(service'[n]) :
          n = execution'[e].main /\ execution'[e].at # "running" /\ e \notin saved'
  BY <1>1, <1>5 DEF IInv
<1> QED BY <1>1, <1>3, <1>4, <1>6, <1>7 DEF IInv

\* Deletions and compaction touch none of what is collected.
LEMMA OtherIInv == ASSUME IInv, UNCHANGED <<phase, execution, service, saved>> PROVE IInv'
BY DEF IInv

LEMMA NextIInv == IInv /\ [Next]_vars => IInv'
<1> SUFFICES ASSUME IInv, [Next]_vars PROVE IInv'
  OBVIOUS
<1>1. ASSUME NEW m \in Mains, MainNext(m) PROVE IInv'
  <2>1. CASE FlushTimer(m)
    BY <2>1, FlushTimerIInv
  <2>2. ASSUME NEW f \in service[m].flushes, FindMetadata(m, f) PROVE IInv'
    BY <2>2, FindMetadataIInv
  <2>3. ASSUME NEW f \in service[m].flushes, InsertRaw(m, f) PROVE IInv'
    BY <2>3, InsertRawIInv
  <2>4. ASSUME NEW f \in service[m].flushes, SaveFails(m, f) PROVE IInv'
    BY <2>4, SaveFailsIInv
  <2>5. ASSUME NEW c \in Compactions, CompactInsights(m, c) PROVE IInv'
    BY <2>5, OtherIInv DEF CompactInsights, roleVars, collectionVars
  <2>6. CASE Takeover(m)
    BY <2>6, TakeoverIInv
  <2>7. CASE StepDown(m)
    BY <2>7, StepDownIInv
  <2>8. CASE Shutdown(m)
    BY <2>8, ShutdownIInv
  <2>9. CASE ShutdownEnds(m)
    BY <2>9, ShutdownEndsIInv
  <2>10. CASE Exit(m) \/ ForceExit(m)
    BY <2>10, GoneIInv DEF Exit, ForceExit
  <2> QED BY <1>1, <2>1, <2>2, <2>3, <2>4, <2>5, <2>6, <2>7, <2>8, <2>9, <2>10 DEF MainNext
<1>2. ASSUME NEW e \in Events, Handle(e) PROVE IInv'
  BY <1>2, HandleIInv
<1>3. ASSUME NEW e \in Events, ContinueHandler(e) PROVE IInv'
  BY <1>3, ContinueHandlerIInv
<1>4. ASSUME NEW w \in Workflows, DeleteWorkflow(w) PROVE IInv'
  BY <1>4, OtherIInv DEF DeleteWorkflow, roleVars, collectionVars
<1>5. ASSUME NEW c \in Compactions, ReadBatch(c) \/ CommitBatch(c) \/ CompactionFails(c)
      PROVE  IInv'
  <2>1. UNCHANGED <<phase, execution, service, saved>>
    BY <1>5 DEF ReadBatch, CommitBatch, CompactionFails, roleVars, collectionVars
  <2> QED BY <2>1, OtherIInv
<1>6. CASE UNCHANGED vars
  BY <1>6, OtherIInv DEF vars
<1> QED BY <1>1, <1>2, <1>3, <1>4, <1>5, <1>6 DEF Next

LEMMA IInvImplies == IInv => CollectedOnce /\ SyncSavesAreAwaited
<1> SUFFICES ASSUME IInv PROVE CollectedOnce /\ SyncSavesAreAwaited
  OBVIOUS
<1>1. \A m \in Mains : Held(m) = HeldBy(service[m])
  BY DEF Held, HeldBy
<1>2. CollectedOnce
  <2> SUFFICES ASSUME NEW e \in Events
               PROVE  LET s == service[execution[e].main]
                          flushes == {f \in s.flushes : e \in f.events}
                      IN  /\ execution[e].at # "running"
                             /\ phase[execution[e].main] # "exited" =>
                                e \in saved \/ e \in s.buffer \/ flushes # {}
                          /\ \A m \in Mains : e \in Held(m) =>
                                m = execution[e].main /\ execution[e].at # "running"
                                  /\ e \notin saved
                          /\ e \in s.buffer => flushes = {}
                          /\ \A f, g \in flushes : f = g
    BY DEF CollectedOnce
  <2> DEFINE s == service[execution[e].main]
  <2>1. execution[e].main \in Mains /\ Disjoint(s)
    BY DEF IInv, Good
  <2>2. e \in HeldBy(s) => e \in s.buffer \/ {f \in s.flushes : e \in f.events} # {}
    BY DEF HeldBy
  <2>3. /\ e \in s.buffer => {f \in s.flushes : e \in f.events} = {}
        /\ \A f, g \in {h \in s.flushes : e \in h.events} : f = g
    BY <2>1 DEF Disjoint
  <2> QED BY <1>1, <2>1, <2>2, <2>3 DEF IInv
<1>3. SyncSavesAreAwaited
  BY DEF SyncSavesAreAwaited, IInv, Good, Awaited
<1> QED BY <1>2, <1>3

-----------------------------------------------------------------------------
(* What a fold over the rows of a batch adds up to *)

\* A function on the subsets of rows that adds up the values of their members.
Adds(f, rows) ==
    f = [s \in SUBSET rows |->
           IF s = {} THEN 0
           ELSE (CHOOSE x \in s : TRUE).value + f[s \ {CHOOSE x \in s : TRUE}]]

\* There is only one such function, so that SumOf is what any such function says.
LEMMA SumIs ==
    ASSUME NEW batch, NEW w, NEW rows, rows = {r \in batch : r.workflow = w},
           IsFiniteSet(rows), NEW f, Adds(f, rows)
    PROVE  SumOf(batch, w) = f[rows]
<1> DEFINE it == CHOOSE g : Adds(g, rows)
<1>1. Adds(it, rows)
  BY Zenon
<1>2. SumOf(batch, w) = it[rows]
  BY DEF SumOf, MapThenSumSet, MapThenFoldSet, Adds
<1> HIDE DEF it
<1>3. SUFFICES ASSUME it[rows] # f[rows] PROVE FALSE
  BY <1>2
<1> DEFINE differ == {s \in SUBSET rows : it[s] # f[s]}
<1>4. \A s \in differ : s # {}
  BY <1>1 DEF Adds
<1>5. \A s \in differ : IsFiniteSet(s) /\ Cardinality(s) \in Nat
  BY FS_Subset, FS_CardinalityType
<1>6. PICK s \in differ : \A d \in differ : Cardinality(s) <= Cardinality(d)
  <2> DEFINE N == {Cardinality(d) : d \in differ}
  <2>1. N \subseteq Nat /\ N # {}
    BY <1>3, <1>5
  <2>2. PICK n \in N : \A k \in N : n <= k
    BY <2>1, LeastNumber
  <2> QED BY <2>2
<1> DEFINE x == CHOOSE y \in s : TRUE
           rest == s \ {x}
<1>7. x \in s
  BY <1>4
<1>8. rest \in SUBSET rows /\ Cardinality(rest) = Cardinality(s) - 1
  BY <1>5, <1>7, FS_RemoveElement
<1>9. it[rest] = f[rest]
  BY <1>5, <1>6, <1>8
<1>10. it[s] = x.value + it[rest] /\ f[s] = x.value + f[rest]
  BY <1>1, <1>4 DEF Adds
<1> QED BY <1>9, <1>10

\* Raw rows count one each.
LEMMA SumOfOnes ==
    ASSUME NEW batch, NEW w, NEW rows, rows = {r \in batch : r.workflow = w},
           IsFiniteSet(rows), \A r \in rows : r.value = 1
    PROVE  SumOf(batch, w) = Cardinality(rows)
<1> DEFINE f == [s \in SUBSET rows |-> Cardinality(s)]
<1>1. ASSUME NEW s \in SUBSET rows
      PROVE  f[s] = IF s = {} THEN 0
                    ELSE (CHOOSE x \in s : TRUE).value + f[s \ {CHOOSE x \in s : TRUE}]
  <2>1. CASE s = {}
    BY <2>1, FS_EmptySet
  <2>2. CASE s # {}
    <3> DEFINE x == CHOOSE y \in s : TRUE
               rest == s \ {x}
    <3>1. x \in s
      BY <2>2
    <3>2. IsFiniteSet(s) /\ Cardinality(s) \in Nat /\ rest \in SUBSET rows
      BY FS_Subset, FS_CardinalityType
    <3>3. Cardinality(rest) = Cardinality(s) - 1
      BY <3>1, <3>2, FS_RemoveElement
    <3>4. x.value = 1
      BY <3>1
    <3> HIDE DEF x, rest
    <3>5. f[s] = x.value + f[rest]
      BY <3>2, <3>3, <3>4
    <3> QED BY <2>2, <3>5 DEF x, rest
  <2> QED BY <2>1, <2>2
<1>2. Adds(f, rows)
  <2> HIDE DEF f
  <2>1. f = [s \in SUBSET rows |-> f[s]]
    BY DEF f
  <2> QED BY <1>1, <2>1 DEF Adds
<1>3. f[rows] = Cardinality(rows)
  OBVIOUS
<1> QED BY <1>2, <1>3, SumIs

\* A batch has at most one row of an hour.
LEMMA SumOfOne ==
    ASSUME NEW batch, NEW w, NEW row, row.value \in Int
    PROVE  /\ {r \in batch : r.workflow = w} = {} => SumOf(batch, w) = 0
           /\ {r \in batch : r.workflow = w} = {row} => SumOf(batch, w) = row.value
<1> DEFINE rows == {r \in batch : r.workflow = w}
           f == [s \in SUBSET rows |-> IF s = {} THEN 0 ELSE row.value]
<1>1. ASSUME rows \in {{}, {row}} PROVE SumOf(batch, w) = f[rows]
  <2>1. IsFiniteSet(rows)
    <3> HIDE DEF rows
    <3>1. CASE rows = {}
      BY <3>1, FS_EmptySet
    <3>2. CASE rows = {row}
      BY <3>2, FS_Singleton
    <3> QED BY <1>1, <3>1, <3>2
  <2>2. \A s \in SUBSET rows : s = {} \/ s = {row}
    BY <1>1
  <2>3. (CHOOSE x \in {row} : TRUE) = row
    OBVIOUS
  <2>4. \A s \in SUBSET rows :
           f[s] = IF s = {} THEN 0
                  ELSE (CHOOSE x \in s : TRUE).value + f[s \ {CHOOSE x \in s : TRUE}]
    <3> TAKE s \in SUBSET rows
    <3>1. CASE s = {}
      BY <3>1
    <3>2. CASE s = {row}
      <4>1. f[{}] = 0 /\ f[s] = row.value /\ s \ {row} = {}
        BY <3>2
      <4> QED BY <3>2, <4>1, <2>3
    <3> QED BY <2>2, <3>1, <3>2
  <2>5. Adds(f, rows)
    <3> HIDE DEF f
    <3>1. f = [s \in SUBSET rows |-> f[s]]
      BY DEF f
    <3> QED BY <2>4, <3>1 DEF Adds
  <2> HIDE DEF f
  <2> QED BY <2>1, <2>5, SumIs
<1> QED BY <1>1

-----------------------------------------------------------------------------
(* What compaction adds up *)

\* The executions that ended so far: the others have left no event.
Collected == {e \in Events : execution[e].at # "running"}

OfWorkflow(events, w) == {e \in events : WorkflowOf[e] = w}
IsOpen(run) == run.batch # None

\* The fields of a run; its batch may be anything.
IsRun(run) ==
    /\ run = [main |-> run.main, level |-> run.level, batch |-> run.batch]
    /\ run.level \in {"hour", "day"}

\* The rows that may be in the batch of a compaction of one level.
RawRow(e) == [id |-> e, workflow |-> WorkflowOf[e], value |-> 1]
HourRow(h, w) == [id |-> h[w].id, workflow |-> w, value |-> h[w].value]
Rows(r, h, level) ==
    IF level = "hour" THEN {RawRow(e) : e \in r}
    ELSE {HourRow(h, w) : w \in {v \in Workflows : h[v].value > 0}}

\* The tables as long as no two compactions overlapped.  At most one batch is
\* open, and its rows still are what they were when it was read: a flush only
\* adds raw rows, and the commit of a batch closes it.
Exact ==
    /\ \A c, d \in Compactions : IsOpen(compaction[c]) /\ IsOpen(compaction[d]) => c = d
    /\ \A c \in Compactions : IsOpen(compaction[c]) =>
          compaction[c].batch \subseteq Rows(raw, hour, compaction[c].level)
    /\ hour \in [Workflows -> [id : Int, value : Nat]]
    /\ day \in [Workflows -> Nat]
    /\ \A w \in Workflows :
          Cardinality(OfWorkflow(raw, w)) + hour[w].value + day[w]
              = Cardinality(OfWorkflow(saved, w))

\* Inductive together with IInv, which says that what a flush holds is not saved yet.
CInv ==
    /\ IsFiniteSet(Collected)
    /\ raw \subseteq saved /\ saved \subseteq Events
    /\ compaction = [c \in Compactions |-> compaction[c]]
    /\ \A c \in Compactions : IsRun(compaction[c])
    /\ overlapped \/ Exact

\* Nothing is counted at the start.
LEMMA InitCInv == Init => CInv
<1> SUFFICES ASSUME Init PROVE CInv
  OBVIOUS
<1>1. Collected = {}
  BY DEF Init, Collected
<1>2. IsFiniteSet(Collected)
  BY <1>1, FS_EmptySet
<1>3. raw = {} /\ saved = {}
  BY DEF Init
<1>4. \A c \in Compactions : compaction[c] = [main |-> None, level |-> "hour", batch |-> None]
  BY DEF Init, Idle
<1>5. /\ compaction = [c \in Compactions |-> compaction[c]]
      /\ \A c \in Compactions : IsRun(compaction[c]) /\ ~IsOpen(compaction[c])
  BY <1>4 DEF Init, IsRun, IsOpen
<1>6. /\ hour \in [Workflows -> [id : Int, value : Nat]]
      /\ day \in [Workflows -> Nat]
      /\ \A w \in Workflows : hour[w].value = 0 /\ day[w] = 0
  BY DEF Init
<1>7. \A w \in Workflows : Cardinality(OfWorkflow(raw, w)) = 0
                           /\ Cardinality(OfWorkflow(saved, w)) = 0
  <2>1. \A w : OfWorkflow({}, w) = {}
    BY DEF OfWorkflow
  <2> QED BY <1>3, <2>1, FS_EmptySet
<1>8. Exact
  BY <1>5, <1>6, <1>7 DEF Exact
<1> QED BY <1>2, <1>3, <1>5, <1>8 DEF CInv

\* What ended so far stays finite: a step ends at most one more execution.
LEMMA CollectedFinite ==
    ASSUME IsFiniteSet(Collected), NEW e,
           \A d \in Events : execution'[d].at # "running" =>
              d = e \/ execution[d].at # "running"
    PROVE  IsFiniteSet(Collected')
<1>1. IsFiniteSet(Collected \cup {e})
  BY FS_AddElement
<1>2. Collected' \in SUBSET (Collected \cup {e})
  BY DEF Collected
<1> QED BY <1>1, <1>2, FS_Subset

\* No step starts to run what ended, and none ends two executions.
LEMMA NextCollected ==
    ASSUME IInv, IsFiniteSet(Collected), [Next]_vars
    PROVE  IsFiniteSet(Collected')
<1>0. \A e \in Events : \A s :
          execution' = [execution EXCEPT ![e].at = s] =>
             \A d \in Events : execution'[d].at # "running" =>
                d = e \/ execution[d].at # "running"
  BY DEF IInv
<1>1. CASE UNCHANGED execution
  BY <1>1, CollectedFinite
<1>2. ASSUME NEW e \in Events, NEW s, execution' = [execution EXCEPT ![e].at = s]
      PROVE  IsFiniteSet(Collected')
  BY <1>0, <1>2, CollectedFinite
<1>3. ASSUME NEW m \in Mains, NEW f \in service[m].flushes, NEW back, EndFlush(m, f, back)
      PROVE  IsFiniteSet(Collected')
  <2>1. f.waiter \in Events \cup {None}
    BY DEF IInv, Service, Flush
  <2> QED BY <1>1, <1>2, <1>3, <2>1 DEF EndFlush
<1>4. ASSUME NEW m \in Mains, MainNext(m) PROVE IsFiniteSet(Collected')
  <2>1. ASSUME NEW f \in service[m].flushes,
               FindMetadata(m, f) \/ InsertRaw(m, f) \/ SaveFails(m, f)
        PROVE  IsFiniteSet(Collected')
    <3>1. UNCHANGED execution \/ EndFlush(m, f, {}) \/ EndFlush(m, f, f.events)
      BY <2>1 DEF FindMetadata, InsertRaw, SaveFails, FailFlush
    <3> QED BY <1>1, <1>3, <3>1
  <2>2. CASE \/ FlushTimer(m) \/ Takeover(m) \/ StepDown(m) \/ Shutdown(m)
             \/ ShutdownEnds(m) \/ Exit(m) \/ ForceExit(m)
             \/ \E c \in Compactions : CompactInsights(m, c)
    <3>1. UNCHANGED execution
      BY <2>2 DEF FlushTimer, Takeover, StepDown, Shutdown, ShutdownEnds, Exit, ForceExit,
                  Gone, CompactInsights, collectionVars
    <3> QED BY <1>1, <3>1
  <2> QED BY <1>4, <2>1, <2>2 DEF MainNext
<1>5. ASSUME NEW e \in Events, Handle(e) \/ ContinueHandler(e)
      PROVE  IsFiniteSet(Collected')
  BY <1>2, <1>5 DEF Handle, ContinueHandler
<1>6. ASSUME \/ \E w \in Workflows : DeleteWorkflow(w)
             \/ \E c \in Compactions : ReadBatch(c) \/ CommitBatch(c) \/ CompactionFails(c)
             \/ UNCHANGED vars
      PROVE  IsFiniteSet(Collected')
  <2>1. UNCHANGED execution
    BY <1>6 DEF DeleteWorkflow, ReadBatch, CommitBatch, CompactionFails, collectionVars, vars
  <2> QED BY <1>1, <2>1
<1> QED BY <1>4, <1>5, <1>6 DEF Next

\* The sets of events that are counted are finite.
LEMMA CountsFinite ==
    ASSUME IInv, CInv, NEW w
    PROVE  /\ IsFiniteSet(OfWorkflow(raw, w)) /\ IsFiniteSet(OfWorkflow(saved, w))
           /\ Cardinality(OfWorkflow(raw, w)) \in Nat
           /\ Cardinality(OfWorkflow(saved, w)) \in Nat
<1>1. saved \subseteq Collected
  BY DEF IInv, CInv, Collected
<1>2. /\ OfWorkflow(raw, w) \in SUBSET Collected
      /\ OfWorkflow(saved, w) \in SUBSET Collected
  BY <1>1 DEF CInv, OfWorkflow
<1> QED BY <1>2, FS_Subset, FS_CardinalityType DEF CInv

\* The other steps change nothing that is added up, and at most end compactions.
LEMMA CInvUnaffected ==
    ASSUME CInv, IsFiniteSet(Collected'),
           compaction' = [c \in Compactions |-> compaction'[c]],
           \A c \in Compactions :
              /\ IsRun(compaction'[c])
              /\ compaction'[c] = compaction[c] \/ compaction'[c].batch = None,
           UNCHANGED <<raw, saved, hour, day, overlapped>>
    PROVE  CInv'
<1>1. \A c \in Compactions : IsOpen(compaction'[c]) =>
        IsOpen(compaction[c]) /\ compaction'[c] = compaction[c]
  BY DEF IsOpen
<1>2. \A level : Rows(raw', hour', level) = Rows(raw, hour, level)
  BY DEF Rows, HourRow, RawRow
<1>3. Exact => Exact'
  <2> SUFFICES ASSUME Exact PROVE Exact'
    OBVIOUS
  <2>1. \A c \in Compactions : IsOpen(compaction'[c]) =>
            compaction'[c].batch \subseteq Rows(raw', hour', compaction'[c].level)
    BY <1>1, <1>2 DEF Exact
  <2>2. \A c, d \in Compactions : IsOpen(compaction'[c]) /\ IsOpen(compaction'[d]) => c = d
    BY <1>1 DEF Exact
  <2> QED BY <2>1, <2>2 DEF Exact
<1> QED BY <1>3 DEF CInv

\* A flush saves events that were not saved: they are counted in both places.
LEMMA InsertRawCInv ==
    ASSUME IInv, CInv, IsFiniteSet(Collected'),
           NEW m \in Mains, NEW f \in service[m].flushes, InsertRaw(m, f)
    PROVE  CInv'
<1>1. UNCHANGED <<hour, day, compaction, overlapped>>
  BY DEF InsertRaw, compactionVars
<1>2. CASE raw' = raw /\ saved' = saved
  BY <1>1, <1>2, CInvUnaffected DEF CInv
<1>3. CASE raw' = raw \cup f.events /\ saved' = saved \cup f.events
  <2>1. /\ f.events \subseteq Events /\ f.events \cap saved = {} /\ f.events \cap raw = {}
        /\ f.events \subseteq Collected
    <3>1. f.events \subseteq HeldBy(service[m])
      BY DEF HeldBy
    <3>2. f.events \subseteq Events
      BY DEF IInv, Service, Flush
    <3> QED BY <3>1, <3>2 DEF IInv, CInv, Collected
  <2>2. \A w \in Workflows :
          /\ Cardinality(OfWorkflow(f.events, w)) \in Nat
          /\ Cardinality(OfWorkflow(raw', w)) =
                Cardinality(OfWorkflow(raw, w)) + Cardinality(OfWorkflow(f.events, w))
          /\ Cardinality(OfWorkflow(saved', w)) =
                Cardinality(OfWorkflow(saved, w)) + Cardinality(OfWorkflow(f.events, w))
    <3> TAKE w \in Workflows
    <3> DEFINE new == OfWorkflow(f.events, w)
    <3>1. IsFiniteSet(new) /\ Cardinality(new) \in Nat
      <4>1. new \in SUBSET Collected
        BY <2>1 DEF OfWorkflow
      <4> QED BY <4>1, FS_Subset, FS_CardinalityType DEF CInv
    <3>2. /\ OfWorkflow(raw', w) = OfWorkflow(raw, w) \cup new
          /\ OfWorkflow(saved', w) = OfWorkflow(saved, w) \cup new
          /\ OfWorkflow(raw, w) \cap new = {} /\ OfWorkflow(saved, w) \cap new = {}
      BY <1>3, <2>1 DEF OfWorkflow
    <3> HIDE DEF new
    <3>3. /\ Cardinality(OfWorkflow(raw, w) \cup new) =
                Cardinality(OfWorkflow(raw, w)) + Cardinality(new) - Cardinality({})
          /\ Cardinality(OfWorkflow(saved, w) \cup new) =
                Cardinality(OfWorkflow(saved, w)) + Cardinality(new) - Cardinality({})
      BY <3>1, <3>2, CountsFinite, FS_Union
    <3> QED BY <3>1, <3>2, <3>3, CountsFinite, FS_EmptySet DEF new
  <2>3. Exact => Exact'
    <3> SUFFICES ASSUME Exact PROVE Exact'
      OBVIOUS
    <3>1. \A level : Rows(raw, hour, level) \subseteq Rows(raw', hour', level)
      BY <1>1, <1>3 DEF Rows, HourRow, RawRow
    <3>2. \A c \in Compactions : IsOpen(compaction'[c]) =>
        IsOpen(compaction[c]) /\ compaction'[c] = compaction[c]
      BY <1>1 DEF IsOpen
    <3>3. \A c \in Compactions : IsOpen(compaction'[c]) =>
              compaction'[c].batch \subseteq Rows(raw', hour', compaction'[c].level)
      BY <3>1, <3>2 DEF Exact
    <3>4. \A c, d \in Compactions : IsOpen(compaction'[c]) /\ IsOpen(compaction'[d]) => c = d
      BY <3>2 DEF Exact
    <3>5. \A w \in Workflows :
             Cardinality(OfWorkflow(raw', w)) + hour'[w].value + day'[w]
                 = Cardinality(OfWorkflow(saved', w))
      <4> TAKE w \in Workflows
      <4>1. /\ hour'[w].value = hour[w].value /\ hour[w].value \in Nat
            /\ day'[w] = day[w] /\ day[w] \in Nat
        BY <1>1 DEF Exact
      <4>2. Cardinality(OfWorkflow(raw, w)) + hour[w].value + day[w]
               = Cardinality(OfWorkflow(saved, w))
        BY DEF Exact
      <4> QED BY <2>2, <4>1, <4>2, CountsFinite
    <3> QED BY <1>1, <3>3, <3>4, <3>5 DEF Exact
  <2> QED BY <1>1, <1>3, <2>1, <2>3 DEF CInv
<1> QED BY <1>2, <1>3 DEF InsertRaw, FailFlush

\* A batch is read while none is open, or two transactions overlap.
LEMMA ReadBatchCInv ==
    ASSUME CInv, IsFiniteSet(Collected'), NEW c \in Compactions, ReadBatch(c)
    PROVE  CInv'
<1>1. PICK b \in Batches(compaction[c].level) :
          compaction' = [compaction EXCEPT ![c] =
             IF b # {} THEN [@ EXCEPT !.batch = b]
             ELSE IF @.level = "hour" THEN [@ EXCEPT !.level = "day"] ELSE Idle]
  BY DEF ReadBatch
<1>2. /\ UNCHANGED <<raw, saved, hour, day>>
      /\ overlapped' = (overlapped \/ \E d \in Compactions \ {c} : IsOpen(compaction[d]))
      /\ ~IsOpen(compaction[c])
  BY DEF ReadBatch, collectionVars, IsOpen
<1>3. /\ compaction' = [d \in Compactions |-> compaction'[d]]
      /\ \A d \in Compactions \ {c} : compaction'[d] = compaction[d]
      /\ compaction'[c] = IF b # {} THEN [compaction[c] EXCEPT !.batch = b]
                          ELSE IF compaction[c].level = "hour"
                               THEN [compaction[c] EXCEPT !.level = "day"] ELSE Idle
  BY <1>1 DEF CInv
<1>4. /\ IsRun(compaction'[c])
      /\ \/ compaction'[c].batch = None
         \/ compaction'[c].batch = b /\ compaction'[c].level = compaction[c].level
  <2>1. IsRun(compaction[c]) /\ compaction[c].batch = None
    BY <1>2 DEF CInv, IsOpen
  <2> QED BY <1>3, <2>1 DEF IsRun, Idle
<1>5. b \subseteq Rows(raw, hour, compaction[c].level)
  BY DEF Batches, Source, Rows, RawRow, HourRow
<1>6. Exact /\ (\A d \in Compactions : ~IsOpen(compaction[d])) => Exact'
  <2> SUFFICES ASSUME Exact, \A d \in Compactions : ~IsOpen(compaction[d]) PROVE Exact'
    OBVIOUS
  <2>1. \A level : Rows(raw', hour', level) = Rows(raw, hour, level)
    BY <1>2 DEF Rows, HourRow, RawRow
  <2>2. \A d \in Compactions : IsOpen(compaction'[d]) =>
            /\ d = c
            /\ compaction'[d].batch \subseteq Rows(raw', hour', compaction'[d].level)
    <3> SUFFICES ASSUME NEW d \in Compactions, IsOpen(compaction'[d])
                 PROVE  /\ d = c
                        /\ compaction'[d].batch \subseteq Rows(raw', hour', compaction'[d].level)
      OBVIOUS
    <3>1. d = c
      BY <1>3 DEF IsOpen
    <3> QED BY <1>4, <1>5, <2>1, <3>1 DEF IsOpen
  <2> QED BY <1>2, <2>2 DEF Exact
<1>7. \A d \in Compactions : IsRun(compaction'[d])
  BY <1>3, <1>4 DEF CInv
<1> QED BY <1>2, <1>3, <1>6, <1>7 DEF CInv

\* What the batch of an hour holds of a workflow: a row for each of some events.
LEMMA HourBatch ==
    ASSUME IInv, CInv, NEW batch, batch \subseteq Rows(raw, hour, "hour"), NEW w
    PROVE  LET ids == {r.id : r \in batch}
           IN  /\ SumOf(batch, w) = Cardinality(OfWorkflow(ids, w))
               /\ SumOf(batch, w) \in Nat
               /\ Cardinality(OfWorkflow(raw \ ids, w)) =
                     Cardinality(OfWorkflow(raw, w)) - SumOf(batch, w)
<1> DEFINE ids == {r.id : r \in batch}
           rows == {r \in batch : r.workflow = w}
           of == OfWorkflow(ids, w)
           f == [e \in of |-> RawRow(e)]
<1>1. \A r \in batch : /\ r.id \in raw /\ r = RawRow(r.id)
                       /\ r.workflow = WorkflowOf[r.id] /\ r.value = 1
  BY DEF Rows, RawRow
<1>2. \A e \in ids : e \in raw /\ RawRow(e) \in batch
  BY <1>1
<1>3. /\ \A e : RawRow(e).id = e /\ RawRow(e).workflow = WorkflowOf[e]
      /\ of \subseteq OfWorkflow(raw, w)
  BY <1>2 DEF RawRow, OfWorkflow
<1>4. IsFiniteSet(of) /\ Cardinality(of) \in Nat
  BY <1>3, CountsFinite, FS_Subset, FS_CardinalityType
<1>5. f \in Bijection(of, rows)
  <2>1. \A e \in of : RawRow(e) \in rows
    BY <1>2, <1>3 DEF OfWorkflow
  <2>2. \A r \in rows : r.id \in of /\ RawRow(r.id) = r
    BY <1>1 DEF OfWorkflow
  <2> HIDE DEF of, rows
  <2>3. f \in [of -> rows]
    BY <2>1
  <2>4. \A a, b \in of : f[a] = f[b] => a = b
    <3> SUFFICES ASSUME NEW a \in of, NEW b \in of, RawRow(a) = RawRow(b)
                 PROVE  a = b
      OBVIOUS
    <3>1. RawRow(a).id = a /\ RawRow(b).id = b
      BY <1>3
    <3> QED BY <3>1
  <2>5. \A r \in rows : \E e \in of : f[e] = r
    BY <2>2
  <2> HIDE DEF f
  <2> QED BY <2>3, <2>4, <2>5 DEF Bijection, Injection, Surjection, IsInjective
<1>6. IsFiniteSet(rows) /\ Cardinality(rows) = Cardinality(of)
  <2> HIDE DEF of, rows, f
  <2>1. ExistsBijection(of, rows)
    BY <1>5 DEF ExistsBijection
  <2> QED BY <1>4, <2>1, FS_Bijection
<1>7. SumOf(batch, w) = Cardinality(of)
  BY <1>1, <1>6, SumOfOnes
<1>8. /\ OfWorkflow(raw \ ids, w) = OfWorkflow(raw, w) \ of
      /\ OfWorkflow(raw, w) \cap of = of
  BY <1>3 DEF OfWorkflow
<1>9. Cardinality(OfWorkflow(raw, w) \ of) =
        Cardinality(OfWorkflow(raw, w)) - Cardinality(OfWorkflow(raw, w) \cap of)
  BY CountsFinite, FS_Difference
<1> QED BY <1>4, <1>7, <1>8, <1>9

\* What the batch of a day holds of a workflow: the row of its hours, or nothing.
LEMMA DayBatch ==
    ASSUME NEW batch, batch \subseteq Rows(raw, hour, "day"),
           hour \in [Workflows -> [id : Int, value : Nat]], NEW w \in Workflows
    PROVE  SumOf(batch, w) = IF \E r \in batch : r.workflow = w /\ r.id = hour[w].id
                             THEN hour[w].value ELSE 0
<1> DEFINE row == HourRow(hour, w)
           rows == {r \in batch : r.workflow = w}
<1>1. row.workflow = w /\ row.id = hour[w].id /\ row.value = hour[w].value
  BY DEF HourRow
<1>2. \A r \in batch : r.workflow = w => r = row
  BY DEF Rows, HourRow
<1>3. row.value \in Int
  BY <1>1
<1> HIDE DEF row
<1>4. CASE row \in batch
  <2>1. rows = {row}
    BY <1>1, <1>2, <1>4
  <2>2. SumOf(batch, w) = row.value
    BY <1>3, <2>1, SumOfOne
  <2> QED BY <1>1, <1>4, <2>2
<1>5. CASE row \notin batch
  <2>1. \A r \in batch : r.workflow # w
    BY <1>2, <1>5
  <2>2. rows = {}
    BY <2>1
  <2>3. SumOf(batch, w) = 0
    BY <1>3, <2>2, SumOfOne
  <2> QED BY <2>1, <2>3
<1> QED BY <1>4, <1>5

\* A commit moves what its batch counts from one table to the next.
LEMMA CommitBatchCInv ==
    ASSUME IInv, CInv, IsFiniteSet(Collected'), NEW c \in Compactions, CommitBatch(c)
    PROVE  CInv'
<1> DEFINE batch == compaction[c].batch
<1>1. /\ IsOpen(compaction[c])
      /\ compaction' = [compaction EXCEPT ![c].batch = None]
      /\ UNCHANGED <<saved, overlapped>>
  BY DEF CommitBatch, collectionVars, IsOpen
<1>2. /\ compaction' = [d \in Compactions |-> compaction'[d]]
      /\ \A d \in Compactions \ {c} : compaction'[d] = compaction[d]
      /\ IsRun(compaction'[c]) /\ ~IsOpen(compaction'[c])
  <2>1. /\ compaction' = [d \in Compactions |-> compaction'[d]]
        /\ \A d \in Compactions \ {c} : compaction'[d] = compaction[d]
        /\ compaction'[c] = [compaction[c] EXCEPT !.batch = None]
    BY <1>1 DEF CInv
  <2>2. IsRun(compaction[c])
    BY DEF CInv
  <2> QED BY <2>1, <2>2 DEF IsRun, IsOpen
<1>3. raw' \subseteq raw
  BY DEF CommitBatch
<1>4. ASSUME Exact PROVE Exact'
  <2>1. \A d \in Compactions : ~IsOpen(compaction'[d])
    BY <1>1, <1>2, <1>4 DEF Exact
  <2>2. /\ hour \in [Workflows -> [id : Int, value : Nat]]
        /\ day \in [Workflows -> Nat]
        /\ batch \subseteq Rows(raw, hour, compaction[c].level)
        /\ compaction[c].level \in {"hour", "day"}
    BY <1>1, <1>4 DEF Exact, CInv, IsRun
  <2>3. \A w \in Workflows : Cardinality(OfWorkflow(raw, w)) + hour[w].value + day[w]
                                = Cardinality(OfWorkflow(saved, w))
    BY <1>4 DEF Exact
  <2> HIDE DEF batch
  <2>4. CASE compaction[c].level = "hour"
    <3> DEFINE ids == {r.id : r \in batch}
    <3>1. /\ raw' = raw \ ids /\ day' = day
          /\ hour' = [w \in Workflows |->
                [id |-> hour[w].id +
                        (IF hour[w].value = 0 /\ SumOf(batch, w) > 0 THEN 1 ELSE 0),
                 value |-> hour[w].value + SumOf(batch, w)]]
      BY <2>4 DEF CommitBatch, batch
    <3> HIDE DEF ids
    <3>2. \A w \in Workflows :
             /\ SumOf(batch, w) \in Nat
             /\ Cardinality(OfWorkflow(raw', w)) =
                   Cardinality(OfWorkflow(raw, w)) - SumOf(batch, w)
      BY <2>2, <2>4, <3>1, HourBatch DEF ids
    <3>3. \A w \in Workflows : hour'[w].value = hour[w].value + SumOf(batch, w)
      BY <3>1
    <3>4. hour' \in [Workflows -> [id : Int, value : Nat]]
      BY <2>2, <3>1, <3>2
    <3>5. ASSUME NEW w \in Workflows
          PROVE  Cardinality(OfWorkflow(raw', w)) + hour'[w].value + day'[w]
                     = Cardinality(OfWorkflow(saved', w))
      <4>1. hour[w].value \in Nat /\ day[w] \in Nat /\ day'[w] = day[w]
        BY <2>2, <3>1
      <4> QED BY <1>1, <2>3, <3>2, <3>3, <4>1, CountsFinite
    <3> QED BY <2>1, <2>2, <3>1, <3>4, <3>5 DEF Exact
  <2>5. CASE compaction[c].level = "day"
    <3>1. /\ raw' = raw
          /\ day' = [w \in Workflows |-> day[w] + SumOf(batch, w)]
          /\ hour' = [w \in Workflows |->
                IF \E r \in batch : r.workflow = w /\ r.id = hour[w].id
                THEN [hour[w] EXCEPT !.value = 0] ELSE hour[w]]
      BY <2>5 DEF CommitBatch, batch
    <3>2. \A w \in Workflows :
             /\ SumOf(batch, w) + hour'[w].value = hour[w].value
             /\ SumOf(batch, w) \in Nat /\ hour'[w] \in [id : Int, value : Nat]
      <4> TAKE w \in Workflows
      <4>1. hour[w] \in [id : Int, value : Nat]
        BY <2>2
      <4>2. SumOf(batch, w) = IF \E r \in batch : r.workflow = w /\ r.id = hour[w].id
                              THEN hour[w].value ELSE 0
        BY <2>2, <2>5, DayBatch
      <4>3. hour'[w] = IF \E r \in batch : r.workflow = w /\ r.id = hour[w].id
                       THEN [hour[w] EXCEPT !.value = 0] ELSE hour[w]
        BY <3>1
      <4> QED BY <4>1, <4>2, <4>3
    <3>3. /\ hour' \in [Workflows -> [id : Int, value : Nat]]
          /\ day' \in [Workflows -> Nat]
      <4>1. hour' = [w \in Workflows |-> hour'[w]]
        BY <3>1
      <4>2. hour' \in [Workflows -> [id : Int, value : Nat]]
        BY <3>2, <4>1
      <4>3. \A w \in Workflows : day[w] + SumOf(batch, w) \in Nat
        BY <2>2, <3>2
      <4> QED BY <3>1, <4>2, <4>3
    <3>4. ASSUME NEW w \in Workflows
          PROVE  Cardinality(OfWorkflow(raw', w)) + hour'[w].value + day'[w]
                     = Cardinality(OfWorkflow(saved', w))
      <4>1. /\ hour[w].value \in Nat /\ hour'[w].value \in Nat
            /\ day[w] \in Nat /\ day'[w] = day[w] + SumOf(batch, w)
        BY <2>2, <3>1, <3>3
      <4>2. SumOf(batch, w) + hour'[w].value = hour[w].value /\ SumOf(batch, w) \in Nat
        BY <3>2
      <4>3. raw' = raw /\ saved' = saved /\ Cardinality(OfWorkflow(raw, w)) \in Nat
        BY <1>1, <3>1, CountsFinite
      <4>4. Cardinality(OfWorkflow(raw, w)) + hour[w].value + day[w]
               = Cardinality(OfWorkflow(saved, w))
        BY <2>3
      <4> QED BY <4>1, <4>2, <4>3, <4>4
    <3> QED BY <2>1, <3>3, <3>4 DEF Exact
  <2> QED BY <2>2, <2>4, <2>5
<1>5. \A d \in Compactions : IsRun(compaction'[d])
  BY <1>2 DEF CInv
<1> QED BY <1>1, <1>2, <1>3, <1>4, <1>5 DEF CInv

\* Every step preserves the invariant of the tables.
LEMMA NextCInv == IInv /\ CInv /\ [Next]_vars => CInv'
<1> SUFFICES ASSUME IInv, CInv, [Next]_vars PROVE CInv'
  OBVIOUS
<1>1. IsFiniteSet(Collected')
  BY NextCollected DEF CInv
<1>2. CASE UNCHANGED <<raw, saved, hour, day, overlapped, compaction>>
  BY <1>1, <1>2, CInvUnaffected DEF CInv
<1>3. ASSUME NEW c \in Compactions, NEW run, IsRun(run), run.batch = None,
             compaction' = [compaction EXCEPT ![c] = run],
             UNCHANGED <<raw, saved, hour, day, overlapped>>
      PROVE  CInv'
  <2>1. /\ compaction' = [d \in Compactions |-> compaction'[d]]
        /\ compaction'[c] = run
        /\ \A d \in Compactions \ {c} : compaction'[d] = compaction[d]
    BY <1>3 DEF CInv
  <2>2. \A d \in Compactions : /\ IsRun(compaction'[d])
                               /\ \/ compaction'[d] = compaction[d]
                                  \/ compaction'[d].batch = None
    BY <1>3, <2>1 DEF CInv
  <2> QED BY <1>1, <1>3, <2>1, <2>2, CInvUnaffected
<1>4. IsRun(Idle) /\ Idle.batch = None
      /\ \A m : IsRun([Idle EXCEPT !.main = m]) /\ [Idle EXCEPT !.main = m].batch = None
  BY DEF Idle, IsRun
<1>5. ASSUME NEW m \in Mains, MainNext(m) PROVE CInv'
  <2>1. ASSUME NEW f \in service[m].flushes, InsertRaw(m, f) PROVE CInv'
    BY <1>1, <2>1, InsertRawCInv
  <2>2. ASSUME NEW f \in service[m].flushes, FindMetadata(m, f) \/ SaveFails(m, f)
        PROVE  CInv'
    <3>1. UNCHANGED <<raw, saved, hour, day, overlapped, compaction>>
      BY <2>2 DEF FindMetadata, SaveFails, FailFlush, compactionVars
    <3> QED BY <1>2, <3>1
  <2>3. CASE FlushTimer(m) \/ Takeover(m) \/ StepDown(m) \/ Shutdown(m) \/ ShutdownEnds(m)
    <3>1. UNCHANGED <<raw, saved, hour, day, overlapped, compaction>>
      BY <2>3 DEF FlushTimer, Takeover, StepDown, Shutdown, ShutdownEnds, compactionVars,
                  collectionVars
    <3> QED BY <1>2, <3>1
  <2>4. ASSUME NEW c \in Compactions, CompactInsights(m, c) PROVE CInv'
    <3>1. /\ compaction' = [compaction EXCEPT ![c] = [Idle EXCEPT !.main = m]]
          /\ UNCHANGED <<raw, saved, hour, day, overlapped>>
      BY <2>4 DEF CompactInsights, collectionVars
    <3> HIDE DEF Idle
    <3> QED BY <1>3, <1>4, <3>1
  <2>5. CASE Exit(m) \/ ForceExit(m)
    <3>1. /\ compaction' = [c \in Compactions |->
                IF compaction[c].main = m THEN Idle ELSE compaction[c]]
          /\ UNCHANGED <<raw, saved, hour, day, overlapped>>
      BY <2>5 DEF Exit, ForceExit, Gone
    <3>2. \A c \in Compactions : compaction'[c] = Idle \/ compaction'[c] = compaction[c]
      BY <3>1
    <3>3. compaction' = [c \in Compactions |-> compaction'[c]]
      BY <3>1
    <3>4. \A c \in Compactions : /\ IsRun(compaction'[c])
                                 /\ \/ compaction'[c] = compaction[c]
                                    \/ compaction'[c].batch = None
      BY <1>4, <3>2 DEF CInv
    <3> QED BY <1>1, <3>1, <3>3, <3>4, CInvUnaffected
  <2> QED BY <1>5, <2>1, <2>2, <2>3, <2>4, <2>5 DEF MainNext
<1>6. ASSUME NEW e \in Events, Handle(e) \/ ContinueHandler(e) PROVE CInv'
  <2>1. UNCHANGED <<raw, saved, hour, day, overlapped, compaction>>
    BY <1>6 DEF Handle, ContinueHandler, compactionVars
  <2> QED BY <1>2, <2>1
<1>7. ASSUME NEW c \in Compactions, ReadBatch(c) PROVE CInv'
  BY <1>1, <1>7, ReadBatchCInv
<1>8. ASSUME NEW c \in Compactions, CommitBatch(c) PROVE CInv'
  BY <1>1, <1>8, CommitBatchCInv
<1>9. ASSUME NEW c \in Compactions, CompactionFails(c) PROVE CInv'
  <2>1. /\ compaction' = [compaction EXCEPT ![c] = Idle]
        /\ UNCHANGED <<raw, saved, hour, day, overlapped>>
    BY <1>9 DEF CompactionFails, collectionVars
  <2> QED BY <1>3, <1>4, <2>1
<1>10. ASSUME NEW w \in Workflows, DeleteWorkflow(w) PROVE CInv'
  <2>1. UNCHANGED <<raw, saved, hour, day, overlapped, compaction>>
    BY <1>10 DEF DeleteWorkflow, collectionVars, compactionVars
  <2> QED BY <1>2, <2>1
<1>11. CASE UNCHANGED vars
  BY <1>2, <1>11 DEF vars
<1> QED BY <1>5, <1>6, <1>7, <1>8, <1>9, <1>10, <1>11 DEF Next

\* The invariant of the tables says what CountedOnce says.
LEMMA CInvImplies == CInv => CountedOnce
BY DEF CInv, Exact, CountedOnce, OfWorkflow

-----------------------------------------------------------------------------
LEMMA Invariance == Spec => []IInv
BY InitIInv, NextIInv, PTL DEF Spec

LEMMA CountInvariance == Spec => []CInv
BY InitIInv, NextIInv, InitCInv, NextCInv, PTL DEF Spec

\* flushEvents() and saveInsightsMetadataAndRaw(): the events of an ended
\* execution are in exactly one place until the process exits.
THEOREM EachCollectedOnce == Spec => []CollectedOnce
BY Invariance, IInvImplies, PTL

\* shutdown(): nothing is held that neither it nor a handler waits for, as long
\* as the service saves synchronously.
THEOREM NothingLeftBehind == Spec => []SyncSavesAreAwaited
BY Invariance, IInvImplies, PTL

\* compactInsights(): what was saved is counted once, as raw rows, in hours or in
\* days, for any number of mains and compactions, until two of them overlap.
THEOREM EachCountedOnce == Spec => []CountedOnce
BY CountInvariance, CInvImplies, PTL

=============================================================================
