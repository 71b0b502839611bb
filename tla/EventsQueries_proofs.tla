------------------------ MODULE EventsQueries_proofs ------------------------
(***************************************************************************)
(* Proofs about EventsQueries.  That handles are never used again needs an *)
(* invariant of the two counters: no event and no query pool is registered  *)
(* before its handle has been counted.                                      *)
(***************************************************************************)
EXTENDS EventsQueries, TLAPS

FreshEvents == \A e \in Event : e >= event_handler_id => events[e] = Absent

FreshQueries == \A q \in QueryPool : q >= queries_handler_id => queries[q] = Absent

EventsInv == TypeOK /\ FreshEvents /\ FreshQueries

LEMMA EventsInitially == Init => EventsInv
BY EventAssumption DEF Init, EventsInv, TypeOK, FreshEvents, FreshQueries, Result

\* The calls that touch no event.
LEMMA OtherEventsKeep ==
    ASSUME EventsInv, UNCHANGED eventVars, device_live' \in BOOLEAN,
           queries' \in [QueryPool -> Nat \cup {Absent}],
           queries_handler_id' \in 1 .. MaxQueryPool + 1, ret' \in Result, FreshQueries'
    PROVE  EventsInv'
BY DEF EventsInv, TypeOK, FreshEvents, eventVars

LEMMA EventsStep == EventsInv /\ [Next]_vars => EventsInv'
<1> SUFFICES ASSUME EventsInv, [Next]_vars PROVE EventsInv'
    OBVIOUS
<1> USE DEF EventsInv
<1>1. CASE CreateEvent
    <2>1. /\ event_handler_id \in Event
          /\ event_handler_id' = event_handler_id + 1
          /\ events' = [events EXCEPT ![event_handler_id] = FALSE]
          /\ ret' \in Result
          /\ UNCHANGED <<device_live, queryVars>>
        BY <1>1, EventAssumption
           DEF CreateEvent, NextEvent, NewEvent, Return, Result, TypeOK, Event
    <2>2. TypeOK' /\ FreshQueries'
        <3>1. event_handler_id' \in 1 .. MaxEvent + 1
            BY <2>1, EventAssumption DEF Event
        <3>2. events' \in [Event -> BOOLEAN \cup {Absent}]
            BY <2>1 DEF TypeOK
        <3> QED BY <2>1, <3>1, <3>2 DEF TypeOK, FreshQueries, queryVars
    <2>3. FreshEvents'
        <3> SUFFICES ASSUME NEW e \in Event, e >= event_handler_id + 1
                     PROVE  events'[e] = Absent
            BY <2>1 DEF FreshEvents
        <3>1. e >= event_handler_id /\ e # event_handler_id
            BY DEF TypeOK, Event
        <3> QED BY <2>1, <3>1 DEF FreshEvents, TypeOK
    <2> QED BY <2>2, <2>3
<1>2. ASSUME NEW e \in Event, DestroyEvent(e) PROVE EventsInv'
    <2>1. /\ events' = [events EXCEPT ![e] = Absent]
          /\ ret' \in Result
          /\ UNCHANGED <<device_live, event_handler_id, queryVars>>
        BY <1>2 DEF DestroyEvent, Return, Result
    <2> QED BY <2>1 DEF TypeOK, FreshEvents, FreshQueries, queryVars
<1>3. ASSUME NEW e \in Event, NEW signaled \in BOOLEAN, StoreEvent(e, signaled)
      PROVE  EventsInv'
    <2>1. CASE events[e] = Absent
        BY <1>3, <2>1, OtherEventsKeep DEF StoreEvent, Return, Result, TypeOK, FreshQueries, queryVars
    <2>2. CASE events[e] # Absent
        <3>1. /\ events' = [events EXCEPT ![e] = signaled]
              /\ ret' \in Result
              /\ UNCHANGED <<device_live, event_handler_id, queryVars>>
            BY <1>3, <2>2 DEF StoreEvent, Return, Result
        <3>2. e < event_handler_id
            BY <2>2 DEF FreshEvents, TypeOK, Event
        <3>3. TypeOK' /\ FreshQueries'
            BY <3>1 DEF TypeOK, FreshQueries, queryVars
        <3>4. FreshEvents'
            BY <3>1, <3>2 DEF FreshEvents, TypeOK, Event
        <3> QED BY <3>3, <3>4
    <2> QED BY <2>1, <2>2
<1>4. ASSUME NEW e \in Event, GetEventStatus(e) PROVE EventsInv'
    <2>1. ret' \in Result /\ UNCHANGED <<device_live, eventVars, queryVars>>
        BY <1>4 DEF GetEventStatus, StatusOfEvent, Return, Result
    <2> QED BY <2>1, OtherEventsKeep DEF TypeOK, FreshQueries, queryVars
<1>5. ASSUME NEW queryCount \in QueryCounts, CreateQueryPool(queryCount) PROVE EventsInv'
    <2>1. ret' \in Result /\ UNCHANGED <<device_live, eventVars>>
        BY <1>5 DEF CreateQueryPool, Return, Result
    <2>2. CASE UNCHANGED queryVars
        BY <2>1, <2>2, OtherEventsKeep DEF TypeOK, FreshQueries, queryVars
    <2>3. CASE ~UNCHANGED queryVars
        <3>1. /\ queries_handler_id =< MaxQueryPool
              /\ queries' = [queries EXCEPT ![queries_handler_id] = queryCount]
              /\ queries_handler_id' = queries_handler_id + 1
            BY <1>5, <2>3 DEF CreateQueryPool
        <3>2. /\ queries' \in [QueryPool -> Nat \cup {Absent}]
              /\ queries_handler_id' \in 1 .. MaxQueryPool + 1
            BY <3>1, EventAssumption DEF TypeOK, QueryPool
        <3>3. FreshQueries'
            BY <3>1, <3>2 DEF TypeOK, FreshQueries, QueryPool
        <3> QED BY <2>1, <3>2, <3>3, OtherEventsKeep DEF TypeOK
    <2> QED BY <2>2, <2>3
<1>6. ASSUME NEW q \in QueryPool, DestroyQueryPool(q) PROVE EventsInv'
    <2>1. /\ queries' = [queries EXCEPT ![q] = Absent]
          /\ ret' \in Result
          /\ UNCHANGED <<device_live, queries_handler_id, eventVars>>
        BY <1>6 DEF DestroyQueryPool, Return, Result
    <2>2. queries' \in [QueryPool -> Nat \cup {Absent}] /\ FreshQueries'
        BY <2>1 DEF TypeOK, FreshQueries
    <2> QED BY <2>1, <2>2, OtherEventsKeep DEF TypeOK
<1>7. ASSUME NEW q \in QueryPool, NEW count \in QueryCounts, NEW wait \in BOOLEAN,
             GetQueryPoolResults(q, count, wait)
      PROVE  EventsInv'
    <2>1. ret' \in Result /\ UNCHANGED <<device_live, eventVars, queryVars>>
        BY <1>7 DEF GetQueryPoolResults, Return, Result
    <2> QED BY <2>1, OtherEventsKeep DEF TypeOK, FreshQueries, queryVars
<1>8. CASE DestroyDevice
    <2>1. /\ events' = [e \in Event |-> Absent]
          /\ queries' = [q \in QueryPool |-> Absent]
          /\ device_live' = FALSE /\ ret' \in Result
          /\ UNCHANGED <<event_handler_id, queries_handler_id>>
        BY <1>8 DEF DestroyDevice, Return, Result
    <2> QED BY <2>1 DEF TypeOK, FreshEvents, FreshQueries
<1>9. CASE UNCHANGED vars
    BY <1>9, OtherEventsKeep DEF TypeOK, FreshQueries, vars, queryVars
<1> QED BY <1>1, <1>2, <1>3, <1>4, <1>5, <1>6, <1>7, <1>8, <1>9 DEF Next

LEMMA EventsAreInvariant == Spec => []EventsInv
BY EventsInitially, EventsStep, PTL DEF Spec

\* Type correctness of the events and query pools.
THEOREM EventsTypeCorrect == Spec => []TypeOK
BY EventsAreInvariant, PTL DEF EventsInv

-----------------------------------------------------------------------------
(* The refinement of HandleTable *)

LEMMA EventStatusStep ==
    EventsInv /\ [Next]_vars
        => [EventHandles!Next]_(StatusOf(events, event_handler_id))
<1> SUFFICES ASSUME EventsInv, [Next]_vars
             PROVE  [EventHandles!Next]_(StatusOf(events, event_handler_id))
    OBVIOUS
<1> DEFINE status == StatusOf(events, event_handler_id)
<1>1. /\ DOMAIN events = Event /\ DOMAIN events' = Event /\ Event \in SUBSET Nat
      /\ event_handler_id \in Nat
      /\ \A e \in Event : e >= event_handler_id => events[e] = Absent
      /\ \A e \in Event : events[e] \in BOOLEAN \cup {Absent}
    BY EventsStep DEF EventsInv, TypeOK, FreshEvents, Event
<1>0. /\ status = [h \in Event |-> IF events[h] # Absent THEN "live"
                               ELSE IF h < event_handler_id THEN "dead" ELSE "unused"]
      /\ status' = [h \in Event |-> IF events'[h] # Absent THEN "live"
                                ELSE IF h < event_handler_id' THEN "dead" ELSE "unused"]
    BY <1>1 DEF StatusOf
<1> HIDE DEF status
<1>2. CASE CreateEvent
    <2>1. /\ event_handler_id \in Event
          /\ event_handler_id' = event_handler_id + 1
          /\ events' = [events EXCEPT ![event_handler_id] = FALSE]
        BY <1>2, EventAssumption DEF EventsInv, CreateEvent, NextEvent, NewEvent, TypeOK, Event
    <2>2. events'[event_handler_id] # Absent
        BY <1>1, <2>1, EventAssumption
    <2>3. \A h \in Event \ {event_handler_id} :
            events'[h] = events[h] /\ (h < event_handler_id' <=> h < event_handler_id)
        BY <1>1, <2>1
    <2>4. status[event_handler_id] = "unused"
        BY <1>0, <1>1, <2>1
    <2>5. status' = [status EXCEPT ![event_handler_id] = "live"]
        BY <1>0, <2>2, <2>3
    <2>6. EventHandles!Create(event_handler_id)
        BY <2>4, <2>5 DEF EventHandles!Create, status
    <2> QED BY <2>1, <2>6 DEF EventHandles!Next
<1>3. ASSUME NEW D \in SUBSET Event, UNCHANGED event_handler_id,
             events' = [e \in Event |-> IF e \in D THEN Absent ELSE events[e]]
      PROVE  EventHandles!Next
    <2> DEFINE E == D \cap Events
    <2>1. E \in SUBSET Event /\ \A e \in E : events[e] # Absent /\ e < event_handler_id
        BY <1>1 DEF Events
    <2>2. /\ \A e \in E : events'[e] = Absent
          /\ \A e \in Event \ E : events'[e] = events[e]
        BY <1>3 DEF Events
    <2> HIDE DEF E
    <2>3. /\ \A e \in E : status[e] = "live"
          /\ status' = [e \in Event |-> IF e \in E THEN "dead" ELSE status[e]]
        BY <1>0, <1>3, <2>1, <2>2
    <2>4. EventHandles!Destroy(E)
        BY <2>3 DEF EventHandles!Destroy, status
    <2> QED BY <2>1, <2>4 DEF EventHandles!Next
<1>4. ASSUME UNCHANGED event_handler_id,
             \A e \in Event : events'[e] = Absent <=> events[e] = Absent
      PROVE  status' = status
    BY <1>0, <1>4
<1>5. ASSUME NEW e \in Event, DestroyEvent(e) PROVE EventHandles!Next
    <2>1. events' = [f \in Event |-> IF f \in {e} THEN Absent ELSE events[f]]
        BY <1>1, <1>5 DEF DestroyEvent
    <2>2. UNCHANGED event_handler_id
        BY <1>5 DEF DestroyEvent
    <2> QED BY <1>3, <2>1, <2>2
<1>6. ASSUME NEW e \in Event, NEW signaled \in BOOLEAN, StoreEvent(e, signaled)
      PROVE  status' = status
    <2>1. UNCHANGED event_handler_id
        BY <1>6 DEF StoreEvent, eventVars
    <2>2. events' = events \/ (events[e] # Absent /\ events' = [events EXCEPT ![e] = signaled])
        BY <1>6 DEF StoreEvent, eventVars
    <2>3. signaled # Absent
        BY EventAssumption
    <2>4. \A f \in Event : events'[f] = Absent <=> events[f] = Absent
        BY <1>1, <2>2, <2>3
    <2> QED BY <1>4, <2>1, <2>4
<1>7. ASSUME NEW e, NEW queryCount, NEW q, NEW count, NEW wait,
             \/ GetEventStatus(e) \/ CreateQueryPool(queryCount) \/ DestroyQueryPool(q)
             \/ GetQueryPoolResults(q, count, wait) \/ UNCHANGED vars
      PROVE  status' = status
    <2>1. UNCHANGED eventVars
        BY <1>7 DEF GetEventStatus, CreateQueryPool, DestroyQueryPool, GetQueryPoolResults, vars
    <2> QED BY <1>4, <2>1 DEF eventVars
<1>8. CASE DestroyDevice
    <2>1. events' = [e \in Event |-> IF e \in Event THEN Absent ELSE events[e]]
        BY <1>8 DEF DestroyDevice
    <2>2. UNCHANGED event_handler_id
        BY <1>8 DEF DestroyDevice
    <2> QED BY <1>3, <2>1, <2>2
<1>9. CASE CreateEvent \/ DestroyDevice
    BY <1>2, <1>8, <1>9 DEF status
<1>10. CASE \E e \in Event : DestroyEvent(e)
    BY <1>5, <1>10 DEF status
<1>11. CASE \E e \in Event, signaled \in BOOLEAN : StoreEvent(e, signaled)
    BY <1>6, <1>11 DEF status
<1>12. CASE \/ UNCHANGED vars
            \/ \E e \in Event : GetEventStatus(e)
            \/ \E queryCount \in QueryCounts : CreateQueryPool(queryCount)
            \/ \E q \in QueryPool : DestroyQueryPool(q)
            \/ \E q \in QueryPool, count \in QueryCounts, wait \in BOOLEAN :
                 GetQueryPoolResults(q, count, wait)
    BY <1>7, <1>12 DEF status
<1> QED BY <1>9, <1>10, <1>11, <1>12 DEF Next

LEMMA QueryStatusStep ==
    EventsInv /\ [Next]_vars
        => [QueryHandles!Next]_(StatusOf(queries, queries_handler_id))
<1> SUFFICES ASSUME EventsInv, [Next]_vars
             PROVE  [QueryHandles!Next]_(StatusOf(queries, queries_handler_id))
    OBVIOUS
<1> DEFINE status == StatusOf(queries, queries_handler_id)
<1>1. /\ DOMAIN queries = QueryPool /\ DOMAIN queries' = QueryPool
      /\ QueryPool \in SUBSET Nat /\ queries_handler_id \in Nat
      /\ \A q \in QueryPool : q >= queries_handler_id => queries[q] = Absent
    BY EventsStep DEF EventsInv, TypeOK, FreshQueries, QueryPool
<1>0. /\ status = [h \in QueryPool |-> IF queries[h] # Absent THEN "live"
                               ELSE IF h < queries_handler_id THEN "dead" ELSE "unused"]
      /\ status' = [h \in QueryPool |-> IF queries'[h] # Absent THEN "live"
                                ELSE IF h < queries_handler_id' THEN "dead" ELSE "unused"]
    BY <1>1 DEF StatusOf
<1> HIDE DEF status
<1>2. ASSUME UNCHANGED queryVars PROVE status' = status
    BY <1>0, <1>2 DEF queryVars
<1>3. ASSUME NEW queryCount \in QueryCounts, CreateQueryPool(queryCount)
      PROVE  QueryHandles!Next \/ status' = status
    <2>1. CASE UNCHANGED queryVars
        BY <1>2, <2>1
    <2>2. CASE ~UNCHANGED queryVars
        <3>1. /\ queries_handler_id \in QueryPool
              /\ queries_handler_id' = queries_handler_id + 1
              /\ queries' = [queries EXCEPT ![queries_handler_id] = queryCount]
            BY <1>3, <2>2, EventAssumption DEF EventsInv, CreateQueryPool, TypeOK, QueryPool
        <3>2. queries'[queries_handler_id] # Absent
            BY <1>1, <3>1, EventAssumption
        <3>3. \A h \in QueryPool \ {queries_handler_id} :
                queries'[h] = queries[h] /\ (h < queries_handler_id' <=> h < queries_handler_id)
            BY <1>1, <3>1
        <3>4. status[queries_handler_id] = "unused"
            BY <1>0, <1>1, <3>1
        <3>5. status' = [status EXCEPT ![queries_handler_id] = "live"]
            BY <1>0, <3>2, <3>3
        <3>6. QueryHandles!Create(queries_handler_id)
            BY <3>4, <3>5 DEF QueryHandles!Create, status
        <3> QED BY <3>1, <3>6 DEF QueryHandles!Next
    <2> QED BY <2>1, <2>2
<1>4. ASSUME NEW D \in SUBSET QueryPool, UNCHANGED queries_handler_id,
             queries' = [q \in QueryPool |-> IF q \in D THEN Absent ELSE queries[q]]
      PROVE  QueryHandles!Next
    <2> DEFINE E == {q \in D : queries[q] # Absent}
    <2>1. E \in SUBSET QueryPool /\ \A q \in E : queries[q] # Absent /\ q < queries_handler_id
        <3>1. \A q \in QueryPool : queries[q] # Absent => q < queries_handler_id
            BY <1>1
        <3> QED BY <3>1
    <2>2. /\ \A q \in E : queries'[q] = Absent
          /\ \A q \in QueryPool \ E : queries'[q] = queries[q]
        BY <1>4
    <2> HIDE DEF E
    <2>3. /\ \A q \in E : status[q] = "live"
          /\ status' = [q \in QueryPool |-> IF q \in E THEN "dead" ELSE status[q]]
        BY <1>0, <1>4, <2>1, <2>2
    <2>4. QueryHandles!Destroy(E)
        BY <2>3 DEF QueryHandles!Destroy, status
    <2> QED BY <2>1, <2>4 DEF QueryHandles!Next
<1>5. ASSUME NEW q \in QueryPool, DestroyQueryPool(q) PROVE QueryHandles!Next
    <2>1. queries' = [p \in QueryPool |-> IF p \in {q} THEN Absent ELSE queries[p]]
        BY <1>1, <1>5 DEF DestroyQueryPool
    <2>2. UNCHANGED queries_handler_id
        BY <1>5 DEF DestroyQueryPool
    <2> QED BY <1>4, <2>1, <2>2
<1>6. CASE DestroyDevice
    <2>1. queries' = [q \in QueryPool |-> IF q \in QueryPool THEN Absent ELSE queries[q]]
        BY <1>6 DEF DestroyDevice
    <2>2. UNCHANGED queries_handler_id
        BY <1>6 DEF DestroyDevice
    <2> QED BY <1>4, <2>1, <2>2
<1>7. ASSUME NEW e, NEW signaled, NEW q, NEW count, NEW wait,
             \/ CreateEvent \/ DestroyEvent(e) \/ StoreEvent(e, signaled) \/ GetEventStatus(e)
             \/ GetQueryPoolResults(q, count, wait) \/ UNCHANGED vars
      PROVE  status' = status
    <2>1. UNCHANGED queryVars
        BY <1>7 DEF CreateEvent, DestroyEvent, StoreEvent, GetEventStatus,
           GetQueryPoolResults, vars
    <2> QED BY <1>2, <2>1
<1>8. CASE DestroyDevice \/ \E q \in QueryPool : DestroyQueryPool(q)
    BY <1>5, <1>6, <1>8 DEF status
<1>9. CASE \E queryCount \in QueryCounts : CreateQueryPool(queryCount)
    BY <1>3, <1>9 DEF status
<1>10. CASE \/ UNCHANGED vars \/ CreateEvent
            \/ \E e \in Event : DestroyEvent(e) \/ GetEventStatus(e)
            \/ \E e \in Event, signaled \in BOOLEAN : StoreEvent(e, signaled)
            \/ \E q \in QueryPool, count \in QueryCounts, wait \in BOOLEAN :
                 GetQueryPoolResults(q, count, wait)
    BY <1>7, <1>10 DEF status
<1> QED BY <1>8, <1>9, <1>10 DEF Next

\* Events and query pools implement HandleTable: a VkEvent or VkQueryPool handle
\* that was destroyed is never handed out again.
THEOREM EventsImplementHandleTable == Spec => HandlesNeverReused
<1>1. Init => EventHandles!Init
    BY DEF Init, EventHandles!Init, StatusOf, Event
<1>2. Init => QueryHandles!Init
    BY DEF Init, QueryHandles!Init, StatusOf, QueryPool
<1> QED
    BY <1>1, <1>2, EventsAreInvariant, EventStatusStep, QueryStatusStep, PTL
        DEF Spec, HandlesNeverReused, EventHandles!Spec, QueryHandles!Spec

=============================================================================
