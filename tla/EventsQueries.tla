---------------------------- MODULE EventsQueries ----------------------------
(***************************************************************************)
(* The events and query pools of one VkDevice: device.cpp,                 *)
(* vlk_trampoline_call_CreateEvent up to _GetQueryPoolResults.  Both are   *)
(* the driver's alone: the host never hears of them, so nothing that is    *)
(* recorded for the host sets an event or makes a result available.        *)
(***************************************************************************)
EXTENDS Integers, FiniteSets

CONSTANTS
    MaxEvent,         \* bound: VkEvent handles issued
    MaxQueryPool,     \* bound: VkQueryPool handles issued
    QueryCounts,      \* values of VkQueryPoolCreateInfo::queryCount
    Absent            \* "find() == end()": the map has no such key

Event == 1 .. MaxEvent
QueryPool == 1 .. MaxQueryPool

ASSUME EventAssumption ==
    /\ MaxEvent \in Nat
    /\ MaxQueryPool \in Nat
    /\ QueryCounts \subseteq Nat
    /\ Absent \notin BOOLEAN \cup Nat

VARIABLES
    device_live,                    \* vk_context->devices has the device
    events, event_handler_id,       \* the flag of each event
    queries, queries_handler_id,    \* the size of each pool
    ret                             \* result of the call that returned last

eventVars == <<events, event_handler_id>>
queryVars == <<queries, queries_handler_id>>
vars == <<device_live, eventVars, queryVars, ret>>

Result == {"SUCCESS", "VOID", "EVENT_SET", "EVENT_RESET", "NOT_READY", "ERROR_DEVICE_LOST",
           "ERROR_INITIALIZATION_FAILED", "ERROR_OUT_OF_DEVICE_MEMORY"}

Return(result) == ret' = result

Events == {e \in Event : events[e] # Absent}

Init ==
    /\ device_live = TRUE
    /\ events = [e \in Event |-> Absent] /\ event_handler_id = 1
    /\ queries = [q \in QueryPool |-> Absent] /\ queries_handler_id = 1
    /\ ret = "SUCCESS"

-----------------------------------------------------------------------------
(* Events *)

NewEvent == FALSE

\* Mutant: handles counted from the size of the map.
NextEventBySize == Cardinality(Events) + 1

NextEvent == event_handler_id

CreateEvent ==
    /\ device_live
    /\ event_handler_id =< MaxEvent
    /\ event_handler_id' = event_handler_id + 1
    /\ events' = [events EXCEPT ![NextEvent] = NewEvent]
    /\ Return("SUCCESS")
    /\ UNCHANGED <<device_live, queryVars>>

DestroyEvent(e) ==
    /\ device_live
    /\ events' = [events EXCEPT ![e] = Absent]
    /\ Return("VOID")
    /\ UNCHANGED <<device_live, event_handler_id, queryVars>>

\* SetEvent and ResetEvent.
StoreEvent(e, signaled) ==
    /\ device_live
    /\ \/ /\ events[e] = Absent
          /\ Return("ERROR_DEVICE_LOST")
          /\ UNCHANGED eventVars
       \/ /\ events[e] # Absent
          /\ events' = [events EXCEPT ![e] = signaled]
          /\ Return("SUCCESS")
          /\ UNCHANGED event_handler_id
    /\ UNCHANGED <<device_live, queryVars>>

StatusOfEvent(e) == IF events[e] THEN "EVENT_SET" ELSE "EVENT_RESET"

GetEventStatus(e) ==
    /\ device_live
    /\ Return(IF events[e] = Absent THEN "ERROR_DEVICE_LOST" ELSE StatusOfEvent(e))
    /\ UNCHANGED <<device_live, eventVars, queryVars>>

-----------------------------------------------------------------------------
(* Query pools *)

\* The pool is registered and its handle written, and the result is an error.
CreateQueryPool(queryCount) ==
    /\ \/ /\ queryCount = 0
          /\ Return("ERROR_DEVICE_LOST")
          /\ UNCHANGED queryVars
       \/ /\ queryCount # 0 /\ ~device_live
          /\ Return("ERROR_INITIALIZATION_FAILED")
          /\ UNCHANGED queryVars
       \/ /\ queryCount # 0 /\ device_live
          /\ queries_handler_id =< MaxQueryPool
          /\ queries' = [queries EXCEPT ![queries_handler_id] = queryCount]
          /\ queries_handler_id' = queries_handler_id + 1
          /\ Return("ERROR_OUT_OF_DEVICE_MEMORY")
    /\ UNCHANGED <<device_live, eventVars>>

DestroyQueryPool(q) ==
    /\ device_live
    /\ queries' = [queries EXCEPT ![q] = Absent]
    /\ Return("VOID")
    /\ UNCHANGED <<device_live, queries_handler_id, eventVars>>

\* The pool is looked up unchecked, and so are the results: the application asks
\* for queries the pool has.  No call makes a result available.
GetQueryPoolResults(q, count, wait) ==
    /\ device_live
    /\ queries[q] # Absent /\ count =< queries[q]
    /\ Return(IF count > 0 /\ wait THEN "NOT_READY" ELSE "SUCCESS")
    /\ UNCHANGED <<device_live, eventVars, queryVars>>

-----------------------------------------------------------------------------
(* The whole device *)

DestroyDevice ==
    /\ device_live
    /\ device_live' = FALSE
    /\ events' = [e \in Event |-> Absent]
    /\ queries' = [q \in QueryPool |-> Absent]
    /\ Return("VOID")
    /\ UNCHANGED <<event_handler_id, queries_handler_id>>

Next ==
    \/ CreateEvent
    \/ \E e \in Event :
         \/ DestroyEvent(e)
         \/ \E signaled \in BOOLEAN : StoreEvent(e, signaled)
         \/ GetEventStatus(e)
    \/ \E queryCount \in QueryCounts : CreateQueryPool(queryCount)
    \/ \E q \in QueryPool :
         \/ DestroyQueryPool(q)
         \/ \E count \in QueryCounts, wait \in BOOLEAN : GetQueryPoolResults(q, count, wait)
    \/ DestroyDevice

Spec == Init /\ [][Next]_vars

-----------------------------------------------------------------------------
(* Properties *)

TypeOK ==
    /\ device_live \in BOOLEAN
    /\ events \in [Event -> BOOLEAN \cup {Absent}]
    /\ event_handler_id \in 1 .. MaxEvent + 1
    /\ queries \in [QueryPool -> Nat \cup {Absent}]
    /\ queries_handler_id \in 1 .. MaxQueryPool + 1
    /\ ret \in Result

StatusOf(map, next_id) ==
    [h \in DOMAIN map |-> IF map[h] # Absent THEN "live"
                          ELSE IF h < next_id THEN "dead" ELSE "unused"]

EventHandles == INSTANCE HandleTable WITH
    Handle <- Event, status <- StatusOf(events, event_handler_id)
QueryHandles == INSTANCE HandleTable WITH
    Handle <- QueryPool, status <- StatusOf(queries, queries_handler_id)

\* A VkEvent or VkQueryPool handle names one object and never another, even
\* that of a pool whose creation is reported as failed: it is registered, and
\* DestroyQueryPool of the handle that was written releases it.
HandlesNeverReused == EventHandles!Spec /\ QueryHandles!Spec

=============================================================================
