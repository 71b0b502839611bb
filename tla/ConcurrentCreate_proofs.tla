---------------------- MODULE ConcurrentCreate_proofs ----------------------
(***************************************************************************)
(* Proofs about ConcurrentCreate, for any number of threads, devices and   *)
(* blocks and every way the application spreads its devices over threads.  *)
(*                                                                         *)
(* The argument: a guarded device has at most one thread inside, so between*)
(* the load and the insertion its counter is the handle of that thread and *)
(* the map has no entry from there on; what happens on other devices       *)
(* touches neither its counter nor its map.  Until the first race every    *)
(* device is like a guarded one, and then the shared heap can be accounted *)
(* for: no step of a call changes the entry another call is freeing.       *)
(***************************************************************************)
EXTENDS ConcurrentCreate, TLAPS

Inside(t, d) == pc[t] # "idle" /\ device[t] = d

\* Where the calls of a thread have got to, whatever else is going on.
CallsInOrder ==
    \A t \in Thread :
        /\ pc[t] # "idle" => device[t] \in DevicesOf[t]
        /\ pc[t] \in {"store", "insert", "free", "erase"} => id[t] \in Handle
        /\ data[t] \in Block <=> pc[t] \in {"load", "store", "insert"}

AtMostOneInside(d) == \A t, u \in Thread : Inside(t, d) /\ Inside(u, d) => t = u

CounterAhead(d) ==
    /\ \A h \in Handle : h >= memory_handler_id[d] => memory_map[d][h] = Absent
    /\ \A t \in Thread : Inside(t, d) =>
         /\ pc[t] = "store" => id[t] = memory_handler_id[d]
         /\ pc[t] = "insert" => id[t] < memory_handler_id[d] /\ memory_map[d][id[t]] = Absent

Named(d) == \A r \in held : r.device = d => memory_map[d][r.handle] = r.block

Freeing(d) ==
    \A t \in Thread : (device[t] = d /\ pc[t] \in {"free", "erase"}) =>
        /\ memory_map[d][id[t]] # Absent
        /\ \A r \in held : r.device = d => r.handle # id[t]

NothingForgotten(d) ==
    \A h \in Handle : memory_map[d][h] # Absent =>
        \/ \E r \in held : r.device = d /\ r.handle = h
        \/ \E t \in Thread : device[t] = d /\ pc[t] \in {"free", "erase"} /\ id[t] = h

GuardedInv(d) ==
    /\ AtMostOneInside(d)
    /\ CounterAhead(d)
    /\ Named(d)
    /\ Freeing(d)
    /\ NothingForgotten(d)

\* Nobody has met another thread on this device.
Quiet(d) == Guarded(d) \/ ~raced

Inv ==
    /\ TypeOK
    /\ CallsInOrder
    /\ \A d \in Device : Quiet(d) => GuardedInv(d)
    /\ HeapAccounted

-----------------------------------------------------------------------------
(* Types *)

LEMMA TypeStep == TypeOK /\ CallsInOrder /\ [Next]_vars => TypeOK' /\ CallsInOrder'
<1> SUFFICES ASSUME TypeOK, CallsInOrder, [Next]_vars
             PROVE  TypeOK' /\ CallsInOrder'
    OBVIOUS
<1> USE ConcurrencyAssumption DEF TypeOK, CallsInOrder, Handle
<1>1. ASSUME NEW t \in Thread, NEW d \in DevicesOf[t], AllocateMemory(t, d)
      PROVE  TypeOK' /\ CallsInOrder'
    <2>1. d \in Device
        OBVIOUS
    <2> QED BY <1>1, <2>1 DEF AllocateMemory, Enter
<1>2. ASSUME NEW t \in Thread, LoadId(t)
      PROVE  TypeOK' /\ CallsInOrder'
    BY <1>2 DEF LoadId, Counter
<1>3. ASSUME NEW t \in Thread, StoreId(t)
      PROVE  TypeOK' /\ CallsInOrder'
    <2>1. id[t] \in Handle
        BY <1>3 DEF StoreId
    <2> QED BY <1>3, <2>1 DEF StoreId, Counter
<1>4. ASSUME NEW t \in Thread, Insert(t)
      PROVE  TypeOK' /\ CallsInOrder'
    <2>1. id[t] \in Handle /\ data[t] \in Block /\ device[t] \in Device
        BY <1>4 DEF Insert
    <2>2. [device |-> device[t], handle |-> id[t], block |-> data[t]] \in Holding
        BY <2>1 DEF Holding
    <2>3. held' \in SUBSET Holding
        BY <1>4, <2>2 DEF Insert
    <2>4. memory_map' \in [Device -> [Handle -> Block \cup {Absent}]]
        <3>1. [memory_map[device[t]] EXCEPT ![id[t]] = data[t]] \in [Handle -> Block \cup {Absent}]
            BY <2>1
        <3>2. \/ memory_map' = [memory_map EXCEPT ![device[t]] =
                                 [memory_map[device[t]] EXCEPT ![id[t]] = data[t]]]
              \/ memory_map' = memory_map
            BY <1>4 DEF Insert
        <3> QED BY <3>1, <3>2
    <2> QED BY <1>4, <2>3, <2>4 DEF Insert
<1>5. ASSUME NEW t \in Thread, NEW r \in held, FreeMemory(t, r)
      PROVE  TypeOK' /\ CallsInOrder'
    <2>1. r.device \in Device /\ r.handle \in Handle
        BY DEF Holding
    <2> QED BY <1>5, <2>1 DEF FreeMemory, Enter
<1>6. ASSUME NEW t \in Thread, Free(t)
      PROVE  TypeOK' /\ CallsInOrder'
    BY <1>6 DEF Free
<1>7. ASSUME NEW t \in Thread, Erase(t)
      PROVE  TypeOK' /\ CallsInOrder'
    BY <1>7 DEF Erase
<1>8. CASE UNCHANGED vars
    BY <1>8 DEF vars
<1> QED
    BY <1>1, <1>2, <1>3, <1>4, <1>5, <1>6, <1>7, <1>8 DEF Next

-----------------------------------------------------------------------------
(* One guarded device *)

\* A step that is about another device.
Elsewhere(d) ==
    /\ memory_handler_id'[d] = memory_handler_id[d]
    /\ memory_map'[d] = memory_map[d]
    /\ \A r \in Holding : r.device = d => (r \in held' <=> r \in held)
    /\ \A t \in Thread :
         \/ pc'[t] = pc[t] /\ device'[t] = device[t] /\ id'[t] = id[t]
         \/ ~Inside(t, d) /\ ~Inside(t, d)'

LEMMA ElsewhereKeeps ==
    ASSUME TypeOK, TypeOK', NEW d \in Device, GuardedInv(d), Elsewhere(d)
    PROVE  GuardedInv(d)'
<1> USE DEF GuardedInv, Elsewhere
<1>1. held \subseteq Holding /\ held' \subseteq Holding
    BY DEF TypeOK
<1>2. AtMostOneInside(d)'
    BY DEF AtMostOneInside, Inside
<1>3. CounterAhead(d)'
    BY DEF CounterAhead, Inside
<1>4. Named(d)'
    BY <1>1 DEF Named
<1>5. Freeing(d)'
    BY <1>1 DEF Freeing, Inside
<1>6. NothingForgotten(d)'
    BY <1>1 DEF NothingForgotten, Inside
<1> QED BY <1>2, <1>3, <1>4, <1>5, <1>6

LEMMA AloneInside ==
    ASSUME TypeOK, CallsInOrder, NEW d \in Device, Quiet(d)', AtMostOneInside(d),
           NEW t \in Thread, pc[t] = "idle", d \in DevicesOf[t], MayEnter(t, d), Enter(t, d)
    PROVE  \A u \in Thread : ~Inside(u, d)
<1>1. CASE Guarded(d)
    BY <1>1 DEF Guarded, MayEnter, Inside, CallsInOrder
<1>2. CASE ~raced'
    BY <1>2 DEF Enter, Inside
<1> QED BY <1>1, <1>2 DEF Quiet, Guarded

LEMMA SameHolding ==
    ASSUME NEW r \in Holding, NEW q \in Holding,
           r.device = q.device, r.handle = q.handle, r.block = q.block
    PROVE  q = r
BY DEF Holding

LEMMA GuardedStep ==
    ASSUME TypeOK, TypeOK', CallsInOrder, NEW d \in Device, Quiet(d)', GuardedInv(d),
           [Next]_vars
    PROVE  GuardedInv(d)'
<1> USE DEF TypeOK, Handle
<1>a. AtMostOneInside(d) /\ CounterAhead(d) /\ Named(d) /\ Freeing(d) /\ NothingForgotten(d)
    BY DEF GuardedInv
<1>1. ASSUME NEW t \in Thread, NEW e \in DevicesOf[t], AllocateMemory(t, e)
      PROVE  GuardedInv(d)'
    <2>1. CASE e # d
        BY <1>1, <2>1, ElsewhereKeeps DEF AllocateMemory, Elsewhere, Inside
    <2>2. CASE e = d
        <3>1. \A u \in Thread : ~Inside(u, d)
            BY <1>a, <1>1, <2>2, AloneInside DEF AllocateMemory
        <3>2. \A u \in Thread : Inside(u, d)' => u = t /\ pc'[u] = "load"
            BY <1>1, <3>1 DEF AllocateMemory, Inside
        <3>3. AtMostOneInside(d)' /\ CounterAhead(d)'
            BY <1>a, <1>1, <3>2 DEF AllocateMemory, AtMostOneInside, CounterAhead
        <3>4. Named(d)' /\ Freeing(d)' /\ NothingForgotten(d)'
            BY <1>a, <1>1, <3>1, <3>2
                DEF AllocateMemory, Named, Freeing, NothingForgotten, Inside
        <3> QED BY <3>3, <3>4 DEF GuardedInv
    <2> QED BY <2>1, <2>2
<1>2. ASSUME NEW t \in Thread, LoadId(t)
      PROVE  GuardedInv(d)'
    <2>1. AtMostOneInside(d)'
        BY <1>a, <1>2 DEF LoadId, AtMostOneInside, Inside
    <2>2. CounterAhead(d)'
        BY <1>a, <1>2 DEF LoadId, CounterAhead, Inside, Counter
    <2>3. \A u \in Thread : pc'[u] \in {"free", "erase"} <=> pc[u] \in {"free", "erase"}
        BY <1>2 DEF LoadId
    <2>4. \A u \in Thread : pc[u] \in {"free", "erase"} => id'[u] = id[u]
        BY <1>2 DEF LoadId
    <2>5. Named(d)'
        BY <1>a, <1>2 DEF LoadId, Named
    <2>6. Freeing(d)'
        BY <1>a, <1>2, <2>3, <2>4 DEF LoadId, Freeing
    <2>7. NothingForgotten(d)'
        BY <1>a, <1>2, <2>3, <2>4 DEF LoadId, NothingForgotten
    <2> QED BY <2>1, <2>2, <2>5, <2>6, <2>7 DEF GuardedInv
<1>3. ASSUME NEW t \in Thread, StoreId(t)
      PROVE  GuardedInv(d)'
    <2>1. CASE device[t] # d
        BY <1>3, <2>1, ElsewhereKeeps DEF StoreId, Elsewhere, Inside, Counter
    <2>2. CASE device[t] = d
        <3>1. Inside(t, d) /\ \A u \in Thread : Inside(u, d) => u = t
            BY <1>a, <1>3, <2>2 DEF StoreId, Inside, AtMostOneInside
        <3>2. /\ id[t] = memory_handler_id[d] /\ id[t] \in Handle
              /\ memory_handler_id'[d] = id[t] + 1
            BY <1>a, <1>3, <2>2, <3>1 DEF StoreId, CounterAhead, CallsInOrder, Counter
        <3>3. \A u \in Thread : Inside(u, d)' => u = t /\ pc'[u] = "insert"
            BY <1>3, <3>1 DEF StoreId, Inside
        <3>4. AtMostOneInside(d)'
            BY <3>3 DEF AtMostOneInside
        <3>5. CounterAhead(d)'
            BY <1>a, <1>3, <3>2, <3>3 DEF StoreId, CounterAhead
        <3>6. Named(d)' /\ Freeing(d)' /\ NothingForgotten(d)'
            BY <1>a, <1>3 DEF StoreId, Named, Freeing, NothingForgotten
        <3> QED BY <3>4, <3>5, <3>6 DEF GuardedInv
    <2> QED BY <2>1, <2>2
<1>4. ASSUME NEW t \in Thread, Insert(t)
      PROVE  GuardedInv(d)'
    <2> DEFINE new == [device |-> device[t], handle |-> id[t], block |-> data[t]]
    <2>1. new \in Holding
        BY <1>4 DEF Insert, CallsInOrder, Holding
    <2>2. CASE device[t] # d
        <3>1. memory_handler_id'[d] = memory_handler_id[d] /\ memory_map'[d] = memory_map[d]
            BY <1>4, <2>2 DEF Insert
        <3>2. \A r \in Holding : r.device = d => (r \in held' <=> r \in held)
            BY <1>4, <2>1, <2>2 DEF Insert
        <3>3. \A u \in Thread :
                \/ pc'[u] = pc[u] /\ device'[u] = device[u] /\ id'[u] = id[u]
                \/ ~Inside(u, d) /\ ~Inside(u, d)'
            BY <1>4, <2>2 DEF Insert, Inside
        <3> QED BY <3>1, <3>2, <3>3, ElsewhereKeeps DEF Elsewhere
    <2>3. CASE device[t] = d
        <3>1. Inside(t, d) /\ \A u \in Thread : Inside(u, d) => u = t
            BY <1>a, <1>4, <2>3 DEF Insert, Inside, AtMostOneInside
        <3>2. ~Racing(t)
            BY <2>3, <3>1 DEF Racing, Inside
        <3>3. /\ memory_map' = [memory_map EXCEPT ![d][id[t]] = data[t]]
              /\ held' = held \cup {new}
              /\ memory_handler_id' = memory_handler_id
              /\ id[t] \in Handle /\ data[t] \in Block /\ data[t] # Absent
            BY <1>4, <2>3, <3>2, ConcurrencyAssumption DEF Insert, CallsInOrder
        <3>4. id[t] < memory_handler_id[d] /\ memory_map[d][id[t]] = Absent
            BY <1>a, <1>4, <3>1 DEF Insert, CounterAhead
        <3>5. \A u \in Thread : ~Inside(u, d)'
            BY <1>4, <3>1 DEF Insert, Inside
        <3>6. /\ memory_map'[d][id[t]] = data[t]
              /\ \A h \in Handle \ {id[t]} : memory_map'[d][h] = memory_map[d][h]
            BY <3>3
        <3>7. AtMostOneInside(d)' /\ CounterAhead(d)'
            BY <1>a, <3>3, <3>4, <3>5, <3>6 DEF AtMostOneInside, CounterAhead
        <3>8. \A r \in held : r.device = d => r.handle # id[t] /\ r.handle \in Handle
            <4> SUFFICES ASSUME NEW r \in held, r.device = d, r.handle = id[t]
                         PROVE  FALSE
                BY DEF Holding
            <4>1. r.block \in Block /\ r.block # Absent
                BY ConcurrencyAssumption DEF Holding
            <4> QED BY <1>a, <3>4, <4>1 DEF Named
        <3>9. Named(d)'
            BY <1>a, <2>3, <3>3, <3>6, <3>8 DEF Named
        <3>10. Freeing(d)'
            BY <3>5 DEF Freeing, Inside
        <3>11. NothingForgotten(d)'
            <4> SUFFICES ASSUME NEW h \in Handle, memory_map'[d][h] # Absent
                         PROVE  \E r \in held' : r.device = d /\ r.handle = h
                BY DEF NothingForgotten
            <4>1. CASE h = id[t]
                <5>1. new \in held' /\ new.device = d /\ new.handle = h
                    BY <2>3, <3>3, <4>1
                <5> QED BY <5>1
            <4>2. CASE h # id[t]
                <5>1. \A u \in Thread : device[u] = d => pc[u] \notin {"free", "erase"}
                    BY <1>4, <3>1 DEF Insert, Inside
                <5> QED BY <1>a, <3>3, <3>6, <4>2, <5>1 DEF NothingForgotten
            <4> QED BY <4>1, <4>2
        <3> QED BY <3>7, <3>9, <3>10, <3>11 DEF GuardedInv
    <2> QED BY <2>2, <2>3
<1>5. ASSUME NEW t \in Thread, NEW r \in held, FreeMemory(t, r)
      PROVE  GuardedInv(d)'
    <2>1. r \in Holding
        OBVIOUS
    <2>2. CASE r.device # d
        BY <1>5, <2>1, <2>2, ElsewhereKeeps DEF FreeMemory, Elsewhere, Inside, Holding
    <2>3. CASE r.device = d
        <3>1. \A u \in Thread : ~Inside(u, d)
            BY <1>a, <1>5, <2>3, AloneInside DEF FreeMemory
        <3>2. /\ held' = held \ {r}
              /\ memory_map' = memory_map /\ memory_handler_id' = memory_handler_id
              /\ pc'[t] = "free" /\ device'[t] = d /\ id'[t] = r.handle
            BY <1>5, <2>1, <2>3 DEF FreeMemory, Holding
        <3>3. \A u \in Thread : Inside(u, d)' => u = t
            BY <1>5, <3>1 DEF FreeMemory, Inside
        <3>4. AtMostOneInside(d)' /\ CounterAhead(d)'
            BY <1>a, <3>2, <3>3 DEF AtMostOneInside, CounterAhead
        <3>5. Named(d)'
            BY <1>a, <3>2 DEF Named
        <3>6. \A q \in held : (q.device = d /\ q.handle = r.handle) => q = r
            <4> SUFFICES ASSUME NEW q \in held, q.device = d, q.handle = r.handle
                         PROVE  q = r
                OBVIOUS
            <4>1. q.block = r.block
                BY <1>a, <2>3 DEF Named
            <4>2. q \in Holding
                OBVIOUS
            <4> QED BY <2>1, <2>3, <4>1, <4>2, SameHolding
        <3>7. memory_map[d][r.handle] # Absent
            <4>1. r.block \in Block
                BY <2>1 DEF Holding
            <4> QED BY <1>a, <2>3, <4>1, ConcurrencyAssumption DEF Named
        <3>8. Freeing(d)'
            BY <3>2, <3>3, <3>6, <3>7 DEF Freeing, Inside
        <3>9. NothingForgotten(d)'
            <4> SUFFICES ASSUME NEW h \in Handle, memory_map[d][h] # Absent
                         PROVE  \/ \E q \in held' : q.device = d /\ q.handle = h
                                \/ \E u \in Thread : device'[u] = d /\ pc'[u] \in {"free", "erase"}
                                                       /\ id'[u] = h
                BY <3>2 DEF NothingForgotten
            <4>1. PICK q \in held : q.device = d /\ q.handle = h
                BY <1>a, <3>1 DEF NothingForgotten, Inside
            <4>2. CASE q = r
                BY <3>2, <4>1, <4>2
            <4>3. CASE q # r
                BY <3>2, <4>1, <4>3
            <4> QED BY <4>2, <4>3
        <3> QED BY <3>4, <3>5, <3>8, <3>9 DEF GuardedInv
    <2> QED BY <2>2, <2>3
<1>6. ASSUME NEW t \in Thread, Free(t)
      PROVE  GuardedInv(d)'
    <2>1. CASE device[t] # d
        BY <1>6, <2>1, ElsewhereKeeps DEF Free, Elsewhere, Inside
    <2>2. CASE device[t] = d
        <3>1. Inside(t, d) /\ \A u \in Thread : Inside(u, d) => u = t
            BY <1>a, <1>6, <2>2 DEF Free, Inside, AtMostOneInside
        <3>2. ~Racing(t)
            BY <2>2, <3>1 DEF Racing, Inside
        <3>3. memory_map[d][id[t]] # Absent
            BY <1>a, <1>6, <2>2 DEF Free, Freeing
        <3>4. pc' = [pc EXCEPT ![t] = "erase"]
            BY <1>6, <2>2, <3>2, <3>3 DEF Free
        <3>5. UNCHANGED <<device, id, data, memory_handler_id, memory_map, held>>
            BY <1>6 DEF Free
        <3>6. /\ pc[t] = "free" /\ pc'[t] = "erase"
              /\ \A u \in Thread : u # t => pc'[u] = pc[u]
            BY <1>a, <1>6, <3>4 DEF Free
        <3>7. AtMostOneInside(d)'
            BY <3>5, <3>6, <1>a DEF AtMostOneInside, Inside
        <3>8. CounterAhead(d)'
            BY <3>5, <3>6, <1>a DEF CounterAhead, Inside
        <3>9. Named(d)'
            BY <3>5, <1>a DEF Named
        <3>10. Freeing(d)'
            BY <3>5, <3>6, <1>a DEF Freeing
        <3>11. NothingForgotten(d)'
            BY <3>5, <3>6, <1>a DEF NothingForgotten
        <3> QED BY <3>7, <3>8, <3>9, <3>10, <3>11 DEF GuardedInv
    <2> QED BY <2>1, <2>2
<1>7. ASSUME NEW t \in Thread, Erase(t)
      PROVE  GuardedInv(d)'
    <2>1. CASE device[t] # d
        BY <1>7, <2>1, ElsewhereKeeps DEF Erase, Elsewhere, Inside
    <2>2. CASE device[t] = d
        <3>1. Inside(t, d) /\ \A u \in Thread : Inside(u, d) => u = t
            BY <1>a, <1>7, <2>2 DEF Erase, Inside, AtMostOneInside
        <3>2. \A u \in Thread : ~Inside(u, d)'
            BY <1>7, <3>1 DEF Erase, Inside
        <3>3. id[t] \in Handle
            BY <1>7 DEF Erase, CallsInOrder
        <3>4. /\ memory_map'[d][id[t]] = Absent
              /\ \A h \in Handle \ {id[t]} : memory_map'[d][h] = memory_map[d][h]
              /\ held' = held /\ memory_handler_id' = memory_handler_id
            BY <1>7, <2>2, <3>3 DEF Erase
        <3>5. \A r \in held : r.device = d => r.handle # id[t] /\ r.handle \in Handle
            BY <1>a, <1>7, <2>2 DEF Erase, Freeing, Holding
        <3>6. AtMostOneInside(d)' /\ CounterAhead(d)'
            BY <1>a, <3>2, <3>4 DEF AtMostOneInside, CounterAhead
        <3>7. Named(d)'
            BY <1>a, <3>4, <3>5 DEF Named
        <3>8. Freeing(d)'
            BY <3>2 DEF Freeing, Inside
        <3>9. NothingForgotten(d)'
            <4> SUFFICES ASSUME NEW h \in Handle, memory_map'[d][h] # Absent
                         PROVE  \E r \in held : r.device = d /\ r.handle = h
                BY <3>4 DEF NothingForgotten
            <4>1. h # id[t] /\ memory_map[d][h] # Absent
                BY <3>4
            <4>2. \A u \in Thread : (device[u] = d /\ pc[u] \in {"free", "erase"}) => u = t
                BY <3>1 DEF Inside
            <4> QED BY <1>a, <4>1, <4>2 DEF NothingForgotten
        <3> QED BY <3>6, <3>7, <3>8, <3>9 DEF GuardedInv
    <2> QED BY <2>1, <2>2
<1>8. CASE UNCHANGED vars
    BY <1>8, ElsewhereKeeps DEF vars, Elsewhere
<1> QED
    BY <1>1, <1>2, <1>3, <1>4, <1>5, <1>6, <1>7, <1>8 DEF Next

-----------------------------------------------------------------------------
(* The heap, until the first race *)

\* A race is never forgotten.
LEMMA RacedStays == [Next]_vars /\ ~raced' => ~raced
BY DEF Next, AllocateMemory, LoadId, StoreId, Insert, FreeMemory, Free, Erase, Enter, vars

\* What a step that changes no block in hand, no holding and no block leaves as it was.
LEMMA SameBlocks ==
    ASSUME HeapAccounted, ~raced, UNCHANGED <<heap, held>>,
           \A t \in Thread : InHand(t)' = InHand(t)
    PROVE  HeapAccounted'
BY DEF HeapAccounted

LEMMA HeapStep ==
    ASSUME Inv, TypeOK', CallsInOrder', [Next]_vars
    PROVE  HeapAccounted'
<1> SUFFICES ASSUME ~raced' PROVE HeapAccounted'
    BY DEF HeapAccounted
<1> USE DEF Inv
<1>a. ~raced /\ TypeOK /\ CallsInOrder /\ HeapAccounted
    BY RacedStays
<1>b. \A d \in Device : GuardedInv(d)
    BY <1>a DEF Quiet
<1>c. /\ heap = {r.block : r \in held} \cup ({InHand(t) : t \in Thread} \ {Absent})
      /\ \A r, q \in held : r.block = q.block => r = q
      /\ \A t, u \in Thread : InHand(t) = InHand(u) /\ InHand(t) # Absent => t = u
      /\ \A t \in Thread, r \in held : InHand(t) # r.block
    BY <1>a DEF HeapAccounted
<1>d. /\ \A t \in Thread : device[t] \in Device
      /\ held \subseteq Holding /\ \A r \in Holding : r.device \in Device /\ r.block \in Block
    BY <1>a DEF TypeOK, Holding
\* Nobody else frees an entry of the device that t is in.
<1>e. ASSUME NEW t \in Thread, NEW u \in Thread, u # t, pc[t] # "idle", pc[u] = "free"
      PROVE  device[u] # device[t]
    BY <1>b, <1>d, <1>e DEF GuardedInv, AtMostOneInside, Inside
<1>1. ASSUME NEW t \in Thread, NEW d \in DevicesOf[t], AllocateMemory(t, d)
      PROVE  HeapAccounted'
    <2>1. PICK block \in Block \ heap : /\ heap' = heap \cup {block}
                                        /\ data' = [data EXCEPT ![t] = block]
        BY <1>1 DEF AllocateMemory
    <2>2. /\ pc[t] = "idle" /\ pc' = [pc EXCEPT ![t] = "load"]
          /\ device' = [device EXCEPT ![t] = d]
          /\ UNCHANGED <<id, memory_map, held>>
        BY <1>1 DEF AllocateMemory
    <2>3. InHand(t) = Absent /\ InHand(t)' = block
        BY <1>a, <2>1, <2>2 DEF InHand, TypeOK
    <2>4. \A u \in Thread \ {t} : InHand(u)' = InHand(u)
        BY <1>a, <2>1, <2>2 DEF InHand, TypeOK
    <2>5. block # Absent /\ \A u \in Thread : InHand(u) # block
        BY <1>c, <2>1, ConcurrencyAssumption
    <2>6. \A r \in held : r.block # block
        BY <1>c, <2>1
    <2>7. heap' = {r.block : r \in held} \cup ({InHand(u)' : u \in Thread} \ {Absent})
        BY <1>c, <2>1, <2>3, <2>4, <2>5
    <2>8. /\ \A u, v \in Thread : InHand(u)' = InHand(v)' /\ InHand(u)' # Absent => u = v
          /\ \A u \in Thread, r \in held : InHand(u)' # r.block
        BY <1>c, <2>3, <2>4, <2>5, <2>6
    <2> QED BY <1>c, <2>2, <2>7, <2>8 DEF HeapAccounted
<1>2. ASSUME NEW t \in Thread, LoadId(t) PROVE HeapAccounted'
    <2>1. \A u \in Thread : InHand(u)' = InHand(u)
        BY <1>a, <1>2 DEF LoadId, InHand, TypeOK
    <2> QED BY <1>a, <1>2, <2>1, SameBlocks DEF LoadId
<1>3. ASSUME NEW t \in Thread, StoreId(t) PROVE HeapAccounted'
    <2>1. \A u \in Thread : InHand(u)' = InHand(u)
        BY <1>a, <1>3 DEF StoreId, InHand, TypeOK
    <2> QED BY <1>a, <1>3, <2>1, SameBlocks DEF StoreId
<1>4. ASSUME NEW t \in Thread, Insert(t) PROVE HeapAccounted'
    <2> DEFINE new == [device |-> device[t], handle |-> id[t], block |-> data[t]]
    <2>1. /\ pc[t] = "insert" /\ pc' = [pc EXCEPT ![t] = "idle"]
          /\ held' = held \cup {new} /\ UNCHANGED <<device, id, heap>>
          /\ data' = [data EXCEPT ![t] = Absent]
        BY <1>4 DEF Insert
    <2>2. /\ InHand(t) = data[t] /\ InHand(t)' = Absent /\ new.block = data[t]
          /\ data[t] # Absent
        BY <1>a, <2>1, ConcurrencyAssumption DEF InHand, TypeOK, CallsInOrder
    <2>3. \A u \in Thread \ {t} : InHand(u)' = InHand(u)
        <3> SUFFICES ASSUME NEW u \in Thread, u # t PROVE InHand(u)' = InHand(u)
            OBVIOUS
        <3>1. pc'[u] = pc[u] /\ data'[u] = data[u] /\ device'[u] = device[u] /\ id'[u] = id[u]
            BY <1>a, <2>1 DEF TypeOK
        <3>2. pc[u] = "free" => memory_map'[device[u]] = memory_map[device[u]]
            BY <1>a, <1>d, <1>e, <1>4, <2>1 DEF Insert, TypeOK
        <3> QED BY <3>1, <3>2 DEF InHand
    <2>4. {r.block : r \in held'} = {r.block : r \in held} \cup {data[t]}
        BY <2>1, <2>2
    <2>5. {InHand(u)' : u \in Thread} \ {Absent} = ({InHand(u) : u \in Thread} \ {Absent}) \ {data[t]}
        BY <1>c, <2>2, <2>3
    <2>6. data[t] \in {InHand(u) : u \in Thread} \ {Absent}
        BY <2>2
    <2>7. heap' = {r.block : r \in held'} \cup ({InHand(u)' : u \in Thread} \ {Absent})
        BY <1>c, <2>1, <2>4, <2>5, <2>6
    <2>8. \A r \in held : r.block # data[t]
        BY <1>c, <2>2
    <2>9. \A r, q \in held' : r.block = q.block => r = q
        BY <1>c, <2>1, <2>2, <2>8
    <2>10. \A u, v \in Thread : InHand(u)' = InHand(v)' /\ InHand(u)' # Absent => u = v
        BY <1>c, <2>2, <2>3
    <2>11. ASSUME NEW u \in Thread, NEW r \in held' PROVE InHand(u)' # r.block
        <3>1. CASE u = t
            BY <1>d, <2>1, <2>2, <2>11, <3>1, ConcurrencyAssumption
        <3>2. CASE u # t
            BY <1>c, <2>1, <2>2, <2>3, <2>11, <3>2
        <3> QED BY <3>1, <3>2
    <2> QED BY <2>7, <2>9, <2>10, <2>11 DEF HeapAccounted
<1>5. ASSUME NEW t \in Thread, NEW q \in held, FreeMemory(t, q) PROVE HeapAccounted'
    <2>1. /\ pc[t] = "idle" /\ pc' = [pc EXCEPT ![t] = "free"]
          /\ device' = [device EXCEPT ![t] = q.device] /\ id' = [id EXCEPT ![t] = q.handle]
          /\ held' = held \ {q} /\ UNCHANGED <<data, memory_map, heap>>
        BY <1>5 DEF FreeMemory
    <2>2. memory_map[q.device][q.handle] = q.block /\ q.block \in Block
        BY <1>b, <1>d DEF GuardedInv, Named
    <2>3. InHand(t) = Absent /\ InHand(t)' = q.block
        BY <1>a, <2>1, <2>2 DEF InHand, TypeOK
    <2>4. \A u \in Thread \ {t} : InHand(u)' = InHand(u)
        BY <1>a, <2>1 DEF InHand, TypeOK
    <2>5. q.block # Absent
        BY <2>2, ConcurrencyAssumption
    <2>6. {r.block : r \in held} = {r.block : r \in held'} \cup {q.block}
        BY <2>1
    <2>7. {InHand(u)' : u \in Thread} \ {Absent} = ({InHand(u) : u \in Thread} \ {Absent}) \cup {q.block}
        BY <2>3, <2>4, <2>5
    <2>8. heap' = {r.block : r \in held'} \cup ({InHand(u)' : u \in Thread} \ {Absent})
        BY <1>c, <2>1, <2>6, <2>7
    <2>9. \A r, p \in held' : r.block = p.block => r = p
        BY <1>c, <2>1
    <2>10. \A u, v \in Thread : InHand(u)' = InHand(v)' /\ InHand(u)' # Absent => u = v
        BY <1>c, <2>3, <2>4
    <2>11. \A u \in Thread, r \in held' : InHand(u)' # r.block
        BY <1>c, <2>1, <2>3, <2>4
    <2> QED BY <2>8, <2>9, <2>10, <2>11 DEF HeapAccounted
<1>6. ASSUME NEW t \in Thread, Free(t) PROVE HeapAccounted'
    <2>1. pc[t] = "free" /\ UNCHANGED <<device, id, data, memory_map, held>>
        BY <1>6 DEF Free
    <2>2. InHand(t) = memory_map[device[t]][id[t]] /\ InHand(t) # Absent
        BY <1>b, <1>d, <2>1 DEF InHand, GuardedInv, Freeing
    <2>3. ~Racing(t)
        BY <1>b, <1>d, <2>1 DEF Racing, GuardedInv, AtMostOneInside, Inside
    <2>4. heap' = heap \ {InHand(t)} /\ pc' = [pc EXCEPT ![t] = "erase"]
        BY <1>6, <2>2, <2>3 DEF Free
    <2>5. InHand(t)' = Absent
        BY <1>a, <2>4 DEF InHand, TypeOK
    <2>6. \A u \in Thread \ {t} : InHand(u)' = InHand(u)
        BY <1>a, <2>1, <2>4 DEF InHand, TypeOK
    <2>7. {InHand(u)' : u \in Thread} \ {Absent} = ({InHand(u) : u \in Thread} \ {Absent}) \ {InHand(t)}
        BY <1>c, <2>2, <2>5, <2>6
    <2>8. InHand(t) \notin {r.block : r \in held}
        BY <1>c
    <2>9. heap' = {r.block : r \in held} \cup ({InHand(u)' : u \in Thread} \ {Absent})
        BY <1>c, <2>4, <2>7, <2>8
    <2>10. \A u, v \in Thread : InHand(u)' = InHand(v)' /\ InHand(u)' # Absent => u = v
        BY <1>c, <2>5, <2>6
    <2>11. ASSUME NEW u \in Thread, NEW r \in held PROVE InHand(u)' # r.block
        BY <1>c, <1>d, <2>5, <2>6, <2>11, ConcurrencyAssumption
    <2> QED BY <1>c, <2>1, <2>9, <2>10, <2>11 DEF HeapAccounted
<1>7. ASSUME NEW t \in Thread, Erase(t) PROVE HeapAccounted'
    <2>1. /\ pc[t] = "erase" /\ pc' = [pc EXCEPT ![t] = "idle"]
          /\ memory_map' = [memory_map EXCEPT ![device[t]][id[t]] = Absent]
          /\ UNCHANGED <<device, id, data, heap, held>>
        BY <1>7 DEF Erase
    <2>2. ASSUME NEW u \in Thread PROVE InHand(u)' = InHand(u)
        <3>1. CASE u = t
            BY <1>a, <2>1, <3>1 DEF InHand, TypeOK
        <3>2. CASE u # t
            <4>1. pc'[u] = pc[u]
                BY <1>a, <2>1, <3>2 DEF TypeOK
            <4>2. pc[u] = "free" => memory_map'[device[u]] = memory_map[device[u]]
                BY <1>a, <1>d, <1>e, <2>1, <3>2 DEF TypeOK
            <4> QED BY <2>1, <4>1, <4>2 DEF InHand
        <3> QED BY <3>1, <3>2
    <2> QED BY <1>a, <2>1, <2>2, SameBlocks
<1>8. CASE UNCHANGED vars
    <2>1. \A u \in Thread : InHand(u)' = InHand(u)
        BY <1>8 DEF vars, InHand
    <2> QED BY <1>a, <1>8, <2>1, SameBlocks DEF vars
<1> QED
    BY <1>1, <1>2, <1>3, <1>4, <1>5, <1>6, <1>7, <1>8 DEF Next

-----------------------------------------------------------------------------
(* Theorems *)

LEMMA InvInit == Init => Inv
<1> SUFFICES ASSUME Init PROVE Inv
    OBVIOUS
<1> USE ConcurrencyAssumption DEF Init, Handle
<1>1. TypeOK
    <2>1. raced \in BOOLEAN
        BY Zenon
    <2>2. /\ pc \in [Thread -> {"idle", "load", "store", "insert", "free", "erase"}]
          /\ device \in [Thread -> Device]
          /\ id \in [Thread -> Handle \cup {1}]
          /\ data \in [Thread -> Block \cup {Absent}]
          /\ heap \in SUBSET Block /\ held \in SUBSET Holding
        OBVIOUS
    <2>3. /\ memory_handler_id \in [Device -> 1 .. MaxHandle + 1]
          /\ memory_map \in [Device -> [Handle -> Block \cup {Absent}]]
        OBVIOUS
    <2> QED BY <2>1, <2>2, <2>3 DEF TypeOK
<1>2. CallsInOrder
    BY DEF CallsInOrder
<1>3. \A d \in Device : GuardedInv(d)
    BY DEF GuardedInv, AtMostOneInside, CounterAhead, Named, Freeing, NothingForgotten, Inside
<1>4. HeapAccounted
    BY DEF HeapAccounted, InHand
<1> QED BY <1>1, <1>2, <1>3, <1>4 DEF Inv

LEMMA InvStep == Inv /\ [Next]_vars => Inv'
<1> SUFFICES ASSUME Inv, [Next]_vars PROVE Inv'
    OBVIOUS
<1>1. TypeOK' /\ CallsInOrder'
    BY TypeStep DEF Inv
<1>2. ASSUME NEW d \in Device, Quiet(d)' PROVE GuardedInv(d)'
    <2>1. Quiet(d)
        BY <1>2, RacedStays DEF Quiet, Guarded
    <2> QED BY <1>1, <1>2, <2>1, GuardedStep DEF Inv
<1>3. HeapAccounted'
    BY <1>1, HeapStep
<1> QED BY <1>1, <1>2, <1>3 DEF Inv

THEOREM InvariantHolds == Spec => []Inv
BY InvInit, InvStep, PTL DEF Spec

\* Any number of threads and devices: the state stays well typed.
THEOREM TypeCorrect == Spec => []TypeOK
<1>1. Inv => TypeOK
    BY DEF Inv
<1> QED BY <1>1, InvariantHolds, PTL

\* On a device the application guards, a handle names the block of the call that
\* returned it, however many threads race on however many other devices.
THEOREM GuardedHandlesNameTheirBlocks == Spec => []HandleNamesItsBlock
<1>1. Inv => HandleNamesItsBlock
    <2> SUFFICES ASSUME Inv, NEW r \in held, Guarded(r.device)
                 PROVE  memory_map[r.device][r.handle] = r.block
        BY DEF HandleNamesItsBlock
    <2>1. r.device \in Device
        BY DEF Inv, TypeOK, Holding
    <2> QED BY <2>1 DEF Inv, Quiet, GuardedInv, Named
<1> QED BY <1>1, InvariantHolds, PTL

\* The map of a guarded device holds what the application holds and what is being
\* freed, and nothing else, whatever happens in the maps of other devices.
THEOREM GuardedEntriesAccounted == Spec => []EntriesAccounted
<1>1. Inv => EntriesAccounted
    <2> SUFFICES ASSUME Inv, NEW d \in Device, Guarded(d)
                 PROVE  {h \in Handle : memory_map[d][h] # Absent} =
                            {r.handle : r \in {r \in held : r.device = d}}
                                \cup {id[t] : t \in {t \in Thread :
                                          device[t] = d /\ pc[t] \in {"free", "erase"}}}
        BY DEF EntriesAccounted
    <2>1. Named(d) /\ Freeing(d) /\ NothingForgotten(d) /\ TypeOK /\ CallsInOrder
        BY DEF Inv, Quiet, GuardedInv
    <2>2. \A r \in held : r.device = d =>
            r.handle \in Handle /\ memory_map[d][r.handle] # Absent
        <3> SUFFICES ASSUME NEW r \in held, r.device = d
                     PROVE  r.handle \in Handle /\ memory_map[d][r.handle] # Absent
            OBVIOUS
        <3>1. r.handle \in Handle /\ r.block \in Block
            BY <2>1 DEF TypeOK, Holding
        <3> QED BY <2>1, <3>1, ConcurrencyAssumption DEF Named
    <2>3. \A t \in Thread : (device[t] = d /\ pc[t] \in {"free", "erase"}) =>
            id[t] \in Handle /\ memory_map[d][id[t]] # Absent
        BY <2>1 DEF Freeing, CallsInOrder
    <2> QED BY <2>1, <2>2, <2>3 DEF NothingForgotten
<1> QED BY <1>1, InvariantHolds, PTL

\* Until two threads meet inside one device, no block is leaked, freed twice or
\* owned by two memory objects, for any number of threads, devices and blocks.
THEOREM HeapStaysAccounted == Spec => []HeapAccounted
<1>1. Inv => HeapAccounted
    BY DEF Inv
<1> QED BY <1>1, InvariantHolds, PTL

-----------------------------------------------------------------------------
(* Guarded devices implement HandleTable *)

Pending(d, h) == \E t \in Thread : pc[t] = "insert" /\ device[t] = d /\ id[t] = h

\* What handle h of device d is to the callers.
State(d, h) ==
    IF memory_map[d][h] # Absent THEN "live"
    ELSE IF h < memory_handler_id[d] /\ ~Pending(d, h) THEN "dead" ELSE "unused"

GuardedDevice == {d \in Device : Guarded(d)}

LEMMA StatusIsState ==
    /\ GuardedStatus = [dh \in GuardedDevice \X Handle |-> State(dh[1], dh[2])]
    /\ GuardedStatus' = [dh \in GuardedDevice \X Handle |-> State(dh[1], dh[2])']
BY DEF GuardedStatus, GuardedDevice, State, Pending, Guarded

LEMMA StatusInitially == Init => GuardedHandles!Init
<1> SUFFICES ASSUME Init PROVE GuardedHandles!Init
    OBVIOUS
<1>1. \A d \in GuardedDevice, h \in Handle : State(d, h) = "unused"
    BY ConcurrencyAssumption DEF Init, GuardedDevice, State, Handle
<1> QED BY <1>1, StatusIsState DEF GuardedHandles!Init, GuardedDevice

\* A step that no handle of a guarded device notices.
LEMMA SameStates ==
    ASSUME \A d \in GuardedDevice, h \in Handle : State(d, h)' = State(d, h)
    PROVE  GuardedStatus' = GuardedStatus
BY StatusIsState

LEMMA GuardedStatusStep == Inv /\ [Next]_vars => [GuardedHandles!Next]_GuardedStatus
<1> SUFFICES ASSUME Inv, [Next]_vars
             PROVE  GuardedHandles!Next \/ GuardedStatus' = GuardedStatus
    OBVIOUS
<1>a. /\ TypeOK /\ CallsInOrder
      /\ \A d \in GuardedDevice : d \in Device /\ GuardedInv(d)
    BY DEF Inv, Quiet, GuardedDevice
\* Neither the maps nor the counters change, and nobody begins or ends an insertion.
<1>b. ASSUME UNCHANGED <<memory_map, memory_handler_id>>,
             \A t \in Thread :
                \/ pc'[t] = pc[t] /\ device'[t] = device[t] /\ id'[t] = id[t]
                \/ pc[t] # "insert" /\ pc'[t] # "insert"
      PROVE  GuardedStatus' = GuardedStatus
    BY <1>b, SameStates DEF State, Pending
<1>1. ASSUME NEW t \in Thread, NEW d \in DevicesOf[t], AllocateMemory(t, d)
      PROVE  GuardedStatus' = GuardedStatus
    BY <1>a, <1>b, <1>1 DEF AllocateMemory, TypeOK
<1>2. ASSUME NEW t \in Thread, LoadId(t) PROVE GuardedStatus' = GuardedStatus
    BY <1>a, <1>b, <1>2 DEF LoadId, TypeOK
<1>3. ASSUME NEW t \in Thread, StoreId(t) PROVE GuardedStatus' = GuardedStatus
    <2> SUFFICES ASSUME NEW d \in GuardedDevice, NEW h \in Handle
                 PROVE  State(d, h)' = State(d, h)
        BY SameStates
    <2>1. /\ memory_map' = memory_map
          /\ \A u \in Thread : u # t => pc'[u] = pc[u]
          /\ pc[t] = "store" /\ pc'[t] = "insert"
          /\ UNCHANGED <<device, id>>
          /\ id[t] \in Handle
        BY <1>a, <1>3 DEF StoreId, TypeOK, CallsInOrder
    <2>2. CASE device[t] # d
        <3>1. Pending(d, h)' <=> Pending(d, h)
            BY <2>1, <2>2 DEF Pending
        <3>2. memory_handler_id'[d] = memory_handler_id[d]
            BY <1>a, <1>3, <2>2 DEF StoreId, Counter, TypeOK
        <3> QED BY <2>1, <3>1, <3>2 DEF State
    <2>3. CASE device[t] = d
        <3>1. /\ id[t] = memory_handler_id[d]
              /\ \A k \in Handle : k >= memory_handler_id[d] => memory_map[d][k] = Absent
            BY <1>a, <2>1, <2>3 DEF GuardedInv, CounterAhead, Inside
        <3>2. memory_handler_id'[d] = memory_handler_id[d] + 1 /\ memory_handler_id[d] \in Nat
            BY <1>a, <1>3, <2>3, <3>1, ConcurrencyAssumption DEF StoreId, Counter, TypeOK
        <3>3. Pending(d, h)' <=> (Pending(d, h) \/ h = memory_handler_id[d])
            BY <2>1, <2>3, <3>1 DEF Pending
        <3>4. h \in Nat
            BY ConcurrencyAssumption DEF Handle
        <3> QED BY <2>1, <3>1, <3>2, <3>3, <3>4 DEF State
    <2> QED BY <2>2, <2>3
<1>4. ASSUME NEW t \in Thread, Insert(t)
      PROVE  GuardedHandles!Next \/ GuardedStatus' = GuardedStatus
    <2>1. /\ memory_handler_id' = memory_handler_id /\ UNCHANGED <<device, id>>
          /\ pc[t] = "insert" /\ pc'[t] = "idle"
          /\ \A u \in Thread : u # t => pc'[u] = pc[u]
          /\ id[t] \in Handle /\ data[t] \in Block
        BY <1>a, <1>4 DEF Insert, TypeOK, CallsInOrder
    <2>2. ASSUME NEW d \in GuardedDevice, NEW h \in Handle, <<d, h>> # <<device[t], id[t]>>
          PROVE  State(d, h)' = State(d, h)
        <3>1. memory_map'[d][h] = memory_map[d][h]
            BY <1>a, <1>4, <2>1, <2>2 DEF Insert, TypeOK
        <3>2. Pending(d, h)' <=> Pending(d, h)
            BY <2>1, <2>2 DEF Pending
        <3> QED BY <2>1, <3>1, <3>2 DEF State
    <2>3. CASE device[t] \notin GuardedDevice
        BY <2>2, <2>3, SameStates
    <2>4. CASE device[t] \in GuardedDevice
        <3> DEFINE d == device[t]
                   h == id[t]
        <3>1. ~Racing(t)
            BY <1>a, <2>1, <2>4 DEF Racing, GuardedInv, AtMostOneInside, Inside
        <3>2. memory_map' = [memory_map EXCEPT ![d][h] = data[t]] /\ data[t] # Absent
            BY <1>4, <2>1, <3>1, ConcurrencyAssumption DEF Insert
        <3>3. memory_map[d][h] = Absent
            BY <1>a, <2>1, <2>4 DEF GuardedInv, CounterAhead, Inside
        <3>4. State(d, h) = "unused"
            BY <2>1, <3>3 DEF State, Pending
        <3>5. memory_map'[d][h] # Absent
            BY <1>a, <2>1, <3>2 DEF TypeOK
        <3>6. State(d, h)' = "live"
            BY <2>1, <3>5 DEF State
        <3>7. GuardedStatus' = [GuardedStatus EXCEPT ![<<d, h>>] = "live"]
            <4>1. GuardedStatus' = [dh \in GuardedDevice \X Handle |->
                    IF dh = <<d, h>> THEN "live" ELSE GuardedStatus[dh]]
                BY <2>1, <2>2, <2>4, <3>6, StatusIsState
            <4> QED BY <4>1, StatusIsState
        <3>8. <<d, h>> \in GuardedDevice \X Handle /\ GuardedStatus[<<d, h>>] = "unused"
            BY <2>1, <2>4, <3>4, StatusIsState
        <3>9. GuardedHandles!Create(<<d, h>>)
            BY <3>7, <3>8 DEF GuardedHandles!Create
        <3> QED BY <3>8, <3>9 DEF GuardedHandles!Next, GuardedDevice
    <2> QED BY <2>3, <2>4
<1>5. ASSUME NEW t \in Thread, NEW r \in held, FreeMemory(t, r)
      PROVE  GuardedStatus' = GuardedStatus
    BY <1>a, <1>b, <1>5 DEF FreeMemory, TypeOK
<1>6. ASSUME NEW t \in Thread, Free(t) PROVE GuardedStatus' = GuardedStatus
    BY <1>a, <1>b, <1>6 DEF Free, TypeOK
<1>7. ASSUME NEW t \in Thread, Erase(t)
      PROVE  GuardedHandles!Next \/ GuardedStatus' = GuardedStatus
    <2>1. /\ memory_handler_id' = memory_handler_id /\ UNCHANGED <<device, id>>
          /\ pc[t] = "erase" /\ pc'[t] = "idle"
          /\ \A u \in Thread : u # t => pc'[u] = pc[u]
          /\ id[t] \in Handle
          /\ memory_map' = [memory_map EXCEPT ![device[t]][id[t]] = Absent]
        BY <1>a, <1>7 DEF Erase, TypeOK, CallsInOrder
    <2>2. ASSUME NEW d \in GuardedDevice, NEW h \in Handle, <<d, h>> # <<device[t], id[t]>>
          PROVE  State(d, h)' = State(d, h)
        <3>1. memory_map'[d][h] = memory_map[d][h]
            BY <1>a, <2>1, <2>2 DEF TypeOK
        <3>2. Pending(d, h)' <=> Pending(d, h)
            BY <2>1, <2>2 DEF Pending
        <3> QED BY <2>1, <3>1, <3>2 DEF State
    <2>3. CASE device[t] \notin GuardedDevice
        BY <2>2, <2>3, SameStates
    <2>4. CASE device[t] \in GuardedDevice
        <3> DEFINE d == device[t]
                   h == id[t]
        <3>1. memory_map[d][h] # Absent
            BY <1>a, <2>1, <2>4 DEF GuardedInv, Freeing
        <3>2. State(d, h) = "live"
            BY <3>1 DEF State
        <3>3. h < memory_handler_id[d]
            <4>1. h \in Nat /\ memory_handler_id[d] \in Nat
                BY <1>a, <2>1, <2>4, ConcurrencyAssumption DEF Handle, TypeOK
            <4>2. ~(h >= memory_handler_id[d])
                BY <1>a, <2>1, <2>4, <3>1 DEF GuardedInv, CounterAhead
            <4> QED BY <4>1, <4>2
        <3>4. ~Pending(d, h)'
            BY <1>a, <2>1, <2>4 DEF GuardedInv, AtMostOneInside, Inside, Pending
        <3>5. memory_map'[d][h] = Absent
            BY <1>a, <2>1 DEF TypeOK
        <3>6. State(d, h)' = "dead"
            BY <2>1, <3>3, <3>4, <3>5 DEF State
        <3>7. /\ <<d, h>> \in GuardedDevice \X Handle
              /\ GuardedStatus[<<d, h>>] = "live"
            BY <2>1, <2>4, <3>2, StatusIsState
        <3>8. GuardedStatus' = [dh \in GuardedDevice \X Handle |->
                IF dh \in {<<d, h>>} THEN "dead" ELSE GuardedStatus[dh]]
            BY <2>1, <2>2, <2>4, <3>6, StatusIsState
        <3>9. GuardedHandles!Destroy({<<d, h>>})
            BY <3>7, <3>8 DEF GuardedHandles!Destroy, GuardedDevice
        <3> QED BY <3>7, <3>9 DEF GuardedHandles!Next, GuardedDevice
    <2> QED BY <2>3, <2>4
<1>8. CASE UNCHANGED vars
    BY <1>b, <1>8 DEF vars
<1> QED
    BY <1>1, <1>2, <1>3, <1>4, <1>5, <1>6, <1>7, <1>8 DEF Next

\* On guarded devices the calls implement HandleTable, though each is several steps
\* long and other threads race on other devices: any number of threads and devices.
THEOREM GuardedTablesImplementHandleTable == Spec => GuardedHandlesNeverReused
BY StatusInitially, InvariantHolds, GuardedStatusStep, PTL
    DEF Spec, GuardedHandlesNeverReused, GuardedHandles!Spec

\* What the comment over memory_handler_id++ says is true of an application that
\* keeps its threads from racing on every device it uses.
THEOREM GuardedHandlesAreUnique ==
    ASSUME \A d \in Device : Guarded(d)
    PROVE  Spec => []HeldHandlesUnique
<1>1. Inv => HeldHandlesUnique
    <2> SUFFICES ASSUME Inv, NEW r \in held, NEW s \in held,
                        r.device = s.device, r.handle = s.handle
                 PROVE  r = s
        BY DEF HeldHandlesUnique
    <2>1. r \in Holding /\ s \in Holding
        BY DEF Inv, TypeOK
    <2>2. r.device \in Device
        BY <2>1 DEF Holding
    <2>3. Named(r.device)
        BY <2>2 DEF Inv, Quiet, GuardedInv
    <2>4. r.block = s.block
        BY <2>3 DEF Named
    <2> QED BY <2>1, <2>4, SameHolding
<1> QED BY <1>1, InvariantHolds, PTL

=============================================================================
