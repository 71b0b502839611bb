-------------------------- MODULE ConcurrentCreate --------------------------
(***************************************************************************)
(* Threads of one application that allocate and free memory objects.  The  *)
(* driver has no lock anywhere: memory_handler_id++ is a load and a store, *)
(* and memory_map is a std::unordered_map written by whoever calls.  Every *)
(* other vkCreate* of device.cpp that counts its own handles (buffers,     *)
(* images, fences, semaphores, events, query pools) has the same shape.    *)
(*                                                                         *)
(* A map that one thread writes while another uses it is undefined         *)
(* behaviour; of what can follow, an insertion that is lost and an entry   *)
(* that is not found are modelled (a crash is a behaviour that stops).     *)
(***************************************************************************)
EXTENDS Integers

CONSTANTS
    Thread,
    Device,
    Block,           \* addresses malloc can return
    MaxHandle,       \* bound: handles counted per device
    DevicesOf,       \* which devices the application uses from which thread
    Serialized,      \* devices the application lets one thread at a time into
    Absent

Handle == 1 .. MaxHandle

ASSUME ConcurrencyAssumption ==
    /\ MaxHandle \in Nat
    /\ DevicesOf \in [Thread -> SUBSET Device]
    /\ Serialized \subseteq Device
    /\ Absent \notin Block

VARIABLES
    pc,         \* where each thread is in its call
    device,     \* the device argument of the call
    id,         \* the local "id" of AllocateMemory, the handle of FreeMemory
    data,       \* the block the call has just got from malloc
    memory_handler_id, memory_map, \* per device
    heap,       \* blocks malloc returned and free has not taken back
    held,       \* what the application holds: handle h of d is its block b
    raced       \* TRUE once two threads have been inside one device together

vars == <<pc, device, id, data, memory_handler_id, memory_map, heap, held, raced>>

Holding == [device : Device, handle : Handle, block : Block]

Init ==
    /\ pc = [t \in Thread |-> "idle"]
    /\ device \in [Thread -> Device]
    /\ id = [t \in Thread |-> 1]
    /\ data = [t \in Thread |-> Absent]
    /\ memory_handler_id = [d \in Device |-> 1]
    /\ memory_map = [d \in Device |-> [h \in Handle |-> Absent]]
    /\ heap = {}
    /\ held = {}
    /\ raced = FALSE

\* The application's own mutual exclusion, if it has one.
MayEnter(t, d) ==
    d \in Serialized => \A u \in Thread \ {t} : pc[u] # "idle" => device[u] # d

\* History: t enters d, maybe while another thread is inside.
Enter(t, d) ==
    raced' = (raced \/ \E u \in Thread \ {t} : pc[u] # "idle" /\ device[u] = d)

\* Another thread is changing the same map.
Racing(t) ==
    \E u \in Thread \ {t} : device[u] = device[t] /\ pc[u] \in {"insert", "erase"}

-----------------------------------------------------------------------------
(* AllocateMemory *)

\* malloc, which locks for itself, gives a block nobody holds.
AllocateMemory(t, d) ==
    /\ pc[t] = "idle"
    /\ MayEnter(t, d)
    /\ \E block \in Block \ heap :
         /\ heap' = heap \cup {block}
         /\ data' = [data EXCEPT ![t] = block]
    /\ device' = [device EXCEPT ![t] = d]
    /\ pc' = [pc EXCEPT ![t] = "load"]
    /\ Enter(t, d)
    /\ UNCHANGED <<id, memory_handler_id, memory_map, held>>

\* Mutant: one static counter for all devices.
CounterOfAll(d) == CHOOSE e \in Device : TRUE

\* Whose counter a call on a device uses.
Counter(d) == d

\* memory_handler_id++ reads ...
LoadId(t) ==
    /\ pc[t] = "load"
    /\ memory_handler_id[Counter(device[t])] \in Handle
    /\ id' = [id EXCEPT ![t] = memory_handler_id[Counter(device[t])]]
    /\ pc' = [pc EXCEPT ![t] = "store"]
    /\ UNCHANGED <<device, data, memory_handler_id, memory_map, heap, held, raced>>

\* Mutant: it counts twice.
StoreIdTwice(t) ==
    /\ pc[t] = "store"
    /\ memory_handler_id' = [memory_handler_id EXCEPT ![Counter(device[t])] = id[t] + 2]
    /\ pc' = [pc EXCEPT ![t] = "insert"]
    /\ UNCHANGED <<device, id, data, memory_map, heap, held, raced>>

\* ... and writes back.
StoreId(t) ==
    /\ pc[t] = "store"
    /\ memory_handler_id' = [memory_handler_id EXCEPT ![Counter(device[t])] = id[t] + 1]
    /\ pc' = [pc EXCEPT ![t] = "insert"]
    /\ UNCHANGED <<device, id, data, memory_map, heap, held, raced>>

\* memory_map[handle] = mem replaces an entry that is already there, without
\* freeing its block; then *pMemory = handle.
Insert(t) ==
    /\ pc[t] = "insert"
    /\ \/ memory_map' = [memory_map EXCEPT ![device[t]][id[t]] = data[t]]
       \/ Racing(t) /\ UNCHANGED memory_map
    /\ held' = held \cup {[device |-> device[t], handle |-> id[t], block |-> data[t]]}
    /\ data' = [data EXCEPT ![t] = Absent]
    /\ pc' = [pc EXCEPT ![t] = "idle"]
    /\ UNCHANGED <<device, id, memory_handler_id, heap, raced>>

-----------------------------------------------------------------------------
(* FreeMemory *)

\* The application gives a handle up once, from any thread.
FreeMemory(t, r) ==
    /\ pc[t] = "idle"
    /\ MayEnter(t, r.device)
    /\ r \in held /\ r.device \in DevicesOf[t]
    /\ held' = held \ {r}
    /\ device' = [device EXCEPT ![t] = r.device]
    /\ id' = [id EXCEPT ![t] = r.handle]
    /\ pc' = [pc EXCEPT ![t] = "free"]
    /\ Enter(t, r.device)
    /\ UNCHANGED <<data, memory_handler_id, memory_map, heap>>

\* Mutant: the block is freed and the entry stays.
FreeOnly(t) ==
    /\ pc[t] = "free"
    /\ heap' = heap \ {memory_map[device[t]][id[t]]}
    /\ pc' = [pc EXCEPT ![t] = "idle"]
    /\ UNCHANGED <<device, id, data, memory_handler_id, memory_map, held, raced>>

\* find, then free(mapped_ptr); a handle that is not found is ignored.
Free(t) ==
    /\ pc[t] = "free"
    /\ \/ /\ memory_map[device[t]][id[t]] # Absent
          /\ heap' = heap \ {memory_map[device[t]][id[t]]}
          /\ pc' = [pc EXCEPT ![t] = "erase"]
       \/ /\ memory_map[device[t]][id[t]] = Absent \/ Racing(t)
          /\ pc' = [pc EXCEPT ![t] = "idle"]
          /\ UNCHANGED heap
    /\ UNCHANGED <<device, id, data, memory_handler_id, memory_map, held, raced>>

\* Mutant: the counter goes back to the handle that is free again.
EraseAndReuse(t) ==
    /\ pc[t] = "erase"
    /\ memory_map' = [memory_map EXCEPT ![device[t]][id[t]] = Absent]
    /\ memory_handler_id' = [memory_handler_id EXCEPT ![device[t]] = id[t]]
    /\ pc' = [pc EXCEPT ![t] = "idle"]
    /\ UNCHANGED <<device, id, data, heap, held, raced>>

\* Mutant: the destructor of the memory object frees the block once more.
EraseFreeingAgain(t) ==
    /\ pc[t] = "erase"
    /\ heap' = heap \ {memory_map[device[t]][id[t]]}
    /\ memory_map' = [memory_map EXCEPT ![device[t]][id[t]] = Absent]
    /\ pc' = [pc EXCEPT ![t] = "idle"]
    /\ UNCHANGED <<device, id, data, memory_handler_id, held, raced>>

Erase(t) ==
    /\ pc[t] = "erase"
    /\ memory_map' = [memory_map EXCEPT ![device[t]][id[t]] = Absent]
    /\ pc' = [pc EXCEPT ![t] = "idle"]
    /\ UNCHANGED <<device, id, data, memory_handler_id, heap, held, raced>>

Next ==
    \E t \in Thread :
        \/ \E d \in DevicesOf[t] : AllocateMemory(t, d)
        \/ LoadId(t)
        \/ StoreId(t)
        \/ Insert(t)
        \/ \E r \in held : FreeMemory(t, r)
        \/ Free(t)
        \/ Erase(t)

Spec == Init /\ [][Next]_vars

-----------------------------------------------------------------------------
(* Properties *)

TypeOK ==
    /\ pc \in [Thread -> {"idle", "load", "store", "insert", "free", "erase"}]
    /\ device \in [Thread -> Device]
    /\ id \in [Thread -> Handle \cup {1}]
    /\ data \in [Thread -> Block \cup {Absent}]
    /\ memory_handler_id \in [Device -> 1 .. MaxHandle + 1]
    /\ memory_map \in [Device -> [Handle -> Block \cup {Absent}]]
    /\ heap \in SUBSET Block
    /\ held \in SUBSET Holding
    /\ raced \in BOOLEAN

\* The devices the application keeps from racing: its threads take turns on
\* this one, or only one of them uses it.
Guarded(d) ==
    d \in Serialized \/ \A t, u \in Thread : d \in DevicesOf[t] \cap DevicesOf[u] => t = u

\* On a guarded device the handle AllocateMemory returned names the block of that
\* call for as long as the application holds it, whatever the other threads do
\* to other devices, races among them included.
HandleNamesItsBlock ==
    \A r \in held : Guarded(r.device) => memory_map[r.device][r.handle] = r.block

\* The map of a guarded device has the memory objects the application holds and
\* those a thread is freeing, no more and no fewer, whatever goes wrong in the
\* maps of other devices.  It says nothing of the heap, which all devices share: a
\* race on another device can free a block twice, this device's block among them.
EntriesAccounted ==
    \A d \in Device : Guarded(d) =>
        {h \in Handle : memory_map[d][h] # Absent} =
            {r.handle : r \in {r \in held : r.device = d}}
                \cup {id[t] : t \in {t \in Thread : device[t] = d /\ pc[t] \in {"free", "erase"}}}

\* The block a call has taken from malloc and not stored yet, or is to give back.
InHand(t) ==
    CASE pc[t] \in {"load", "store", "insert"} -> data[t]
      [] pc[t] = "free" -> memory_map[device[t]][id[t]]
      [] OTHER -> Absent

\* As long as no two threads have been inside one device together, every block of
\* malloc is owned once: by a memory object the application holds or by one call.
\* Threads on different devices share the heap, and between the free and the
\* erase of FreeMemory a block that an entry still names may go to another device.
HeapAccounted ==
    ~raced =>
        /\ heap = {r.block : r \in held} \cup ({InHand(t) : t \in Thread} \ {Absent})
        /\ \A r, q \in held : r.block = q.block => r = q
        /\ \A t, u \in Thread : InHand(t) = InHand(u) /\ InHand(t) # Absent => t = u
        /\ \A t \in Thread, r \in held : InHand(t) # r.block

\* A call that is between counting a handle and storing it in the map has not
\* taken effect yet: Insert and Erase are the moments of creation and destruction.
GuardedStatus ==
    LET Pending(d, h) == \E t \in Thread : pc[t] = "insert" /\ device[t] = d /\ id[t] = h IN
    [dh \in {d \in Device : Guarded(d)} \X Handle |->
        IF memory_map[dh[1]][dh[2]] # Absent THEN "live"
        ELSE IF dh[2] < memory_handler_id[dh[1]] /\ ~Pending(dh[1], dh[2])
             THEN "dead" ELSE "unused"]

GuardedHandles == INSTANCE HandleTable WITH
    Handle <- {d \in Device : Guarded(d)} \X Handle, status <- GuardedStatus

\* The calls on guarded devices look atomic although none of them is: a handle
\* names one memory object from the insertion of AllocateMemory to the erasure of
\* FreeMemory and nothing afterwards, whatever races there are on other devices.
GuardedHandlesNeverReused == GuardedHandles!Spec

\* "mem unique handle to use after" (the comment over memory_handler_id++): the
\* application never holds one handle of a device for two memory objects.
HeldHandlesUnique ==
    \A r, s \in held : (r.device = s.device /\ r.handle = s.handle) => r = s

=============================================================================
