---------------------------- MODULE DeviceMemory ----------------------------
(***************************************************************************)
(* The memory objects of one VkDevice: device.cpp,                         *)
(* vlk_trampoline_call_AllocateMemory up to                                *)
(* vlk_trampoline_call_GetDeviceMemoryCommitment.  A VkDeviceMemory is a   *)
(* malloc'ed block in a per-device map keyed by a handle the driver        *)
(* counts itself; it is never host Vulkan memory.                          *)
(*                                                                         *)
(* One action is one whole call.  Calls on one device are taken one at a   *)
(* time here; ConcurrentCreate interleaves them.                           *)
(***************************************************************************)
EXTENDS Integers, FiniteSets

CONSTANTS
    SizeModulus,      \* 2^64 for VkDeviceSize, scaled down for TLC
    AllocationSizes,  \* values of VkMemoryAllocateInfo::allocationSize
    Offsets,          \* offsets an application passes
    RangeSizes,       \* sizes an application passes with an offset
    Address,          \* the block addresses malloc can return
    MaxMemory,        \* bound: VkDeviceMemory handles issued
    Absent            \* "find() == end()": the map has no such key

VkDeviceSize == 0 .. SizeModulus - 1
VK_WHOLE_SIZE == SizeModulus - 1
Memory == 1 .. MaxMemory

MemoryObject == [size : VkDeviceSize, is_mapped : BOOLEAN, mapped_ptr : Address]

\* What the application was told it may touch: ppData and the size it asked for.
HostRange == [offset : VkDeviceSize, size : VkDeviceSize]

ASSUME SizeAssumption ==
    /\ SizeModulus \in Nat /\ SizeModulus > 1
    /\ MaxMemory \in Nat
    /\ AllocationSizes \subseteq VkDeviceSize
    /\ Offsets \subseteq VkDeviceSize
    /\ RangeSizes \subseteq VkDeviceSize

ASSUME AbsentAssumption == Absent \notin MemoryObject \cup HostRange

VARIABLES
    device_live,         \* vk_context->devices has the device
    memory_map, memory_handler_id,
    heap,                \* blocks malloc returned and free has not taken back
    mapping,             \* the range the application holds of each memory
    ret                  \* result of the call that returned last

memoryVars == <<memory_map, memory_handler_id, heap, mapping>>
memoryState == <<device_live, memoryVars>>

Result == {"SUCCESS", "VOID", "ERROR_OUT_OF_HOST_MEMORY", "ERROR_OUT_OF_DEVICE_MEMORY",
           "ERROR_MEMORY_MAP_FAILED", "ERROR_DEVICE_LOST"}

Return(result) == ret' = result

Memories == {m \in Memory : memory_map[m] # Absent}

(* Unsigned 64-bit arithmetic on operands in VkDeviceSize. *)
Plus(a, b) == IF a + b < SizeModulus THEN a + b ELSE a + b - SizeModulus
Minus(a, b) == IF b =< a THEN a - b ELSE a - b + SizeModulus

-----------------------------------------------------------------------------
MemoryInit ==
    /\ device_live = TRUE
    /\ memory_map = [m \in Memory |-> Absent]
    /\ memory_handler_id = 1
    /\ heap = {}
    /\ mapping = [m \in Memory |-> Absent]
    /\ ret = "SUCCESS"

\* Mutant: handles counted from the size of the map.
NextMemoryBySize == Cardinality(Memories) + 1

NextMemory == memory_handler_id

NewMemory(size, block) == [size |-> size, is_mapped |-> FALSE, mapped_ptr |-> block]

\* Mutant: the handle is counted before malloc is asked.
AllocateMemoryCountedFirst(size) ==
    /\ device_live
    /\ memory_handler_id =< MaxMemory
    /\ memory_handler_id' = memory_handler_id + 1
    /\ \/ /\ Return("ERROR_OUT_OF_HOST_MEMORY")
          /\ UNCHANGED <<memory_map, heap>>
       \/ \E block \in Address \ heap :
            /\ heap' = heap \cup {block}
            /\ memory_map' = [memory_map EXCEPT ![NextMemory] = NewMemory(size, block)]
            /\ Return("SUCCESS")
    /\ UNCHANGED <<device_live, mapping>>

\* malloc either hands out a block nobody holds or returns NULL.
AllocateMemory(size) ==
    /\ device_live
    /\ memory_handler_id =< MaxMemory
    /\ \/ /\ Return("ERROR_OUT_OF_HOST_MEMORY")
          /\ UNCHANGED memoryVars
       \/ \E block \in Address \ heap :
            /\ heap' = heap \cup {block}
            /\ memory_map' = [memory_map EXCEPT ![NextMemory] = NewMemory(size, block)]
            /\ memory_handler_id' = memory_handler_id + 1
            /\ Return("SUCCESS")
            /\ UNCHANGED mapping
    /\ UNCHANGED device_live

\* The size MapMemory works with once VK_WHOLE_SIZE is resolved.
MappedSize(total, offset, size) ==
    IF size = VK_WHOLE_SIZE THEN Minus(total, offset) ELSE size

\* Mutant: the offset is not compared with the size first.
MapChecksOfSumOnly(m, offset, size) ==
    /\ memory_map[m] # Absent
    /\ ~memory_map[m].is_mapped
    /\ Plus(offset, MappedSize(memory_map[m].size, offset, size)) =< memory_map[m].size

MapChecks(m, offset, size) ==
    /\ memory_map[m] # Absent
    /\ ~memory_map[m].is_mapped
    /\ offset < memory_map[m].size
    /\ Plus(offset, MappedSize(memory_map[m].size, offset, size)) =< memory_map[m].size

MapMemory(m, offset, size) ==
    /\ device_live
    /\ \/ /\ MapChecks(m, offset, size)
          /\ memory_map' = [memory_map EXCEPT ![m].is_mapped = TRUE]
          /\ mapping' = [mapping EXCEPT ![m] =
               [offset |-> offset,
                size |-> MappedSize(memory_map[m].size, offset, size)]]
          /\ Return("SUCCESS")
       \/ /\ ~MapChecks(m, offset, size)
          /\ Return("ERROR_MEMORY_MAP_FAILED")
          /\ UNCHANGED <<memory_map, mapping>>
    /\ UNCHANGED <<memory_handler_id, heap, device_live>>

\* Mutant: memory_map[memory] in place of find() inserts what is not there.
UnmapMemoryInserting(m) ==
    /\ device_live
    /\ memory_map' = [memory_map EXCEPT ![m] =
         IF @ = Absent THEN NewMemory(0, Absent) ELSE [@ EXCEPT !.is_mapped = FALSE]]
    /\ mapping' = [mapping EXCEPT ![m] = Absent]
    /\ Return("VOID")
    /\ UNCHANGED <<memory_handler_id, heap, device_live>>

\* A memory that is not found is ignored, here and in FreeMemory.
UnmapMemory(m) ==
    /\ device_live
    /\ memory_map' = [memory_map EXCEPT ![m] =
         IF @ = Absent THEN Absent ELSE [@ EXCEPT !.is_mapped = FALSE]]
    /\ mapping' = [mapping EXCEPT ![m] = Absent]
    /\ Return("VOID")
    /\ UNCHANGED <<memory_handler_id, heap, device_live>>

BlocksOf(M) == {memory_map[m].mapped_ptr : m \in M \cap Memories}

FreeMemory(m) ==
    /\ device_live
    /\ heap' = heap \ BlocksOf({m})
    /\ memory_map' = [memory_map EXCEPT ![m] = Absent]
    /\ mapping' = [mapping EXCEPT ![m] = Absent]
    /\ Return("VOID")
    /\ UNCHANGED <<memory_handler_id, device_live>>

\* Mutant: a range that ends where the memory ends is refused.
RangeChecksShort(m, offset, size) ==
    /\ memory_map[m] # Absent
    /\ memory_map[m].is_mapped
    /\ Plus(offset, MappedSize(memory_map[m].size, offset, size)) < memory_map[m].size

\* FlushMappedMemoryRanges and InvalidateMappedMemoryRanges run the same checks
\* on each range in turn, give up with one error code, and change nothing.
RangeChecks(m, offset, size) ==
    /\ memory_map[m] # Absent
    /\ memory_map[m].is_mapped
    /\ Plus(offset, MappedSize(memory_map[m].size, offset, size)) =< memory_map[m].size

FlushOrInvalidate(ranges) ==
    /\ device_live
    /\ Return(IF \A r \in ranges : RangeChecks(r.memory, r.offset, r.size)
              THEN "SUCCESS" ELSE "ERROR_MEMORY_MAP_FAILED")
    /\ UNCHANGED <<device_live, memoryVars>>

\* Mutant: the map is cleared before the free loop.
ForgetAllMemory ==
    /\ memory_map' = [m \in Memory |-> Absent]
    /\ mapping' = [m \in Memory |-> Absent]
    /\ UNCHANGED <<memory_handler_id, heap>>

\* Every block goes back to malloc and the map is cleared.
FreeAllMemory ==
    /\ heap' = heap \ BlocksOf(Memory)
    /\ memory_map' = [m \in Memory |-> Absent]
    /\ mapping' = [m \in Memory |-> Absent]
    /\ UNCHANGED memory_handler_id

DestroyDevice ==
    /\ device_live
    /\ device_live' = FALSE
    /\ FreeAllMemory
    /\ Return("VOID")

\* Calls on a device the driver no longer has.
DeviceLost ==
    /\ ~device_live
    /\ Return("ERROR_DEVICE_LOST")
    /\ UNCHANGED memoryState

MappedRange == [memory : Memory, offset : Offsets, size : RangeSizes]

MemoryCall ==
    \/ \E size \in AllocationSizes : AllocateMemory(size)
    \/ \E m \in Memory, offset \in Offsets, size \in RangeSizes : MapMemory(m, offset, size)
    \/ \E m \in Memory : UnmapMemory(m)
    \/ \E m \in Memory : FreeMemory(m)
    \/ \E r, s \in MappedRange : FlushOrInvalidate({r, s})
    \/ DeviceLost

MemoryNext == MemoryCall \/ DestroyDevice

MemorySpec == MemoryInit /\ [][MemoryNext]_<<memoryState, ret>>

-----------------------------------------------------------------------------
(* Properties *)

MemoryTypeOK ==
    /\ device_live \in BOOLEAN
    /\ memory_map \in [Memory -> MemoryObject \cup {Absent}]
    /\ memory_handler_id \in 1 .. MaxMemory + 1
    /\ heap \in SUBSET Address
    /\ mapping \in [Memory -> HostRange \cup {Absent}]
    /\ ret \in Result

\* Every block malloc handed out belongs to exactly one VkDeviceMemory: no
\* sequence of allocations, frees and DestroyDevice leaks a block, frees one
\* twice, or lets two memory objects share one, although malloc reuses addresses
\* (AllocateMemory, FreeMemory and the free loop of DestroyDevice).
BlocksOwned ==
    /\ heap = BlocksOf(Memory)
    /\ \A m, n \in Memories : memory_map[m].mapped_ptr = memory_map[n].mapped_ptr => m = n

\* Inside, as numbers, unless the sum is one that VkDeviceSize cannot hold.
EndsInside(offset, size, total) == offset + size < SizeModulus => offset + size =< total

\* A range MapMemory gave the application stays inside a live allocation until
\* it is unmapped: "off set + size cannot be grater than memory size always"
\* (MapMemory's comment).  It begins inside in every case, and ends inside but
\* for an offset and a size that add up to 2^64 or more, which nothing checks.
MappingInside ==
    \A m \in Memory : mapping[m] # Absent =>
        /\ memory_map[m] # Absent
        /\ memory_map[m].is_mapped
        /\ mapping[m].offset < memory_map[m].size
        /\ EndsInside(mapping[m].offset, mapping[m].size, memory_map[m].size)

\* What MapMemory granted, FlushMappedMemoryRanges and
\* InvalidateMappedMemoryRanges accept, by its size or as VK_WHOLE_SIZE: the
\* three calls agree on which ranges of a memory are good, sums that wrap included.
MappedRangeFlushable ==
    \A m \in Memory : mapping[m] # Absent =>
        /\ RangeChecks(m, mapping[m].offset, mapping[m].size)
        /\ RangeChecks(m, mapping[m].offset, VK_WHOLE_SIZE)

\* A memory call that reports an error has changed nothing: AllocateMemory and
\* MapMemory return early from the middle, after the object is built.
FailedCallChangesNothing ==
    [][ret' \notin {"SUCCESS", "VOID"} => UNCHANGED memoryVars]_<<memoryState, ret>>

StatusOf(map, next_id) ==
    [h \in DOMAIN map |-> IF map[h] # Absent THEN "live"
                          ELSE IF h < next_id THEN "dead" ELSE "unused"]

MemoryHandles == INSTANCE HandleTable WITH
    Handle <- Memory, status <- StatusOf(memory_map, memory_handler_id)

\* A VkDeviceMemory handle names one allocation and never another, whatever is
\* freed and whichever calls fail: memory_handler_id only grows.
MemoryHandlesNeverReused == MemoryHandles!Spec

=============================================================================
