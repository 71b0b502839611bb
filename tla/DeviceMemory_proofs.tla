------------------------ MODULE DeviceMemory_proofs ------------------------
(***************************************************************************)
(* Proofs about DeviceMemory, for every size of the machine word, every    *)
(* set of requests and every number of handles.                            *)
(*                                                                         *)
(* The argument: handles from memory_handler_id on are not in the map      *)
(* (FreshHandles), so an allocation overwrites no entry and the blocks of  *)
(* the map stay exactly those malloc has handed out.                       *)
(***************************************************************************)
EXTENDS DeviceMemory, TLAPS

\* No handle is in the map before memory_handler_id has counted it.
FreshHandles == \A m \in Memory : m >= memory_handler_id => memory_map[m] = Absent

OwnershipInv == MemoryTypeOK /\ FreshHandles /\ BlocksOwned

-----------------------------------------------------------------------------
(* Unsigned arithmetic *)

LEMMA MinusInRange ==
    ASSUME NEW a \in VkDeviceSize, NEW b \in VkDeviceSize
    PROVE  /\ Minus(a, b) \in VkDeviceSize
           /\ b =< a => Minus(a, b) = a - b
BY SizeAssumption DEF Minus, VkDeviceSize

LEMMA MappedSizeInRange ==
    ASSUME NEW total \in VkDeviceSize, NEW offset \in VkDeviceSize, NEW size \in VkDeviceSize
    PROVE  MappedSize(total, offset, size) \in VkDeviceSize
BY MinusInRange DEF MappedSize

LEMMA AbsentIsNoObject ==
    /\ \A object \in MemoryObject : object # Absent
    /\ \A range \in HostRange : range # Absent
BY AbsentAssumption

-----------------------------------------------------------------------------
(* Types and ownership *)

LEMMA OwnershipInit == MemoryInit => OwnershipInv
<1> SUFFICES ASSUME MemoryInit PROVE OwnershipInv
    OBVIOUS
<1>1. MemoryTypeOK
    BY SizeAssumption DEF MemoryInit, MemoryTypeOK, Memory, Result
<1>2. FreshHandles
    BY DEF MemoryInit, FreshHandles
<1>3. BlocksOwned
    BY DEF MemoryInit, BlocksOwned, BlocksOf, Memories
<1> QED BY <1>1, <1>2, <1>3 DEF OwnershipInv

LEMMA OwnershipStep == OwnershipInv /\ [MemoryNext]_<<memoryState, ret>> => OwnershipInv'
<1> SUFFICES ASSUME OwnershipInv, [MemoryNext]_<<memoryState, ret>>
             PROVE  OwnershipInv'
    OBVIOUS
<1> USE DEF OwnershipInv
<1>1. ASSUME NEW size \in AllocationSizes, AllocateMemory(size)
      PROVE  OwnershipInv'
    <2>1. CASE UNCHANGED memoryVars
        <3>1. ret' \in Result
            BY <1>1 DEF AllocateMemory, Return, Result
        <3> QED
            BY <1>1, <2>1, <3>1 DEF AllocateMemory, MemoryTypeOK, FreshHandles, BlocksOwned,
                BlocksOf, Memories, memoryVars
    <2>2. CASE ~UNCHANGED memoryVars
        <3>1. PICK block \in Address \ heap :
                /\ heap' = heap \cup {block}
                /\ memory_map' = [memory_map EXCEPT ![memory_handler_id] = NewMemory(size, block)]
                /\ memory_handler_id' = memory_handler_id + 1
                /\ ret' = "SUCCESS"
                /\ UNCHANGED mapping
            BY <1>1, <2>2 DEF AllocateMemory, Return, NextMemory
        <3>2. /\ device_live' = device_live
              /\ memory_handler_id \in Memory
              /\ memory_map[memory_handler_id] = Absent
            BY <1>1, SizeAssumption DEF AllocateMemory, MemoryTypeOK, Memory, FreshHandles
        <3>3. /\ NewMemory(size, block) \in MemoryObject
              /\ NewMemory(size, block) # Absent
              /\ NewMemory(size, block).mapped_ptr = block
            BY SizeAssumption, AbsentIsNoObject DEF NewMemory, MemoryObject
        <3>4. MemoryTypeOK'
            BY <3>1, <3>2, <3>3, SizeAssumption DEF MemoryTypeOK, Memory, Result
        <3>5. FreshHandles'
            BY <3>1, <3>2, SizeAssumption DEF FreshHandles, MemoryTypeOK, Memory
        <3>6. Memories' = Memories \cup {memory_handler_id} /\ memory_handler_id \notin Memories
            BY <3>1, <3>2, <3>3 DEF Memories, MemoryTypeOK
        <3>7. \A m \in Memories : memory_map'[m] = memory_map[m]
            BY <3>1, <3>6 DEF Memories, MemoryTypeOK
        <3>8. memory_map'[memory_handler_id].mapped_ptr = block
            BY <3>1, <3>2, <3>3 DEF MemoryTypeOK
        <3>9. BlocksOwned'
            BY <3>1, <3>6, <3>7, <3>8 DEF BlocksOwned, BlocksOf, Memories
        <3> QED BY <3>4, <3>5, <3>9
    <2> QED BY <2>1, <2>2
<1>2. ASSUME NEW m \in Memory, NEW offset \in Offsets, NEW size \in RangeSizes,
             MapMemory(m, offset, size)
      PROVE  OwnershipInv'
    <2>1. CASE UNCHANGED <<memory_map, mapping>>
        <3>1. ret' \in Result
            BY <1>2 DEF MapMemory, Return, Result
        <3> QED
            BY <1>2, <2>1, <3>1 DEF MapMemory, MemoryTypeOK, FreshHandles, BlocksOwned,
                BlocksOf, Memories
    <2>2. CASE ~UNCHANGED <<memory_map, mapping>>
        <3>1. /\ memory_map[m] # Absent
              /\ memory_map' = [memory_map EXCEPT ![m].is_mapped = TRUE]
              /\ mapping' = [mapping EXCEPT ![m] =
                   [offset |-> offset, size |-> MappedSize(memory_map[m].size, offset, size)]]
              /\ ret' = "SUCCESS"
              /\ UNCHANGED <<memory_handler_id, heap, device_live>>
            BY <1>2, <2>2 DEF MapMemory, MapChecks, Return
        <3>2. memory_map[m] \in MemoryObject
            BY <3>1 DEF MemoryTypeOK
        <3>3. [memory_map[m] EXCEPT !.is_mapped = TRUE] \in MemoryObject
            BY <3>2 DEF MemoryObject
        <3>4. MappedSize(memory_map[m].size, offset, size) \in VkDeviceSize
            BY <3>2, MappedSizeInRange, SizeAssumption DEF MemoryObject
        <3>5. MemoryTypeOK'
            BY <3>1, <3>3, <3>4, SizeAssumption DEF MemoryTypeOK, HostRange, Result
        <3>6. FreshHandles'
            BY <3>1 DEF FreshHandles, MemoryTypeOK
        <3>7. Memories' = Memories
            BY <3>1, <3>3, AbsentIsNoObject DEF Memories, MemoryTypeOK
        <3>8. \A n \in Memories : memory_map'[n].mapped_ptr = memory_map[n].mapped_ptr
            BY <3>1, <3>2 DEF Memories, MemoryTypeOK, MemoryObject
        <3>9. BlocksOwned'
            BY <3>1, <3>7, <3>8 DEF BlocksOwned, BlocksOf, Memories
        <3> QED BY <3>5, <3>6, <3>9
    <2> QED BY <2>1, <2>2
<1>3. ASSUME NEW m \in Memory, UnmapMemory(m)
      PROVE  OwnershipInv'
    <2> DEFINE after == IF memory_map[m] = Absent THEN Absent
                        ELSE [memory_map[m] EXCEPT !.is_mapped = FALSE]
    <2>1. /\ memory_map' = [memory_map EXCEPT ![m] = after]
          /\ mapping' = [mapping EXCEPT ![m] = Absent]
          /\ ret' = "VOID"
          /\ UNCHANGED <<memory_handler_id, heap, device_live>>
        BY <1>3 DEF UnmapMemory, Return
    <2>2. /\ memory_map[m] = Absent => after = Absent
          /\ memory_map[m] # Absent => /\ after \in MemoryObject
                                       /\ after # Absent
                                       /\ after.mapped_ptr = memory_map[m].mapped_ptr
        BY AbsentIsNoObject DEF MemoryTypeOK, MemoryObject
    <2> HIDE DEF after
    <2>3. MemoryTypeOK'
        BY <2>1, <2>2 DEF MemoryTypeOK, Result
    <2>4. FreshHandles'
        BY <2>1, <2>2 DEF FreshHandles, MemoryTypeOK
    <2>5. Memories' = Memories
        BY <2>1, <2>2 DEF Memories, MemoryTypeOK
    <2>6. \A n \in Memories : memory_map'[n].mapped_ptr = memory_map[n].mapped_ptr
        BY <2>1, <2>2 DEF Memories, MemoryTypeOK
    <2>7. BlocksOwned'
        BY <2>1, <2>5, <2>6 DEF BlocksOwned, BlocksOf, Memories
    <2> QED BY <2>3, <2>4, <2>7
<1>4. ASSUME NEW m \in Memory, FreeMemory(m)
      PROVE  OwnershipInv'
    <2>1. /\ heap' = heap \ BlocksOf({m})
          /\ memory_map' = [memory_map EXCEPT ![m] = Absent]
          /\ mapping' = [mapping EXCEPT ![m] = Absent]
          /\ ret' = "VOID"
          /\ UNCHANGED <<memory_handler_id, device_live>>
        BY <1>4 DEF FreeMemory, Return
    <2>2. MemoryTypeOK'
        BY <2>1 DEF MemoryTypeOK, Result
    <2>3. FreshHandles'
        BY <2>1 DEF FreshHandles, MemoryTypeOK
    <2>4. Memories' = Memories \ {m}
        BY <2>1 DEF Memories, MemoryTypeOK
    <2>5. \A n \in Memories \ {m} : memory_map'[n] = memory_map[n]
        BY <2>1 DEF Memories, MemoryTypeOK
    <2>6. BlocksOwned'
        BY <2>1, <2>4, <2>5 DEF BlocksOwned, BlocksOf, Memories
    <2> QED BY <2>2, <2>3, <2>6
<1>5. ASSUME NEW r \in MappedRange, NEW s \in MappedRange, FlushOrInvalidate({r, s})
      PROVE  OwnershipInv'
    <2>1. ret' \in Result
        BY <1>5 DEF FlushOrInvalidate, Return, Result
    <2> QED
        BY <1>5, <2>1 DEF FlushOrInvalidate, memoryVars, MemoryTypeOK, FreshHandles,
            BlocksOwned, BlocksOf, Memories
<1>6. CASE DeviceLost
    BY <1>6 DEF DeviceLost, Return, memoryState, memoryVars, MemoryTypeOK, Result,
        FreshHandles, BlocksOwned, BlocksOf, Memories
<1>7. CASE DestroyDevice
    <2>1. /\ heap' = heap \ BlocksOf(Memory)
          /\ memory_map' = [m \in Memory |-> Absent]
          /\ mapping' = [m \in Memory |-> Absent]
          /\ ret' = "VOID"
          /\ device_live' = FALSE
          /\ UNCHANGED memory_handler_id
        BY <1>7 DEF DestroyDevice, FreeAllMemory, Return
    <2>2. MemoryTypeOK'
        BY <2>1 DEF MemoryTypeOK, Result
    <2>3. FreshHandles'
        BY <2>1 DEF FreshHandles
    <2>4. BlocksOwned'
        BY <2>1 DEF BlocksOwned, BlocksOf, Memories
    <2> QED BY <2>2, <2>3, <2>4
<1>8. CASE UNCHANGED <<memoryState, ret>>
    BY <1>8 DEF memoryState, memoryVars, MemoryTypeOK, FreshHandles, BlocksOwned, BlocksOf,
        Memories
<1> QED
    BY <1>1, <1>2, <1>3, <1>4, <1>5, <1>6, <1>7, <1>8 DEF MemoryNext, MemoryCall

THEOREM OwnershipInvariant == MemorySpec => []OwnershipInv
BY OwnershipInit, OwnershipStep, PTL DEF MemorySpec

\* Every reachable state of a device's memory is well typed: in particular the
\* sizes stay in VkDeviceSize and the counter within the handles issued.
THEOREM MemoryTypeCorrect == MemorySpec => []MemoryTypeOK
<1>1. OwnershipInv => MemoryTypeOK
    BY DEF OwnershipInv
<1> QED BY <1>1, OwnershipInvariant, PTL

\* No sequence of memory calls leaks a block, frees one twice or shares one.
THEOREM BlocksAreOwned == MemorySpec => []BlocksOwned
<1>1. OwnershipInv => BlocksOwned
    BY DEF OwnershipInv
<1> QED BY <1>1, OwnershipInvariant, PTL

-----------------------------------------------------------------------------
(* Mapped ranges *)

\* A comparison of the 64-bit sum with a total is one of the numbers, but for a
\* sum that wraps.
LEMMA ChecksBoundTheRange ==
    ASSUME NEW offset \in VkDeviceSize, NEW size \in VkDeviceSize, NEW total \in VkDeviceSize,
           Plus(offset, size) =< total
    PROVE  EndsInside(offset, size, total)
BY SizeAssumption DEF EndsInside, Plus, VkDeviceSize

\* What MapMemory checked of a range holds for as long as the range is mapped:
\* the inductive form of MappingInside.
MappingGranted ==
    \A m \in Memory : mapping[m] # Absent =>
        /\ memory_map[m] # Absent
        /\ memory_map[m].is_mapped
        /\ mapping[m].offset < memory_map[m].size
        /\ Plus(mapping[m].offset, mapping[m].size) =< memory_map[m].size

LEMMA MappingStep ==
    OwnershipInv /\ MappingGranted /\ [MemoryNext]_<<memoryState, ret>> => MappingGranted'
<1> SUFFICES ASSUME OwnershipInv, MappingGranted, [MemoryNext]_<<memoryState, ret>>
             PROVE  MappingGranted'
    OBVIOUS
<1>1. MemoryTypeOK /\ FreshHandles
    BY DEF OwnershipInv
<1>2. ASSUME NEW size \in AllocationSizes, AllocateMemory(size)
      PROVE  MappingGranted'
    <2>1. CASE UNCHANGED memoryVars
        BY <2>1 DEF MappingGranted, memoryVars
    <2>2. CASE ~UNCHANGED memoryVars
        <3>1. PICK block \in Address \ heap :
                /\ memory_map' = [memory_map EXCEPT ![memory_handler_id] = NewMemory(size, block)]
                /\ UNCHANGED mapping
            BY <1>2, <2>2 DEF AllocateMemory, NextMemory
        <3>2. memory_handler_id \in Memory /\ memory_map[memory_handler_id] = Absent
            BY <1>1, <1>2, SizeAssumption DEF AllocateMemory, MemoryTypeOK, Memory, FreshHandles
        <3>3. mapping[memory_handler_id] = Absent
            BY <3>2 DEF MappingGranted
        <3> QED
            BY <1>1, <3>1, <3>2, <3>3 DEF MappingGranted, MemoryTypeOK
    <2> QED BY <2>1, <2>2
<1>3. ASSUME NEW m \in Memory, NEW offset \in Offsets, NEW size \in RangeSizes,
             MapMemory(m, offset, size)
      PROVE  MappingGranted'
    <2>1. CASE UNCHANGED <<memory_map, mapping>>
        BY <2>1 DEF MappingGranted
    <2>2. CASE ~UNCHANGED <<memory_map, mapping>>
        <3> DEFINE granted == MappedSize(memory_map[m].size, offset, size)
        <3>1. /\ memory_map[m] # Absent
              /\ offset < memory_map[m].size
              /\ Plus(offset, granted) =< memory_map[m].size
              /\ memory_map' = [memory_map EXCEPT ![m].is_mapped = TRUE]
              /\ mapping' = [mapping EXCEPT ![m] = [offset |-> offset, size |-> granted]]
            BY <1>3, <2>2 DEF MapMemory, MapChecks
        <3>2. memory_map[m] \in MemoryObject
            BY <1>1, <3>1 DEF MemoryTypeOK
        <3> HIDE DEF granted
        <3>4. /\ memory_map'[m].is_mapped
              /\ memory_map'[m].size = memory_map[m].size
              /\ memory_map'[m] \in MemoryObject
            BY <1>1, <3>1, <3>2 DEF MemoryTypeOK, MemoryObject
        <3>5. memory_map'[m] # Absent
            BY <3>4, AbsentIsNoObject
        <3>6. \A n \in Memory \ {m} : memory_map'[n] = memory_map[n] /\ mapping'[n] = mapping[n]
            BY <1>1, <3>1 DEF MemoryTypeOK
        <3>7. mapping'[m].offset = offset /\ mapping'[m].size = granted
            BY <1>1, <3>1 DEF MemoryTypeOK
        <3> QED
            BY <3>1, <3>4, <3>5, <3>6, <3>7 DEF MappingGranted
    <2> QED BY <2>1, <2>2
<1>4. ASSUME NEW m \in Memory, UnmapMemory(m)
      PROVE  MappingGranted'
    BY <1>1, <1>4 DEF UnmapMemory, MappingGranted, MemoryTypeOK
<1>5. ASSUME NEW m \in Memory, FreeMemory(m)
      PROVE  MappingGranted'
    BY <1>1, <1>5 DEF FreeMemory, MappingGranted, MemoryTypeOK
<1>6. ASSUME NEW r \in MappedRange, NEW s \in MappedRange, FlushOrInvalidate({r, s})
      PROVE  MappingGranted'
    BY <1>6 DEF FlushOrInvalidate, memoryVars, MappingGranted
<1>7. CASE DeviceLost
    BY <1>7 DEF DeviceLost, memoryState, memoryVars, MappingGranted
<1>8. CASE DestroyDevice
    BY <1>8 DEF DestroyDevice, FreeAllMemory, MappingGranted
<1>9. CASE UNCHANGED <<memoryState, ret>>
    BY <1>9 DEF memoryState, memoryVars, MappingGranted
<1> QED
    BY <1>2, <1>3, <1>4, <1>5, <1>6, <1>7, <1>8, <1>9 DEF MemoryNext, MemoryCall

LEMMA MappingInvariant == MemorySpec => []MappingGranted
<1>1. MemoryInit => MappingGranted
    BY DEF MemoryInit, MappingGranted
<1> QED BY <1>1, OwnershipInvariant, MappingStep, PTL DEF MemorySpec

LEMMA GrantedTypes ==
    ASSUME OwnershipInv, MappingGranted, NEW m \in Memory, mapping[m] # Absent
    PROVE  /\ memory_map[m].size \in VkDeviceSize
           /\ mapping[m].offset \in VkDeviceSize /\ mapping[m].size \in VkDeviceSize
<1>1. memory_map[m] \in MemoryObject /\ mapping[m] \in HostRange
    BY DEF OwnershipInv, MemoryTypeOK, MappingGranted
<1> QED BY <1>1 DEF MemoryObject, HostRange

LEMMA GrantedRanges == OwnershipInv /\ MappingGranted => MappingInside /\ MappedRangeFlushable
<1>1. OwnershipInv /\ MappingGranted => MappingInside
    BY GrantedTypes, ChecksBoundTheRange DEF MappingGranted, MappingInside
<1>2. ASSUME OwnershipInv, MappingGranted, NEW m \in Memory, mapping[m] # Absent
      PROVE  /\ RangeChecks(m, mapping[m].offset, mapping[m].size)
             /\ RangeChecks(m, mapping[m].offset, VK_WHOLE_SIZE)
    <2>1. /\ memory_map[m] # Absent /\ memory_map[m].is_mapped
          /\ mapping[m].offset < memory_map[m].size
          /\ Plus(mapping[m].offset, mapping[m].size) =< memory_map[m].size
        BY <1>2 DEF MappingGranted
    <2>2. /\ memory_map[m].size \in VkDeviceSize
          /\ mapping[m].offset \in VkDeviceSize /\ mapping[m].size \in VkDeviceSize
        BY <1>2, GrantedTypes
    <2>3. Minus(memory_map[m].size, mapping[m].offset) = memory_map[m].size - mapping[m].offset
        BY <2>1, <2>2, SizeAssumption DEF Minus, VkDeviceSize
    <2>4. Plus(mapping[m].offset, Minus(memory_map[m].size, mapping[m].offset))
            =< memory_map[m].size
        BY <2>2, <2>3, SizeAssumption DEF Plus, VkDeviceSize
    <2> QED BY <2>1, <2>4 DEF RangeChecks, MappedSize
<1> QED BY <1>1, <1>2 DEF MappedRangeFlushable

\* MapMemory never grants a range that begins outside its allocation, nor one that
\* ends outside but by a sum that wraps, and the range stays good until it is
\* unmapped: for every word size and whatever an application asks for.
THEOREM MappingsStayInside == MemorySpec => []MappingInside
BY GrantedRanges, OwnershipInvariant, MappingInvariant, PTL

\* What MapMemory grants, the flush and invalidate calls accept, for every word
\* size and every request, those that wrap included.
THEOREM MappedRangesFlushable == MemorySpec => []MappedRangeFlushable
BY GrantedRanges, OwnershipInvariant, MappingInvariant, PTL

-----------------------------------------------------------------------------
(* Failing calls and the handle table *)

\* Every call that reports an error leaves the memory objects, the counter, the
\* heap and the mappings as they were.
THEOREM FailuresChangeNothing == MemorySpec => FailedCallChangesNothing
<1> DEFINE Quiet == ret' \notin {"SUCCESS", "VOID"} => UNCHANGED memoryVars
<1>1. [MemoryNext]_<<memoryState, ret>> => [Quiet]_<<memoryState, ret>>
    <2> SUFFICES ASSUME MemoryNext PROVE Quiet
        BY DEF memoryState
    <2>1. ASSUME NEW size \in AllocationSizes, AllocateMemory(size) PROVE Quiet
        BY <2>1 DEF AllocateMemory, Return
    <2>2. ASSUME NEW m \in Memory, NEW offset \in Offsets, NEW size \in RangeSizes,
                 MapMemory(m, offset, size)
          PROVE  Quiet
        BY <2>2 DEF MapMemory, Return, memoryVars
    <2>3. ASSUME NEW m \in Memory, UnmapMemory(m) PROVE Quiet
        BY <2>3 DEF UnmapMemory, Return
    <2>4. ASSUME NEW m \in Memory, FreeMemory(m) PROVE Quiet
        BY <2>4 DEF FreeMemory, Return
    <2>5. ASSUME NEW r \in MappedRange, NEW s \in MappedRange, FlushOrInvalidate({r, s})
          PROVE  Quiet
        BY <2>5 DEF FlushOrInvalidate
    <2>6. CASE DeviceLost
        BY <2>6 DEF DeviceLost, memoryState
    <2>7. CASE DestroyDevice
        BY <2>7 DEF DestroyDevice, Return
    <2> QED
        BY <2>1, <2>2, <2>3, <2>4, <2>5, <2>6, <2>7 DEF MemoryNext, MemoryCall
<1> QED BY <1>1, PTL DEF MemorySpec, FailedCallChangesNothing

LEMMA MemoryStatusInit == MemoryInit => MemoryHandles!Init
BY SizeAssumption DEF MemoryInit, MemoryHandles!Init, StatusOf, Memory

LEMMA StatusStep ==
    OwnershipInv /\ [MemoryNext]_<<memoryState, ret>>
        => [MemoryHandles!Next]_(StatusOf(memory_map, memory_handler_id))
<1> SUFFICES ASSUME OwnershipInv, [MemoryNext]_<<memoryState, ret>>
             PROVE  [MemoryHandles!Next]_(StatusOf(memory_map, memory_handler_id))
    OBVIOUS
<1> DEFINE status == StatusOf(memory_map, memory_handler_id)
<1>1. /\ MemoryTypeOK /\ FreshHandles
      /\ DOMAIN memory_map = Memory
      /\ memory_handler_id \in Nat
      /\ Memory \subseteq Nat
    BY SizeAssumption DEF OwnershipInv, MemoryTypeOK, Memory
<1>2. status = [h \in Memory |-> IF memory_map[h] # Absent THEN "live"
                                 ELSE IF h < memory_handler_id THEN "dead" ELSE "unused"]
    BY <1>1 DEF StatusOf
<1>3. OwnershipInv'
    BY OwnershipStep
<1>4. status' = [h \in Memory |-> IF memory_map'[h] # Absent THEN "live"
                                  ELSE IF h < memory_handler_id' THEN "dead" ELSE "unused"]
    <2>1. DOMAIN memory_map' = Memory
        BY <1>3 DEF OwnershipInv, MemoryTypeOK
    <2> QED BY <2>1 DEF StatusOf
<1> HIDE DEF status
<1>5. ASSUME NEW size \in AllocationSizes, AllocateMemory(size), ~UNCHANGED memoryVars
      PROVE  MemoryHandles!Create(memory_handler_id) /\ memory_handler_id \in Memory
    <2>1. PICK block \in Address \ heap :
            /\ memory_map' = [memory_map EXCEPT ![memory_handler_id] = NewMemory(size, block)]
            /\ memory_handler_id' = memory_handler_id + 1
        BY <1>5 DEF AllocateMemory, NextMemory
    <2>2. memory_handler_id \in Memory /\ memory_map[memory_handler_id] = Absent
        BY <1>1, <1>5, SizeAssumption DEF AllocateMemory, MemoryTypeOK, Memory, FreshHandles
    <2>3. NewMemory(size, block) # Absent
        BY SizeAssumption, AbsentIsNoObject DEF NewMemory, MemoryObject
    <2>4. status[memory_handler_id] = "unused"
        BY <1>1, <1>2, <2>2
    <2>5. \A h \in Memory \ {memory_handler_id} :
            memory_map'[h] = memory_map[h] /\ (h < memory_handler_id' <=> h < memory_handler_id)
        BY <1>1, <2>1 DEF MemoryTypeOK
    <2>6. memory_map'[memory_handler_id] # Absent
        BY <1>1, <2>1, <2>2, <2>3
    <2>7. status' = [status EXCEPT ![memory_handler_id] = "live"]
        BY <1>2, <1>4, <2>5, <2>6
    <2> QED BY <2>2, <2>4, <2>7 DEF MemoryHandles!Create, status
<1>6. ASSUME NEW M \in SUBSET Memory,
             memory_map' = [m \in Memory |-> IF m \in M THEN Absent ELSE memory_map[m]],
             memory_handler_id' = memory_handler_id
      PROVE  MemoryHandles!Destroy(M \cap Memories) /\ M \cap Memories \in SUBSET Memory
    <2>1. \A h \in M \cap Memories : status[h] = "live"
        BY <1>2 DEF Memories
    <2>2. \A h \in M \cap Memories : h < memory_handler_id
        BY <1>1 DEF Memories, FreshHandles
    <2>3. status' = [h \in Memory |-> IF h \in M \cap Memories THEN "dead" ELSE status[h]]
        BY <1>2, <1>4, <1>6, <2>2 DEF Memories
    <2> QED BY <2>1, <2>3 DEF MemoryHandles!Destroy, status
<1>7. ASSUME \A m \in Memory : memory_map'[m] # Absent <=> memory_map[m] # Absent,
             memory_handler_id' = memory_handler_id
      PROVE  status' = status
    BY <1>2, <1>4, <1>7
<1>8. ASSUME NEW size \in AllocationSizes, AllocateMemory(size)
      PROVE  MemoryHandles!Next \/ status' = status
    <2>1. CASE UNCHANGED memoryVars
        BY <1>7, <2>1 DEF memoryVars
    <2> QED BY <1>5, <1>8, <2>1 DEF MemoryHandles!Next
<1>9. ASSUME NEW m \in Memory, NEW offset \in Offsets, NEW size \in RangeSizes,
             MapMemory(m, offset, size)
      PROVE  status' = status
    <2>1. CASE UNCHANGED <<memory_map, mapping>>
        BY <1>7, <1>9, <2>1 DEF MapMemory
    <2>2. CASE ~UNCHANGED <<memory_map, mapping>>
        <3>1. /\ memory_map[m] # Absent
              /\ memory_map' = [memory_map EXCEPT ![m].is_mapped = TRUE]
              /\ memory_handler_id' = memory_handler_id
            BY <1>9, <2>2 DEF MapMemory, MapChecks
        <3>2. memory_map'[m] \in MemoryObject
            BY <1>1, <3>1 DEF MemoryTypeOK, MemoryObject
        <3> QED BY <1>1, <1>7, <3>1, <3>2, AbsentIsNoObject DEF MemoryTypeOK
    <2> QED BY <2>1, <2>2
<1>10. ASSUME NEW m \in Memory, UnmapMemory(m)
       PROVE  status' = status
    <2>1. ASSUME memory_map[m] # Absent PROVE memory_map'[m] \in MemoryObject
        <3>1. memory_map[m] \in MemoryObject
            BY <1>1, <2>1 DEF MemoryTypeOK
        <3>2. memory_map'[m] = [memory_map[m] EXCEPT !.is_mapped = FALSE]
            BY <1>1, <1>10, <2>1 DEF UnmapMemory, MemoryTypeOK
        <3> QED BY <3>1, <3>2 DEF MemoryObject
    <2> QED BY <1>1, <1>7, <1>10, <2>1, AbsentIsNoObject DEF UnmapMemory, MemoryTypeOK
<1>11. ASSUME NEW m \in Memory, FreeMemory(m)
       PROVE  MemoryHandles!Next
    <2>1. memory_map' = [n \in Memory |-> IF n \in {m} THEN Absent ELSE memory_map[n]]
        BY <1>1, <1>11 DEF FreeMemory, MemoryTypeOK
    <2> QED BY <1>6, <1>11, <2>1 DEF FreeMemory, MemoryHandles!Next
<1>12. ASSUME DestroyDevice
       PROVE  MemoryHandles!Next
    <2>1. memory_map' = [n \in Memory |-> IF n \in Memory THEN Absent ELSE memory_map[n]]
        BY <1>12 DEF DestroyDevice, FreeAllMemory
    <2> QED BY <1>6, <1>12, <2>1 DEF DestroyDevice, FreeAllMemory, MemoryHandles!Next
<1>13. ASSUME NEW r \in MappedRange, NEW s \in MappedRange, FlushOrInvalidate({r, s})
       PROVE  status' = status
    BY <1>7, <1>13 DEF FlushOrInvalidate, memoryVars
<1>14. ASSUME DeviceLost \/ UNCHANGED <<memoryState, ret>>
       PROVE  status' = status
    BY <1>7, <1>14 DEF DeviceLost, memoryState, memoryVars
<1>15. MemoryHandles!Next \/ status' = status
    BY <1>8, <1>9, <1>10, <1>11, <1>12, <1>13, <1>14 DEF MemoryNext, MemoryCall
<1> QED BY <1>15 DEF status

\* The memory objects of a device implement HandleTable: a VkDeviceMemory handle
\* that was destroyed is never handed out again.
THEOREM MemoryImplementsHandleTable == MemorySpec => MemoryHandlesNeverReused
BY MemoryStatusInit, OwnershipInvariant, StatusStep, PTL
    DEF MemorySpec, MemoryHandlesNeverReused, MemoryHandles!Spec

=============================================================================
