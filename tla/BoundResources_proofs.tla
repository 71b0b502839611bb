----------------------- MODULE BoundResources_proofs -----------------------
(***************************************************************************)
(* Proofs about BoundResources, and about BufferViews, which extends it.   *)
(* The argument: a resource is bound to a handle that has been counted     *)
(* (BindingsTyped), and no handle is counted twice; so the memory found    *)
(* under the handle the application bound is the memory it bound, with the *)
(* size and block the check looked at.  While its entry stays, its object  *)
(* stays where it is and no other object is put there.                     *)
(***************************************************************************)
EXTENDS BufferViews, DeviceMemory_proofs

\* Each memory has its object, and no two share one; what the application has
\* bound was counted, and is there as long as the application holds it.
BindingsTyped ==
    /\ memory_objects \in [Memory -> ObjectAddress \cup {Absent}]
    /\ app_buffer_memory \in [Buffer -> Memory \cup {Absent}]
    /\ app_image_memory \in [Image -> Memory \cup {Absent}]
    /\ \A m \in Memory : memory_objects[m] = Absent <=> memory_map[m] = Absent
    /\ \A m, n \in Memory :
         memory_objects[m] = memory_objects[n] /\ memory_objects[m] # Absent => m = n
    /\ \A b \in Buffer : app_buffer_memory[b] # Absent =>
         buffers[b] # Absent /\ app_buffer_memory[b] < memory_handler_id
    /\ \A i \in Image : app_image_memory[i] # Absent =>
         chain_images[i] # Absent /\ app_image_memory[i] < memory_handler_id

\* No buffer or image is in its map before its handle has been counted.
FreshResources ==
    /\ \A b \in Buffer : b >= buffer_handler_id => buffers[b] = Absent
    /\ \A i \in Image : i >= image_handler_id => chain_images[i] = Absent

ResourceInv ==
    /\ OwnershipInv
    /\ TypeOK
    /\ BindingsTyped
    /\ FreshResources

-----------------------------------------------------------------------------
(* What the memory calls do to memories that were there before *)

\* A memory under a handle counted before has kept its size and its block.
MemoriesKept ==
    /\ device_live' = device_live
    /\ memory_handler_id' >= memory_handler_id
    /\ \A m \in Memories' : m < memory_handler_id =>
         /\ m \in Memories
         /\ memory_map'[m].size = memory_map[m].size
         /\ memory_map'[m].mapped_ptr = memory_map[m].mapped_ptr

LEMMA MemoryCallKeeps == OwnershipInv /\ MemoryCall => OwnershipInv' /\ MemoriesKept
<1> SUFFICES ASSUME OwnershipInv, MemoryCall PROVE OwnershipInv' /\ MemoriesKept
    OBVIOUS
<1>1. OwnershipInv'
    BY OwnershipStep DEF MemoryNext
<1>2. /\ MemoryTypeOK /\ FreshHandles
      /\ memory_handler_id \in Nat /\ Memory \subseteq Nat
    BY SizeAssumption DEF OwnershipInv, MemoryTypeOK, Memory
<1>3. ASSUME UNCHANGED <<device_live, memory_map, memory_handler_id>> PROVE MemoriesKept
    BY <1>2, <1>3 DEF MemoriesKept, Memories
<1>4. ASSUME NEW size \in AllocationSizes, AllocateMemory(size) PROVE MemoriesKept
    <2>1. CASE UNCHANGED memoryVars
        BY <1>3, <1>4, <2>1 DEF AllocateMemory, memoryVars
    <2>2. CASE ~UNCHANGED memoryVars
        <3>1. PICK block \in Address \ heap :
                /\ memory_map' = [memory_map EXCEPT ![memory_handler_id] = NewMemory(size, block)]
                /\ memory_handler_id' = memory_handler_id + 1
                /\ device_live' = device_live
            BY <1>4, <2>2 DEF AllocateMemory, NextMemory
        <3>2. \A m \in Memory : m < memory_handler_id => memory_map'[m] = memory_map[m]
            BY <1>2, <3>1 DEF MemoryTypeOK
        <3> QED BY <1>2, <3>1, <3>2 DEF MemoriesKept, Memories
    <2> QED BY <2>1, <2>2
<1>5. ASSUME NEW m \in Memory, NEW offset \in Offsets, NEW size \in RangeSizes,
             MapMemory(m, offset, size)
      PROVE  MemoriesKept
    <2>1. CASE UNCHANGED <<memory_map, mapping>>
        BY <1>3, <1>5, <2>1 DEF MapMemory
    <2>2. CASE ~UNCHANGED <<memory_map, mapping>>
        <3>1. /\ memory_map[m] # Absent
              /\ memory_map' = [memory_map EXCEPT ![m].is_mapped = TRUE]
              /\ UNCHANGED <<memory_handler_id, device_live>>
            BY <1>5, <2>2 DEF MapMemory, MapChecks
        <3>2. memory_map[m] \in MemoryObject
            BY <1>2, <3>1 DEF MemoryTypeOK
        <3>3. \A n \in Memories : /\ memory_map'[n].size = memory_map[n].size
                                  /\ memory_map'[n].mapped_ptr = memory_map[n].mapped_ptr
            BY <1>2, <3>1, <3>2 DEF Memories, MemoryTypeOK, MemoryObject
        <3>4. Memories' \subseteq Memories
            BY <1>2, <3>1 DEF Memories, MemoryTypeOK
        <3> QED BY <1>2, <3>1, <3>3, <3>4 DEF MemoriesKept
    <2> QED BY <2>1, <2>2
<1>6. ASSUME NEW m \in Memory, UnmapMemory(m) PROVE MemoriesKept
    <2> DEFINE after == IF memory_map[m] = Absent THEN Absent
                        ELSE [memory_map[m] EXCEPT !.is_mapped = FALSE]
    <2>1. /\ memory_map' = [memory_map EXCEPT ![m] = after]
          /\ UNCHANGED <<memory_handler_id, device_live>>
        BY <1>6 DEF UnmapMemory
    <2>2. /\ memory_map[m] = Absent => after = Absent
          /\ memory_map[m] # Absent => /\ after.size = memory_map[m].size
                                       /\ after.mapped_ptr = memory_map[m].mapped_ptr
        BY <1>2 DEF MemoryTypeOK, MemoryObject
    <2> HIDE DEF after
    <2>3. Memories' \subseteq Memories
        BY <1>2, <2>1, <2>2 DEF Memories, MemoryTypeOK
    <2>4. \A n \in Memories : /\ memory_map'[n].size = memory_map[n].size
                              /\ memory_map'[n].mapped_ptr = memory_map[n].mapped_ptr
        BY <1>2, <2>1, <2>2 DEF Memories, MemoryTypeOK
    <2> QED BY <1>2, <2>1, <2>3, <2>4 DEF MemoriesKept
<1>7. ASSUME NEW m \in Memory, FreeMemory(m) PROVE MemoriesKept
    BY <1>2, <1>7 DEF FreeMemory, MemoriesKept, Memories, MemoryTypeOK
<1>8. ASSUME NEW r \in MappedRange, NEW s \in MappedRange, FlushOrInvalidate({r, s})
      PROVE  MemoriesKept
    BY <1>3, <1>8 DEF FlushOrInvalidate, memoryVars
<1>9. CASE DeviceLost
    BY <1>1, <1>3, <1>9 DEF DeviceLost, memoryState, memoryVars
<1> QED
    BY <1>1, <1>4, <1>5, <1>6, <1>7, <1>8, <1>9 DEF MemoryCall

LEMMA NothingKeeps ==
    ASSUME OwnershipInv, UNCHANGED memoryState, ret' \in Result
    PROVE  OwnershipInv' /\ MemoriesKept
BY SizeAssumption DEF memoryState, memoryVars, OwnershipInv, MemoryTypeOK, FreshHandles,
    BlocksOwned, BlocksOf, Memories, MemoriesKept, Memory

LEMMA ResultsOfResources ==
    {"SUCCESS", "VOID", "ERROR_DEVICE_LOST", "ERROR_MEMORY_MAP_FAILED",
     "ERROR_OUT_OF_DEVICE_MEMORY"} \subseteq Result
BY DEF Result

\* Every step keeps the memories or destroys the device.
LEMMA StepKeeps ==
    OwnershipInv /\ TypeOK /\ [Next]_vars =>
        OwnershipInv' /\ (MemoriesKept \/ DestroyDeviceAndResources)
<1> SUFFICES ASSUME OwnershipInv, TypeOK, [Next]_vars
             PROVE  OwnershipInv' /\ (MemoriesKept \/ DestroyDeviceAndResources)
    OBVIOUS
<1>0. ret \in Result
    BY DEF TypeOK, MemoryTypeOK
<1>1. ASSUME NEW size \in BufferSizes, CreateBuffer(size)
      PROVE  UNCHANGED memoryState /\ ret' \in Result
    BY <1>1, ResultsOfResources DEF CreateBuffer, Return
<1>2. ASSUME NEW b \in Buffer, DestroyBuffer(b)
      PROVE  UNCHANGED memoryState /\ ret' \in Result
    BY <1>2, ResultsOfResources DEF DestroyBuffer, Return
<1>3. ASSUME NEW b \in Buffer, NEW m \in Memory, NEW offset \in Offsets,
             BindBufferMemory(b, m, offset)
      PROVE  UNCHANGED memoryState /\ ret' \in Result
    BY <1>3, ResultsOfResources DEF BindBufferMemory, Return
<1>4. CreateImage => UNCHANGED memoryState /\ ret' \in Result
    BY ResultsOfResources DEF CreateImage, Return
<1>5. ASSUME NEW i \in Image, DestroyImage(i)
      PROVE  UNCHANGED memoryState /\ ret' \in Result
    BY <1>5, ResultsOfResources DEF DestroyImage, Return
<1>6. ASSUME NEW i \in Image, NEW m \in Memory, NEW offset \in Offsets,
             BindImageMemory(i, m, offset)
      PROVE  UNCHANGED memoryState /\ ret' \in Result
    BY <1>6, ResultsOfResources DEF BindImageMemory, Return
<1>7. InstanceMagicChanges => UNCHANGED memoryState /\ ret' \in Result
    BY <1>0 DEF InstanceMagicChanges
<1>8. UNCHANGED vars => UNCHANGED memoryState /\ ret' \in Result
    BY <1>0 DEF vars
<1>9. CASE UNCHANGED memoryState /\ ret' \in Result
    BY <1>9, NothingKeeps
<1>10. CASE MemoryCall
    BY <1>10, MemoryCallKeeps
<1>11. CASE DestroyDeviceAndResources
    BY <1>11, OwnershipStep DEF DestroyDeviceAndResources, MemoryNext
<1> QED
    BY <1>1, <1>2, <1>3, <1>4, <1>5, <1>6, <1>7, <1>8, <1>9, <1>10, <1>11
        DEF Next, MemoryCallOfDevice

\* Every step keeps the objects of the memories that stay, or destroys the device.
LEMMA ObjectsStep ==
    [Next]_vars => \/ UNCHANGED <<memoryState, memory_objects>>
                   \/ MemoryCallOfDevice
                   \/ DestroyDeviceAndResources
BY DEF Next, CreateBuffer, DestroyBuffer, BindBufferMemory, CreateImage, DestroyImage,
    BindImageMemory, InstanceMagicChanges, vars, bindingVars

-----------------------------------------------------------------------------
(* Types and handles of the resources *)

LEMMA NewBufferTyped ==
    ASSUME NEW size \in BufferSizes, NEW host \in HostBuffer \cup {VK_NULL_HANDLE}
    PROVE  /\ NewBuffer(size, host) \in BufferObject
           /\ NewBuffer(size, host) # Absent
           /\ NewBuffer(size, host).size = size
           /\ NewBuffer(size, host).dispatch_handle = host
BY SizeAssumption, ResourceAssumption DEF NewBuffer, BufferObject, VkDeviceSize

LEMMA HandleRanges ==
    ASSUME TypeOK
    PROVE  /\ memory_handler_id \in Nat /\ buffer_handler_id \in Nat /\ image_handler_id \in Nat
           /\ memory_handler_id > 0
           /\ Memory \subseteq Nat /\ Buffer \subseteq Nat /\ Image \subseteq Nat
BY SizeAssumption, ResourceAssumption DEF TypeOK, MemoryTypeOK, Memory, Buffer, Image

\* The variables of the buffers and of the images, without the memories'.
BuffersTyped ==
    /\ buffers \in [Buffer -> BufferObject \cup {Absent}]
    /\ buffer_handler_id \in 1 .. MaxBuffer + 1
    /\ host_buffers \in SUBSET HostBuffer
    /\ \A b \in Buffer : b >= buffer_handler_id => buffers[b] = Absent

ImagesTyped ==
    /\ chain_images \in [Image -> ImageObject \cup {Absent}]
    /\ image_handler_id \in 1 .. MaxImage + 1
    /\ \A i \in Image : i >= image_handler_id => chain_images[i] = Absent

LEMMA ResourceInvParts ==
    ResourceInv <=> /\ OwnershipInv /\ instance_found \in BOOLEAN
                    /\ BuffersTyped /\ ImagesTyped /\ BindingsTyped
BY DEF ResourceInv, OwnershipInv, TypeOK, BindingsTyped, FreshResources,
    BuffersTyped, ImagesTyped

LEMMA BuffersTypedStep ==
    ASSUME ResourceInv, [Next]_vars
    PROVE  BuffersTyped'
<1>1. /\ BuffersTyped /\ OwnershipInv /\ BindingsTyped
      /\ buffer_handler_id \in Nat /\ Buffer \subseteq Nat
    BY ResourceInvParts, HandleRanges DEF ResourceInv
<1>2. ASSUME NEW size \in BufferSizes, CreateBuffer(size) PROVE BuffersTyped'
    <2>1. CASE UNCHANGED bufferVars
        BY <1>1, <2>1 DEF bufferVars, BuffersTyped
    <2>2. CASE ~UNCHANGED bufferVars
        <3>1. PICK host \in (HostBuffer \ host_buffers) \cup {VK_NULL_HANDLE} :
                /\ host_buffers' = host_buffers \cup ({host} \ {VK_NULL_HANDLE})
                /\ buffers' = [buffers EXCEPT ![buffer_handler_id] = NewBuffer(size, host)]
                /\ buffer_handler_id =< MaxBuffer
                /\ buffer_handler_id' = buffer_handler_id + 1
            BY <1>2, <2>2 DEF CreateBuffer, NextBuffer
        <3>2. buffer_handler_id \in Buffer
            BY <1>1, <3>1, ResourceAssumption DEF Buffer, BuffersTyped
        <3>3. /\ buffers' \in [Buffer -> BufferObject \cup {Absent}]
              /\ buffer_handler_id' \in 1 .. MaxBuffer + 1
              /\ host_buffers' \in SUBSET HostBuffer
            BY <1>1, <3>1, <3>2, NewBufferTyped, ResourceAssumption DEF BuffersTyped, Buffer
        <3>4. \A b \in Buffer : b >= buffer_handler_id' => buffers'[b] = Absent
            BY <1>1, <3>1 DEF BuffersTyped
        <3> QED BY <3>3, <3>4 DEF BuffersTyped
    <2> QED BY <2>1, <2>2
<1>3. ASSUME NEW b \in Buffer, DestroyBuffer(b) PROVE BuffersTyped'
    BY <1>1, <1>3 DEF DestroyBuffer, BuffersTyped
<1>4. ASSUME NEW b \in Buffer, NEW m \in Memory, NEW offset \in Offsets,
             BindBufferMemory(b, m, offset)
      PROVE  BuffersTyped'
    <2>1. CASE UNCHANGED buffers
        BY <1>1, <1>4, <2>1 DEF BindBufferMemory, BuffersTyped
    <2>2. CASE ~UNCHANGED buffers
        <3> DEFINE bound == [buffers[b] EXCEPT !.bound_memory = memory_objects[m],
                                               !.bound_offset = offset,
                                               !.mapped_ptr = memory_map[m].mapped_ptr]
        <3>1. /\ buffers[b] # Absent /\ memory_map[m] # Absent
              /\ buffers' = [buffers EXCEPT ![b] = bound]
              /\ UNCHANGED <<buffer_handler_id, host_buffers>>
            BY <1>4, <2>2 DEF BindBufferMemory
        <3>2. /\ buffers[b] \in BufferObject /\ memory_map[m] \in MemoryObject
              /\ memory_objects[m] \in ObjectAddress \cup {Absent}
            BY <1>1, <3>1 DEF BuffersTyped, BindingsTyped, OwnershipInv, MemoryTypeOK
        <3>3. bound \in BufferObject
            BY <3>2, SizeAssumption DEF BufferObject, MemoryObject
        <3> HIDE DEF bound
        <3> QED BY <1>1, <3>1, <3>3 DEF BuffersTyped
    <2> QED BY <2>1, <2>2
<1>5. CASE DestroyDeviceAndResources
    BY <1>1, <1>5 DEF DestroyDeviceAndResources, BuffersTyped
<1>6. ASSUME \/ MemoryCallOfDevice
             \/ CreateImage
             \/ \E i \in Image : DestroyImage(i)
             \/ \E i \in Image, m \in Memory, offset \in Offsets : BindImageMemory(i, m, offset)
             \/ InstanceMagicChanges
             \/ UNCHANGED vars
      PROVE  BuffersTyped'
    <2>1. UNCHANGED bufferVars
        BY <1>6 DEF MemoryCallOfDevice, CreateImage, DestroyImage, BindImageMemory,
            InstanceMagicChanges, vars
    <2> QED BY <1>1, <2>1 DEF bufferVars, BuffersTyped
<1> QED
    BY <1>2, <1>3, <1>4, <1>5, <1>6 DEF Next

LEMMA ImagesTypedStep ==
    ASSUME ResourceInv, [Next]_vars
    PROVE  ImagesTyped'
<1>1. /\ ImagesTyped /\ OwnershipInv /\ BindingsTyped
      /\ image_handler_id \in Nat /\ Image \subseteq Nat
    BY ResourceInvParts, HandleRanges DEF ResourceInv
<1>2. CASE CreateImage
    <2> DEFINE new == [bound_memory |-> Absent, memory_offset |-> 0, mapped_ptr |-> Absent]
    <2>1. /\ chain_images' = [chain_images EXCEPT ![image_handler_id] = new]
          /\ image_handler_id =< MaxImage
          /\ image_handler_id' = image_handler_id + 1
        BY <1>2 DEF CreateImage
    <2>2. new \in ImageObject
        BY SizeAssumption DEF ImageObject, VkDeviceSize
    <2> HIDE DEF new
    <2>3. image_handler_id \in Image
        BY <1>1, <2>1, ResourceAssumption DEF Image, ImagesTyped
    <2>4. /\ chain_images' \in [Image -> ImageObject \cup {Absent}]
          /\ image_handler_id' \in 1 .. MaxImage + 1
        BY <1>1, <2>1, <2>2, ResourceAssumption DEF ImagesTyped, Image
    <2>5. \A i \in Image : i >= image_handler_id' => chain_images'[i] = Absent
        BY <1>1, <2>1 DEF ImagesTyped
    <2> QED BY <2>4, <2>5 DEF ImagesTyped
<1>3. ASSUME NEW i \in Image, DestroyImage(i) PROVE ImagesTyped'
    BY <1>1, <1>3 DEF DestroyImage, ImagesTyped
<1>4. ASSUME NEW i \in Image, NEW m \in Memory, NEW offset \in Offsets,
             BindImageMemory(i, m, offset)
      PROVE  ImagesTyped'
    <2>1. CASE UNCHANGED chain_images
        BY <1>1, <1>4, <2>1 DEF BindImageMemory, ImagesTyped
    <2>2. CASE ~UNCHANGED chain_images
        <3> DEFINE bound == [bound_memory |-> memory_objects[m], memory_offset |-> offset,
                             mapped_ptr |-> memory_map[m].mapped_ptr]
        <3>1. /\ chain_images[i] # Absent /\ memory_map[m] # Absent
              /\ chain_images' = [chain_images EXCEPT ![i] = bound]
              /\ UNCHANGED image_handler_id
            BY <1>4, <2>2 DEF BindImageMemory
        <3>2. /\ memory_map[m] \in MemoryObject
              /\ memory_objects[m] \in ObjectAddress \cup {Absent}
            BY <1>1, <3>1 DEF BindingsTyped, OwnershipInv, MemoryTypeOK
        <3>3. bound \in ImageObject
            BY <3>2, SizeAssumption DEF ImageObject, MemoryObject
        <3> HIDE DEF bound
        <3> QED BY <1>1, <3>1, <3>3 DEF ImagesTyped
    <2> QED BY <2>1, <2>2
<1>5. CASE DestroyDeviceAndResources
    BY <1>1, <1>5 DEF DestroyDeviceAndResources, ImagesTyped
<1>6. ASSUME \/ MemoryCallOfDevice
             \/ \E size \in BufferSizes : CreateBuffer(size)
             \/ \E b \in Buffer : DestroyBuffer(b)
             \/ \E b \in Buffer, m \in Memory, offset \in Offsets : BindBufferMemory(b, m, offset)
             \/ InstanceMagicChanges
             \/ UNCHANGED vars
      PROVE  ImagesTyped'
    <2>1. UNCHANGED imageVars
        BY <1>6 DEF MemoryCallOfDevice, CreateBuffer, DestroyBuffer, BindBufferMemory,
            InstanceMagicChanges, vars
    <2> QED BY <1>1, <2>1 DEF imageVars, ImagesTyped
<1> QED
    BY <1>2, <1>3, <1>4, <1>5, <1>6 DEF Next

-----------------------------------------------------------------------------
(* What the application has bound *)

\* b has just been bound to m: its size stays and the check was made.
BufferRebound(b, m, offset) ==
    /\ b \in Buffers /\ m \in Memories
    /\ UNCHANGED <<memory_map, memory_objects>>
    /\ BindBufferFits(b, m, offset)
    /\ buffers'[b] # Absent
    /\ buffers'[b].size = buffers[b].size
    /\ buffers'[b].bound_memory = memory_objects[m]
    /\ buffers'[b].bound_offset = offset
    /\ buffers'[b].mapped_ptr = memory_map[m].mapped_ptr
    /\ app_buffer_memory'[b] = m

\* i has just been bound to m.
ImageRebound(i, m, offset) ==
    /\ m \in Memories
    /\ UNCHANGED <<memory_map, memory_objects>>
    /\ BindImageFits(m, offset)
    /\ chain_images'[i] = [bound_memory |-> memory_objects[m], memory_offset |-> offset,
                           mapped_ptr |-> memory_map[m].mapped_ptr]
    /\ chain_images'[i] # Absent
    /\ app_image_memory'[i] = m

LEMMA BufferAfterStep ==
    ASSUME ResourceInv, [Next]_vars, NEW b \in Buffer, app_buffer_memory'[b] # Absent
    PROVE  \/ /\ app_buffer_memory'[b] = app_buffer_memory[b]
              /\ buffers[b] # Absent /\ buffers'[b] = buffers[b]
           \/ \E m \in Memory, offset \in Offsets : BufferRebound(b, m, offset)
<1>1. /\ buffers \in [Buffer -> BufferObject \cup {Absent}]
      /\ app_buffer_memory \in [Buffer -> Memory \cup {Absent}]
      /\ app_buffer_memory[b] # Absent => buffers[b] # Absent
    BY DEF ResourceInv, TypeOK, BindingsTyped
<1>2. CASE UNCHANGED <<buffers, app_buffer_memory>>
    BY <1>1, <1>2
<1>3. ASSUME NEW size \in BufferSizes, CreateBuffer(size), ~UNCHANGED buffers
      PROVE  /\ app_buffer_memory'[b] = app_buffer_memory[b]
             /\ buffers[b] # Absent /\ buffers'[b] = buffers[b]
    <2>1. PICK host \in (HostBuffer \ host_buffers) \cup {VK_NULL_HANDLE} :
            buffers' = [buffers EXCEPT ![buffer_handler_id] = NewBuffer(size, host)]
        BY <1>3 DEF CreateBuffer, NextBuffer, bufferVars
    <2>2. app_buffer_memory' = app_buffer_memory /\ buffers[b] # Absent
        BY <1>1, <1>3 DEF CreateBuffer, bindingVars
    <2>3. b # buffer_handler_id
        BY <2>2, HandleRanges DEF ResourceInv, FreshResources
    <2> QED BY <1>1, <2>1, <2>2, <2>3
<1>4. ASSUME NEW c \in Buffer, DestroyBuffer(c)
      PROVE  /\ app_buffer_memory'[b] = app_buffer_memory[b]
             /\ buffers[b] # Absent /\ buffers'[b] = buffers[b]
    BY <1>1, <1>4 DEF DestroyBuffer
<1>5. ASSUME NEW c \in Buffer, NEW m \in Memory, NEW offset \in Offsets,
             BindBufferMemory(c, m, offset), ~UNCHANGED <<buffers, app_buffer_memory>>
      PROVE  \/ /\ app_buffer_memory'[b] = app_buffer_memory[b]
                /\ buffers[b] # Absent /\ buffers'[b] = buffers[b]
             \/ BufferRebound(b, m, offset)
    <2> DEFINE bound == [buffers[c] EXCEPT !.bound_memory = memory_objects[m],
                                           !.bound_offset = offset,
                                           !.mapped_ptr = memory_map[m].mapped_ptr]
    <2>1. /\ buffers[c] # Absent /\ memory_map[m] # Absent
          /\ BindBufferFits(c, m, offset)
          /\ buffers' = [buffers EXCEPT ![c] = bound]
          /\ app_buffer_memory' = [app_buffer_memory EXCEPT ![c] = m]
          /\ UNCHANGED <<memory_map, memory_objects>>
        BY <1>5 DEF BindBufferMemory, memoryState, memoryVars
    <2>2. CASE b # c
        BY <1>1, <2>1, <2>2
    <2>3. CASE b = c
        <3>1. /\ buffers[c] \in BufferObject /\ memory_map[m] \in MemoryObject
              /\ memory_objects[m] \in ObjectAddress \cup {Absent}
            BY <1>1, <2>1 DEF ResourceInv, OwnershipInv, MemoryTypeOK, BindingsTyped
        <3>2. /\ bound \in BufferObject
              /\ bound.size = buffers[c].size /\ bound.bound_memory = memory_objects[m]
              /\ bound.bound_offset = offset /\ bound.mapped_ptr = memory_map[m].mapped_ptr
            BY <3>1, SizeAssumption DEF BufferObject, MemoryObject
        <3>3. bound # Absent
            BY <3>2, ResourceAssumption
        <3> HIDE DEF bound
        <3> QED BY <1>1, <2>1, <2>3, <3>2, <3>3 DEF BufferRebound, Buffers, Memories
    <2> QED BY <2>2, <2>3
<1>6. CASE DestroyDeviceAndResources
    BY <1>6 DEF DestroyDeviceAndResources
<1>7. ASSUME \/ MemoryCallOfDevice
             \/ CreateImage
             \/ \E i \in Image : DestroyImage(i)
             \/ \E i \in Image, m \in Memory, offset \in Offsets : BindImageMemory(i, m, offset)
             \/ InstanceMagicChanges
             \/ UNCHANGED vars
      PROVE  UNCHANGED <<buffers, app_buffer_memory>>
    BY <1>7 DEF MemoryCallOfDevice, CreateImage, DestroyImage, BindImageMemory,
        InstanceMagicChanges, vars, bufferVars, bindingVars
<1>8. ASSUME NEW size \in BufferSizes, CreateBuffer(size)
      PROVE  UNCHANGED app_buffer_memory
    BY <1>8 DEF CreateBuffer, bindingVars
<1> QED
    BY <1>2, <1>3, <1>4, <1>5, <1>6, <1>7, <1>8 DEF Next

LEMMA ImageAfterStep ==
    ASSUME ResourceInv, [Next]_vars, NEW i \in Image, app_image_memory'[i] # Absent
    PROVE  \/ /\ app_image_memory'[i] = app_image_memory[i]
              /\ chain_images[i] # Absent /\ chain_images'[i] = chain_images[i]
           \/ \E m \in Memory, offset \in Offsets : ImageRebound(i, m, offset)
<1>1. /\ chain_images \in [Image -> ImageObject \cup {Absent}]
      /\ app_image_memory \in [Image -> Memory \cup {Absent}]
      /\ app_image_memory[i] # Absent => chain_images[i] # Absent
    BY DEF ResourceInv, TypeOK, BindingsTyped
<1>2. CASE UNCHANGED <<chain_images, app_image_memory>>
    BY <1>1, <1>2
<1>3. ASSUME CreateImage
      PROVE  /\ app_image_memory'[i] = app_image_memory[i]
             /\ chain_images[i] # Absent /\ chain_images'[i] = chain_images[i]
    <2>1. app_image_memory' = app_image_memory /\ chain_images[i] # Absent
        BY <1>1, <1>3 DEF CreateImage, bindingVars
    <2>2. i # image_handler_id
        BY <2>1, HandleRanges DEF ResourceInv, FreshResources
    <2> QED BY <1>1, <1>3, <2>1, <2>2 DEF CreateImage
<1>4. ASSUME NEW c \in Image, DestroyImage(c)
      PROVE  /\ app_image_memory'[i] = app_image_memory[i]
             /\ chain_images[i] # Absent /\ chain_images'[i] = chain_images[i]
    BY <1>1, <1>4 DEF DestroyImage
<1>5. ASSUME NEW c \in Image, NEW m \in Memory, NEW offset \in Offsets,
             BindImageMemory(c, m, offset), ~UNCHANGED <<chain_images, app_image_memory>>
      PROVE  \/ /\ app_image_memory'[i] = app_image_memory[i]
                /\ chain_images[i] # Absent /\ chain_images'[i] = chain_images[i]
             \/ ImageRebound(i, m, offset)
    <2> DEFINE bound == [bound_memory |-> memory_objects[m], memory_offset |-> offset,
                         mapped_ptr |-> memory_map[m].mapped_ptr]
    <2>1. /\ memory_map[m] # Absent
          /\ BindImageFits(m, offset)
          /\ chain_images[c] # Absent
          /\ chain_images' = [chain_images EXCEPT ![c] = bound]
          /\ app_image_memory' = [app_image_memory EXCEPT ![c] = m]
          /\ UNCHANGED <<memory_map, memory_objects>>
        BY <1>5 DEF BindImageMemory, memoryState, memoryVars
    <2>2. CASE i # c
        BY <1>1, <2>1, <2>2
    <2>3. CASE i = c
        <3>1. /\ memory_map[m] \in MemoryObject
              /\ memory_objects[m] \in ObjectAddress \cup {Absent}
            BY <2>1 DEF ResourceInv, OwnershipInv, MemoryTypeOK, BindingsTyped
        <3>2. bound \in ImageObject
            BY <3>1, SizeAssumption DEF ImageObject, MemoryObject
        <3>3. chain_images'[i] = bound /\ bound # Absent
            BY <1>1, <2>1, <2>3, <3>2, ResourceAssumption
        <3> QED BY <1>1, <2>1, <2>3, <3>3 DEF ImageRebound, Memories
    <2> QED BY <2>2, <2>3
<1>6. CASE DestroyDeviceAndResources
    BY <1>6 DEF DestroyDeviceAndResources
<1>7. ASSUME \/ MemoryCallOfDevice
             \/ \E size \in BufferSizes : CreateBuffer(size)
             \/ \E b \in Buffer : DestroyBuffer(b)
             \/ \E b \in Buffer, m \in Memory, offset \in Offsets : BindBufferMemory(b, m, offset)
             \/ InstanceMagicChanges
             \/ UNCHANGED vars
      PROVE  UNCHANGED <<chain_images, app_image_memory>>
    BY <1>7 DEF MemoryCallOfDevice, CreateBuffer, DestroyBuffer, BindBufferMemory,
        InstanceMagicChanges, vars, imageVars, bindingVars
<1> QED
    BY <1>2, <1>3, <1>4, <1>5, <1>6, <1>7 DEF Next

\* The application's record of what it bound only takes handles of memories.
LEMMA RecordsTyped ==
    ASSUME ResourceInv, [Next]_vars
    PROVE  /\ app_buffer_memory' \in [Buffer -> Memory \cup {Absent}]
           /\ app_image_memory' \in [Image -> Memory \cup {Absent}]
<1>1. /\ app_buffer_memory \in [Buffer -> Memory \cup {Absent}]
      /\ app_image_memory \in [Image -> Memory \cup {Absent}]
    BY DEF ResourceInv, BindingsTyped
<1>2. ASSUME NEW b \in Buffer, NEW m \in Memory, NEW offset \in Offsets,
             BindBufferMemory(b, m, offset)
      PROVE  /\ app_buffer_memory' \in [Buffer -> Memory \cup {Absent}]
             /\ UNCHANGED app_image_memory
    BY <1>1, <1>2 DEF BindBufferMemory
<1>3. ASSUME NEW i \in Image, NEW m \in Memory, NEW offset \in Offsets,
             BindImageMemory(i, m, offset)
      PROVE  /\ app_image_memory' \in [Image -> Memory \cup {Absent}]
             /\ UNCHANGED app_buffer_memory
    BY <1>1, <1>3 DEF BindImageMemory
<1>4. ASSUME NEW b \in Buffer, DestroyBuffer(b)
      PROVE  /\ app_buffer_memory' \in [Buffer -> Memory \cup {Absent}]
             /\ UNCHANGED app_image_memory
    BY <1>1, <1>4 DEF DestroyBuffer
<1>5. ASSUME NEW i \in Image, DestroyImage(i)
      PROVE  /\ app_image_memory' \in [Image -> Memory \cup {Absent}]
             /\ UNCHANGED app_buffer_memory
    BY <1>1, <1>5 DEF DestroyImage
<1>6. ASSUME DestroyDeviceAndResources
      PROVE  /\ app_buffer_memory' \in [Buffer -> Memory \cup {Absent}]
             /\ app_image_memory' \in [Image -> Memory \cup {Absent}]
    BY <1>6 DEF DestroyDeviceAndResources
<1>7. ASSUME \/ MemoryCallOfDevice
             \/ CreateImage
             \/ \E size \in BufferSizes : CreateBuffer(size)
             \/ InstanceMagicChanges
             \/ UNCHANGED vars
      PROVE  UNCHANGED <<app_buffer_memory, app_image_memory>>
    BY <1>7 DEF MemoryCallOfDevice, CreateImage, CreateBuffer, InstanceMagicChanges, vars,
        bindingVars
<1> QED
    BY <1>1, <1>2, <1>3, <1>4, <1>5, <1>6, <1>7 DEF Next

LEMMA BindingsTypedStep ==
    ASSUME ResourceInv, OwnershipInv', [Next]_vars
    PROVE  BindingsTyped'
<1>1. BindingsTyped /\ OwnershipInv /\ memory_handler_id \in Nat /\ Memory \subseteq Nat
    BY HandleRanges DEF ResourceInv
<1>2. CASE DestroyDeviceAndResources
    BY <1>2, ResourceAssumption DEF DestroyDeviceAndResources, DestroyDevice, FreeAllMemory,
        BindingsTyped
<1>3. CASE ~DestroyDeviceAndResources
    <2>1. MemoriesKept
        BY <1>3, StepKeeps DEF ResourceInv
    <2>2. UNCHANGED <<memoryState, memory_objects>> \/ MemoryObjectsFollow
        BY <1>3, ObjectsStep DEF MemoryCallOfDevice
    <2>3. /\ memory_objects' \in [Memory -> ObjectAddress \cup {Absent}]
          /\ \A m \in Memory : memory_objects'[m] = Absent <=> memory_map'[m] = Absent
          /\ \A m, n \in Memory :
               memory_objects'[m] = memory_objects'[n] /\ memory_objects'[m] # Absent => m = n
        BY <1>1, <2>2 DEF MemoryObjectsFollow, BindingsTyped, memoryState, memoryVars
    <2>4. ASSUME NEW b \in Buffer, app_buffer_memory'[b] # Absent
          PROVE  buffers'[b] # Absent /\ app_buffer_memory'[b] < memory_handler_id'
        <3>1. memory_handler_id' \in Nat /\ memory_handler_id' >= memory_handler_id
            BY <2>1, SizeAssumption DEF MemoriesKept, OwnershipInv, MemoryTypeOK
        <3>2. CASE app_buffer_memory'[b] = app_buffer_memory[b]
                   /\ buffers[b] # Absent /\ buffers'[b] = buffers[b]
            <4>1. app_buffer_memory[b] \in Memory /\ app_buffer_memory[b] < memory_handler_id
                BY <1>1, <2>4, <3>2 DEF BindingsTyped
            <4>2. app_buffer_memory[b] \in Nat
                BY <1>1, <4>1
            <4>3. app_buffer_memory[b] < memory_handler_id'
                BY <1>1, <3>1, <4>1, <4>2
            <4> QED BY <3>2, <4>3
        <3>3. ASSUME NEW m \in Memory, NEW offset \in Offsets, BufferRebound(b, m, offset)
              PROVE  buffers'[b] # Absent /\ app_buffer_memory'[b] < memory_handler_id'
            <4>1. m < memory_handler_id
                BY <1>1, <3>3 DEF BufferRebound, Memories, OwnershipInv, FreshHandles
            <4> QED BY <1>1, <3>1, <3>3, <4>1 DEF BufferRebound
        <3> QED BY <2>4, <3>2, <3>3, BufferAfterStep
    <2>5. ASSUME NEW i \in Image, app_image_memory'[i] # Absent
          PROVE  chain_images'[i] # Absent /\ app_image_memory'[i] < memory_handler_id'
        <3>1. memory_handler_id' \in Nat /\ memory_handler_id' >= memory_handler_id
            BY <2>1, SizeAssumption DEF MemoriesKept, OwnershipInv, MemoryTypeOK
        <3>2. CASE app_image_memory'[i] = app_image_memory[i]
                   /\ chain_images[i] # Absent /\ chain_images'[i] = chain_images[i]
            <4>1. app_image_memory[i] \in Memory /\ app_image_memory[i] < memory_handler_id
                BY <1>1, <2>5, <3>2 DEF BindingsTyped
            <4>2. app_image_memory[i] \in Nat
                BY <1>1, <4>1
            <4>3. app_image_memory[i] < memory_handler_id'
                BY <1>1, <3>1, <4>1, <4>2
            <4> QED BY <3>2, <4>3
        <3>3. ASSUME NEW m \in Memory, NEW offset \in Offsets, ImageRebound(i, m, offset)
              PROVE  chain_images'[i] # Absent /\ app_image_memory'[i] < memory_handler_id'
            <4>1. m < memory_handler_id
                BY <1>1, <3>3 DEF ImageRebound, Memories, OwnershipInv, FreshHandles
            <4> QED BY <1>1, <3>1, <3>3, <4>1 DEF ImageRebound
        <3> QED BY <2>5, <3>2, <3>3, ImageAfterStep
    <2> QED BY <2>3, <2>4, <2>5, RecordsTyped DEF BindingsTyped
<1> QED BY <1>2, <1>3

LEMMA ResourceInvStep == ResourceInv /\ [Next]_vars => ResourceInv'
<1> SUFFICES ASSUME ResourceInv, [Next]_vars PROVE ResourceInv'
    OBVIOUS
<1>1. OwnershipInv' /\ instance_found \in BOOLEAN
    BY StepKeeps DEF ResourceInv, TypeOK
<1>2. instance_found' \in BOOLEAN
    BY <1>1 DEF Next, CreateBuffer, DestroyBuffer, BindBufferMemory, CreateImage, DestroyImage,
        BindImageMemory, DestroyDeviceAndResources, InstanceMagicChanges, vars, MemoryCallOfDevice
<1>3. BuffersTyped' /\ ImagesTyped' /\ BindingsTyped'
    BY <1>1, BuffersTypedStep, ImagesTypedStep, BindingsTypedStep
<1>4. ResourceInv' <=> /\ OwnershipInv' /\ instance_found' \in BOOLEAN
                       /\ BuffersTyped' /\ ImagesTyped' /\ BindingsTyped'
    BY DEF ResourceInv, OwnershipInv, TypeOK, BindingsTyped, FreshResources,
        BuffersTyped, ImagesTyped
<1> QED BY <1>1, <1>2, <1>3, <1>4

LEMMA ResourceInvInit == Init => ResourceInv
<1> SUFFICES ASSUME Init PROVE ResourceInv
    OBVIOUS
<1>1. OwnershipInv
    BY OwnershipInit DEF Init
<1>2. BuffersTyped /\ ImagesTyped /\ BindingsTyped /\ instance_found \in BOOLEAN
    BY ResourceAssumption DEF Init, MemoryInit, BuffersTyped, ImagesTyped, BindingsTyped
<1> QED BY <1>1, <1>2, ResourceInvParts

LEMMA ResourceInvariant == Spec => []ResourceInv
BY ResourceInvInit, ResourceInvStep, PTL DEF Spec

\* Buffers, images and memories stay well typed for every number of each.
THEOREM ResourceTypeCorrect == Spec => []TypeOK
<1>1. ResourceInv => TypeOK
    BY DEF ResourceInv
<1> QED BY <1>1, ResourceInvariant, PTL

-----------------------------------------------------------------------------
(* Bound resources stay inside their memory *)

\* A memory that stays keeps its size, its block and its object.
LEMMA BoundMemoryKept ==
    ASSUME ResourceInv, [Next]_vars, ~DestroyDeviceAndResources,
           NEW m \in Memories', m < memory_handler_id
    PROVE  /\ m \in Memories
           /\ memory_map'[m].size = memory_map[m].size
           /\ memory_map'[m].mapped_ptr = memory_map[m].mapped_ptr
           /\ memory_objects'[m] = memory_objects[m]
<1>1. MemoriesKept
    BY StepKeeps DEF ResourceInv
<1>2. m \in Memories /\ m \in Memory
    BY <1>1 DEF MemoriesKept, Memories
<1>3. UNCHANGED <<memoryState, memory_objects>> \/ MemoryObjectsFollow
    BY ObjectsStep DEF MemoryCallOfDevice
<1>4. memory_objects'[m] = memory_objects[m]
    BY <1>2, <1>3 DEF MemoryObjectsFollow, Memories
<1> QED BY <1>1, <1>2, <1>4 DEF MemoriesKept

\* A pointer to the object of a memory finds that memory and no other.
LEMMA ObjectPointsBack ==
    ASSUME BindingsTyped, NEW m \in Memories
    PROVE  PointsTo(memory_objects[m], m)
BY DEF BindingsTyped, PointsTo, Memories

LEMMA ObjectPointsBackPrimed ==
    ASSUME BindingsTyped', NEW m \in Memories'
    PROVE  PointsTo(memory_objects[m], m)'
BY DEF BindingsTyped, PointsTo, Memories

\* The buffer b, bound to memory m, is inside it.
BufferInside(b, m) ==
    /\ buffers[b] # Absent
    /\ buffers[b].bound_memory = memory_objects[m]
    /\ EndsInside(buffers[b].bound_offset, buffers[b].size, memory_map[m].size)
    /\ buffers[b].mapped_ptr = memory_map[m].mapped_ptr

ImageInside(i, m) ==
    /\ chain_images[i] # Absent
    /\ chain_images[i].bound_memory = memory_objects[m]
    /\ chain_images[i].memory_offset < memory_map[m].size
    /\ chain_images[i].mapped_ptr = memory_map[m].mapped_ptr

\* While addresses are one to one, to point to m is to hold its object's address.
LEMMA InsidePointwise ==
    ASSUME BindingsTyped
    PROVE  /\ BoundBuffersInside <=>
                \A b \in Buffer : app_buffer_memory[b] \in Memories =>
                    BufferInside(b, app_buffer_memory[b])
           /\ BoundImagesInside <=>
                \A i \in Image : app_image_memory[i] \in Memories =>
                    ImageInside(i, app_image_memory[i])
<1>1. ASSUME NEW m \in Memories, NEW pointer
      PROVE  PointsTo(pointer, m) <=> pointer = memory_objects[m]
    BY <1>1, ObjectPointsBack DEF PointsTo
<1> QED BY <1>1 DEF BoundBuffersInside, BoundImagesInside, BufferInside, ImageInside

LEMMA InsidePointwisePrimed ==
    ASSUME BindingsTyped'
    PROVE  /\ BoundBuffersInside' <=>
                \A b \in Buffer : app_buffer_memory'[b] \in Memories' =>
                    BufferInside(b, app_buffer_memory[b])'
           /\ BoundImagesInside' <=>
                \A i \in Image : app_image_memory'[i] \in Memories' =>
                    ImageInside(i, app_image_memory[i])'
<1>1. ASSUME NEW m \in Memories', NEW pointer
      PROVE  (\A n \in Memories' : memory_objects'[n] = pointer <=> n = m)
                <=> pointer = memory_objects'[m]
    BY <1>1 DEF BindingsTyped, Memories
<1>2. BoundBuffersInside' <=>
        \A b \in Buffer : app_buffer_memory'[b] \in Memories' =>
            BufferInside(b, app_buffer_memory[b])'
    <2>1. ASSUME NEW b \in Buffer, app_buffer_memory'[b] \in Memories'
          PROVE  PointsTo(buffers[b].bound_memory, app_buffer_memory[b])' <=>
                     buffers'[b].bound_memory = memory_objects'[app_buffer_memory'[b]]
        BY <1>1, <2>1 DEF PointsTo
    <2> QED BY <2>1 DEF BoundBuffersInside, BufferInside
<1>3. BoundImagesInside' <=>
        \A i \in Image : app_image_memory'[i] \in Memories' =>
            ImageInside(i, app_image_memory[i])'
    <2>1. ASSUME NEW i \in Image, app_image_memory'[i] \in Memories'
          PROVE  PointsTo(chain_images[i].bound_memory, app_image_memory[i])' <=>
                     chain_images'[i].bound_memory = memory_objects'[app_image_memory'[i]]
        BY <1>1, <2>1 DEF PointsTo
    <2> QED BY <2>1 DEF BoundImagesInside, ImageInside
<1> QED BY <1>2, <1>3

LEMMA BufferInsideStep ==
    ASSUME ResourceInv, BoundBuffersInside, [Next]_vars
    PROVE  BoundBuffersInside'
<1>1. ResourceInv' /\ BindingsTyped /\ BindingsTyped'
    BY ResourceInvStep DEF ResourceInv
<1> SUFFICES ASSUME NEW b \in Buffer, app_buffer_memory'[b] \in Memories'
             PROVE  BufferInside(b, app_buffer_memory[b])'
    BY <1>1, InsidePointwisePrimed
<1> DEFINE m == app_buffer_memory'[b]
<1>2. m # Absent
    BY <1>1, ResourceAssumption DEF Memories
<1>3. ~DestroyDeviceAndResources
    BY <1>2 DEF DestroyDeviceAndResources
<1>4. CASE m = app_buffer_memory[b] /\ buffers[b] # Absent /\ buffers'[b] = buffers[b]
    <2>1. m < memory_handler_id
        BY <1>1, <1>2, <1>4 DEF BindingsTyped
    <2>2. /\ m \in Memories
          /\ memory_map'[m].size = memory_map[m].size
          /\ memory_map'[m].mapped_ptr = memory_map[m].mapped_ptr
          /\ memory_objects'[m] = memory_objects[m]
        BY <1>3, <2>1, BoundMemoryKept
    <2>3. BufferInside(b, app_buffer_memory[b])
        BY <1>1, <1>4, <2>2, InsidePointwise
    <2> QED BY <1>4, <2>2, <2>3 DEF BufferInside
<1>5. ASSUME NEW n \in Memory, NEW offset \in Offsets, BufferRebound(b, n, offset)
      PROVE  BufferInside(b, app_buffer_memory[b])'
    BY <1>5 DEF BufferRebound, BufferInside, BindBufferFits, Plus, EndsInside
<1> QED
    BY <1>2, <1>4, <1>5, BufferAfterStep

\* A buffer whose memory has not been freed holds the address of that memory's
\* object and of no other's, ends inside it unless the sum of its offset and size
\* wraps, and points into its block: for every number of memories and buffers,
\* sizes, interleaving of frees, allocations and bindings, and however the
\* addresses of freed objects and blocks are used again.
THEOREM BuffersStayInside == Spec => []BoundBuffersInside
<1>1. Init => BoundBuffersInside
    BY DEF Init, MemoryInit, BoundBuffersInside, Memories
<1>2. ResourceInv /\ BoundBuffersInside /\ [Next]_vars => BoundBuffersInside'
    BY BufferInsideStep
<1> QED BY <1>1, <1>2, ResourceInvariant, PTL DEF Spec

LEMMA ImageInsideStep ==
    ASSUME ResourceInv, BoundImagesInside, [Next]_vars
    PROVE  BoundImagesInside'
<1>1. ResourceInv' /\ BindingsTyped /\ BindingsTyped'
    BY ResourceInvStep DEF ResourceInv
<1> SUFFICES ASSUME NEW i \in Image, app_image_memory'[i] \in Memories'
             PROVE  ImageInside(i, app_image_memory[i])'
    BY <1>1, InsidePointwisePrimed
<1> DEFINE m == app_image_memory'[i]
<1>2. m # Absent
    BY <1>1, ResourceAssumption DEF Memories
<1>3. ~DestroyDeviceAndResources
    BY <1>2 DEF DestroyDeviceAndResources
<1>4. CASE m = app_image_memory[i] /\ chain_images[i] # Absent /\ chain_images'[i] = chain_images[i]
    <2>1. m < memory_handler_id
        BY <1>1, <1>2, <1>4 DEF BindingsTyped
    <2>2. /\ m \in Memories
          /\ memory_map'[m].size = memory_map[m].size
          /\ memory_map'[m].mapped_ptr = memory_map[m].mapped_ptr
          /\ memory_objects'[m] = memory_objects[m]
        BY <1>3, <2>1, BoundMemoryKept
    <2>3. ImageInside(i, app_image_memory[i])
        BY <1>1, <1>4, <2>2, InsidePointwise
    <2> QED BY <1>4, <2>2, <2>3 DEF ImageInside
<1>5. ASSUME NEW n \in Memory, NEW offset \in Offsets, ImageRebound(i, n, offset)
      PROVE  ImageInside(i, app_image_memory[i])'
    <2>1. /\ chain_images'[i] # Absent /\ app_image_memory'[i] = n
          /\ chain_images'[i].bound_memory = memory_objects'[n]
          /\ chain_images'[i].memory_offset < memory_map'[n].size
          /\ chain_images'[i].mapped_ptr = memory_map'[n].mapped_ptr
        BY <1>5 DEF ImageRebound, BindImageFits
    <2> QED BY <2>1 DEF ImageInside
<1> QED
    BY <1>2, <1>4, <1>5, ImageAfterStep

\* An image whose memory has not been freed points to that memory and starts
\* inside it, however addresses are used again.
THEOREM ImagesStayInside == Spec => []BoundImagesInside
<1>1. Init => BoundImagesInside
    BY DEF Init, MemoryInit, BoundImagesInside, Memories
<1>2. ResourceInv /\ BoundImagesInside /\ [Next]_vars => BoundImagesInside'
    BY ImageInsideStep
<1> QED BY <1>1, <1>2, ResourceInvariant, PTL DEF Spec

-----------------------------------------------------------------------------
(* The host's buffers *)

Holds(b, h) == b \in Buffers /\ buffers[b].dispatch_handle = h

\* HostBuffersOwned, one host buffer at a time.
LEMMA OwnedPointwise ==
    HostBuffersOwned <=>
        (device_live =>
            /\ \A h : h \in host_buffers <=> h # VK_NULL_HANDLE /\ \E b \in Buffer : Holds(b, h)
            /\ \A b, c \in Buffer : \A h :
                 Holds(b, h) /\ Holds(c, h) /\ h # VK_NULL_HANDLE => b = c)
BY DEF HostBuffersOwned, Holds, Buffers

LEMMA OwnedPointwisePrimed ==
    HostBuffersOwned' <=>
        (device_live' =>
            /\ \A h : h \in host_buffers' <=> h # VK_NULL_HANDLE /\ \E b \in Buffer : Holds(b, h)'
            /\ \A b, c \in Buffer : \A h :
                 Holds(b, h)' /\ Holds(c, h)' /\ h # VK_NULL_HANDLE => b = c)
BY DEF HostBuffersOwned, Holds, Buffers

LEMMA HostBuffersStep ==
    ASSUME ResourceInv, HostBuffersOwned, [Next]_vars
    PROVE  HostBuffersOwned'
<1>1. /\ buffers \in [Buffer -> BufferObject \cup {Absent}]
      /\ \A b \in Buffer : b >= buffer_handler_id => buffers[b] = Absent
      /\ buffer_handler_id \in Nat
    BY HandleRanges DEF ResourceInv, TypeOK, FreshResources
<1>2. ASSUME UNCHANGED <<buffers, host_buffers, device_live>> PROVE HostBuffersOwned'
    BY <1>2 DEF HostBuffersOwned, Buffers
<1>3. ASSUME NEW size \in BufferSizes, CreateBuffer(size) PROVE HostBuffersOwned'
    <2>1. CASE UNCHANGED bufferVars
        BY <1>2, <1>3, <2>1 DEF CreateBuffer, bufferVars, memoryState
    <2>2. CASE ~UNCHANGED bufferVars
        <3>1. PICK host \in (HostBuffer \ host_buffers) \cup {VK_NULL_HANDLE} :
                /\ host_buffers' = host_buffers \cup ({host} \ {VK_NULL_HANDLE})
                /\ buffers' = [buffers EXCEPT ![buffer_handler_id] = NewBuffer(size, host)]
                /\ buffer_handler_id =< MaxBuffer
                /\ device_live /\ device_live'
            BY <1>3, <2>2 DEF CreateBuffer, NextBuffer, memoryState
        <3>2. PICK new \in Buffer : new = buffer_handler_id /\ buffers[new] = Absent
            BY <1>1, <3>1, ResourceAssumption, HandleRanges DEF Buffer, ResourceInv, TypeOK
        <3>3. \A h : Holds(new, h)' <=> h = host
            <4>1. buffers'[new] = NewBuffer(size, host)
                BY <1>1, <3>1, <3>2
            <4>2. buffers'[new] # Absent /\ buffers'[new].dispatch_handle = host
                <5>1. host \in HostBuffer \cup {VK_NULL_HANDLE}
                    BY <3>1
                <5> QED BY <4>1, <5>1, NewBufferTyped
            <4> QED BY <4>2 DEF Holds, Buffers
        <3>4. \A b \in Buffer \ {new} : \A h : Holds(b, h)' <=> Holds(b, h)
            BY <1>1, <3>1, <3>2 DEF Holds, Buffers
        <3>5. \A h : ~Holds(new, h)
            BY <3>2 DEF Holds, Buffers
        <3>6. /\ \A h : h \in host_buffers <=> h # VK_NULL_HANDLE /\ \E b \in Buffer : Holds(b, h)
              /\ \A b, c \in Buffer : \A h :
                   Holds(b, h) /\ Holds(c, h) /\ h # VK_NULL_HANDLE => b = c
            BY <3>1, OwnedPointwise
        <3>7. \A h : h \in host_buffers' <=> h # VK_NULL_HANDLE /\ \E b \in Buffer : Holds(b, h)'
            BY <3>1, <3>2, <3>3, <3>4, <3>5, <3>6
        <3>8. \A b, c \in Buffer : \A h :
                Holds(b, h)' /\ Holds(c, h)' /\ h # VK_NULL_HANDLE => b = c
            BY <3>1, <3>3, <3>4, <3>6
        <3> QED BY <3>7, <3>8, OwnedPointwisePrimed
    <2> QED BY <2>1, <2>2
<1>4. ASSUME NEW d \in Buffer, DestroyBuffer(d) PROVE HostBuffersOwned'
    <2>1. CASE ~instance_found
        BY <1>2, <1>4, <2>1 DEF DestroyBuffer, memoryState
    <2>2. CASE instance_found
        <3>1. /\ buffers[d] # Absent
              /\ host_buffers' = host_buffers \ {buffers[d].dispatch_handle}
              /\ buffers' = [buffers EXCEPT ![d] = Absent]
              /\ device_live /\ device_live'
            BY <1>4, <2>2 DEF DestroyBuffer, memoryState
        <3>2. \A b \in Buffer : \A h : Holds(b, h)' <=> b # d /\ Holds(b, h)
            BY <1>1, <3>1 DEF Holds, Buffers
        <3>3. Holds(d, buffers[d].dispatch_handle)
            BY <3>1 DEF Holds, Buffers
        <3>4. \A h : Holds(d, h) => h = buffers[d].dispatch_handle
            BY DEF Holds
        <3>5. /\ \A h : h \in host_buffers <=> h # VK_NULL_HANDLE /\ \E b \in Buffer : Holds(b, h)
              /\ \A b, c \in Buffer : \A h :
                   Holds(b, h) /\ Holds(c, h) /\ h # VK_NULL_HANDLE => b = c
            BY <3>1, OwnedPointwise
        <3>6. \A h : h \in host_buffers' <=> h # VK_NULL_HANDLE /\ \E b \in Buffer : Holds(b, h)'
            BY <3>1, <3>2, <3>3, <3>4, <3>5
        <3>7. \A b, c \in Buffer : \A h :
                Holds(b, h)' /\ Holds(c, h)' /\ h # VK_NULL_HANDLE => b = c
            BY <3>2, <3>5
        <3> QED BY <3>6, <3>7, OwnedPointwisePrimed
    <2> QED BY <2>1, <2>2
<1>5. ASSUME NEW b \in Buffer, NEW m \in Memory, NEW offset \in Offsets,
             BindBufferMemory(b, m, offset)
      PROVE  HostBuffersOwned'
    <2>1. UNCHANGED <<host_buffers, device_live>>
        BY <1>5 DEF BindBufferMemory, memoryState
    <2>2. \A c \in Buffer : \A h : Holds(c, h)' <=> Holds(c, h)
        <3>1. CASE UNCHANGED buffers
            BY <3>1 DEF Holds, Buffers
        <3>2. CASE ~UNCHANGED buffers
            <4>1. /\ buffers[b] # Absent
                  /\ buffers' = [buffers EXCEPT ![b] =
                       [@ EXCEPT !.bound_memory = memory_objects[m], !.bound_offset = offset,
                                 !.mapped_ptr = memory_map[m].mapped_ptr]]
                BY <1>5, <3>2 DEF BindBufferMemory
            <4>2. buffers[b] \in BufferObject
                BY <1>1, <4>1
            <4>3. buffers'[b].dispatch_handle = buffers[b].dispatch_handle
                BY <1>1, <4>1, <4>2 DEF BufferObject
            <4>4. buffers'[b] # Absent
                <5>1. /\ memory_map[m] \in MemoryObject
                      /\ memory_objects[m] \in ObjectAddress \cup {Absent}
                    BY <1>5, <3>2 DEF BindBufferMemory, ResourceInv, OwnershipInv, MemoryTypeOK,
                        BindingsTyped
                <5>2. buffers'[b] \in BufferObject
                    BY <1>1, <4>1, <4>2, <5>1, SizeAssumption DEF BufferObject, MemoryObject
                <5> QED BY <5>2, ResourceAssumption
            <4> QED BY <1>1, <4>1, <4>3, <4>4 DEF Holds, Buffers
        <3> QED BY <3>1, <3>2
    <2> QED BY <2>1, <2>2, OwnedPointwise, OwnedPointwisePrimed
<1>6. CASE DestroyDeviceAndResources
    BY <1>6 DEF DestroyDeviceAndResources, DestroyDevice, HostBuffersOwned
<1>7. CASE MemoryCallOfDevice
    <2>1. UNCHANGED device_live
        BY <1>7, MemoryCallKeeps DEF MemoryCallOfDevice, ResourceInv, MemoriesKept
    <2> QED BY <1>2, <1>7, <2>1 DEF MemoryCallOfDevice, bufferVars
<1>8. ASSUME \/ CreateImage
             \/ \E i \in Image : DestroyImage(i)
             \/ \E i \in Image, m \in Memory, offset \in Offsets : BindImageMemory(i, m, offset)
             \/ InstanceMagicChanges
             \/ UNCHANGED vars
      PROVE  UNCHANGED <<buffers, host_buffers, device_live>>
    BY <1>8 DEF CreateImage, DestroyImage, BindImageMemory, InstanceMagicChanges, vars,
        bufferVars, memoryState
<1> QED
    BY <1>2, <1>3, <1>4, <1>5, <1>6, <1>7, <1>8 DEF Next

\* The buffers of the host are the driver's, one to one, while the device lives.
THEOREM HostBuffersAreOwned == Spec => []HostBuffersOwned
<1>1. Init => HostBuffersOwned
    BY DEF Init, HostBuffersOwned, Buffers
<1>2. ResourceInv /\ HostBuffersOwned /\ [Next]_vars => HostBuffersOwned'
    BY HostBuffersStep
<1> QED BY <1>1, <1>2, ResourceInvariant, PTL DEF Spec

-----------------------------------------------------------------------------
(* Buffers and images implement HandleTable *)

\* A bound buffer is still one.
LEMMA BindingKeepsBuffers ==
    ASSUME ResourceInv, NEW b \in Buffer, NEW m \in Memory, NEW offset \in Offsets,
           BindBufferMemory(b, m, offset)
    PROVE  /\ \A c \in Buffer : buffers'[c] = Absent <=> buffers[c] = Absent
           /\ \A c \in Buffers : /\ buffers'[c].size = buffers[c].size
                                 /\ buffers'[c].dispatch_handle = buffers[c].dispatch_handle
<1>1. buffers \in [Buffer -> BufferObject \cup {Absent}]
    BY DEF ResourceInv, TypeOK
<1>2. CASE UNCHANGED buffers
    BY <1>2
<1>3. CASE ~UNCHANGED buffers
    <2>1. /\ buffers[b] # Absent /\ memory_map[m] # Absent
          /\ buffers' = [buffers EXCEPT ![b] =
               [@ EXCEPT !.bound_memory = memory_objects[m], !.bound_offset = offset,
                         !.mapped_ptr = memory_map[m].mapped_ptr]]
        BY <1>3 DEF BindBufferMemory
    <2>2. /\ buffers[b] \in BufferObject /\ memory_map[m] \in MemoryObject
          /\ memory_objects[m] \in ObjectAddress \cup {Absent}
        BY <1>1, <2>1 DEF ResourceInv, OwnershipInv, MemoryTypeOK, BindingsTyped
    <2>3. buffers'[b] = [buffers[b] EXCEPT !.bound_memory = memory_objects[m],
                                           !.bound_offset = offset,
                                           !.mapped_ptr = memory_map[m].mapped_ptr]
        BY <1>1, <2>1
    <2>4. /\ buffers'[b] \in BufferObject /\ buffers'[b].size = buffers[b].size
          /\ buffers'[b].dispatch_handle = buffers[b].dispatch_handle
        BY <2>2, <2>3, SizeAssumption DEF BufferObject, MemoryObject
    <2>5. buffers'[b] # Absent
        BY <2>4, ResourceAssumption
    <2>6. \A c \in Buffer \ {b} : buffers'[c] = buffers[c]
        BY <1>1, <2>1
    <2> QED BY <2>1, <2>4, <2>5, <2>6 DEF Buffers
<1> QED BY <1>2, <1>3

LEMMA BufferStatusStep ==
    ResourceInv /\ [Next]_vars =>
        [BufferHandles!Next]_(StatusOf(buffers, buffer_handler_id))
<1> SUFFICES ASSUME ResourceInv, [Next]_vars
             PROVE  [BufferHandles!Next]_(StatusOf(buffers, buffer_handler_id))
    OBVIOUS
<1> DEFINE status == StatusOf(buffers, buffer_handler_id)
<1>0. /\ DOMAIN buffers = Buffer /\ DOMAIN buffers' = Buffer /\ Buffer \subseteq Nat /\ buffer_handler_id \in Nat
      /\ \A b \in Buffer : b >= buffer_handler_id => buffers[b] = Absent
    BY HandleRanges, ResourceInvStep DEF ResourceInv, TypeOK, FreshResources
<1>1. buffers \in [Buffer -> BufferObject \cup {Absent}]
    BY DEF ResourceInv, TypeOK
<1>2. /\ status = [b \in Buffer |-> IF buffers[b] # Absent THEN "live"
                                  ELSE IF b < buffer_handler_id THEN "dead" ELSE "unused"]
      /\ status' = [b \in Buffer |-> IF buffers'[b] # Absent THEN "live"
                                   ELSE IF b < buffer_handler_id' THEN "dead" ELSE "unused"]
    BY <1>0 DEF StatusOf
<1> HIDE DEF status
<1>10. ASSUME UNCHANGED buffer_handler_id,
              \A b \in Buffer : buffers'[b] = Absent <=> buffers[b] = Absent
       PROVE  status' = status
    BY <1>2, <1>10
<1>3. ASSUME UNCHANGED buffer_handler_id, NEW D \in SUBSET Buffer,
             \A b \in D : buffers[b] # Absent,
             \A b \in Buffer : buffers'[b] = Absent <=> b \in D \/ buffers[b] = Absent
      PROVE  BufferHandles!Next
    <2>1. \A b \in D : b < buffer_handler_id /\ status[b] = "live"
        BY <1>0, <1>2, <1>3
    <2>2. status' = [b \in Buffer |-> IF b \in D THEN "dead" ELSE status[b]]
        BY <1>0, <1>2, <1>3, <2>1
    <2>3. BufferHandles!Destroy(D)
        BY <2>1, <2>2 DEF BufferHandles!Destroy, status
    <2> QED BY <2>3 DEF BufferHandles!Next
<1>4. ASSUME NEW size \in BufferSizes, CreateBuffer(size)
      PROVE  BufferHandles!Next \/ status' = status
    <2>1. CASE UNCHANGED bufferVars
        BY <1>10, <2>1 DEF bufferVars
    <2>2. CASE ~UNCHANGED bufferVars
        <3>1. PICK host \in HostBuffer \cup {VK_NULL_HANDLE} :
                /\ buffers' = [buffers EXCEPT ![buffer_handler_id] = NewBuffer(size, host)]
                /\ buffer_handler_id =< MaxBuffer
                /\ buffer_handler_id' = buffer_handler_id + 1
            BY <1>4, <2>2 DEF CreateBuffer, NextBuffer
        <3>2. buffer_handler_id \in Buffer
            BY <3>1, ResourceAssumption DEF Buffer, ResourceInv, TypeOK
        <3>3. /\ buffers'[buffer_handler_id] # Absent
              /\ \A b \in Buffer \ {buffer_handler_id} : buffers'[b] = buffers[b]
            BY <1>1, <3>1, <3>2, NewBufferTyped
        <3>4. status[buffer_handler_id] = "unused"
            BY <1>0, <1>2, <3>2
        <3>5. \A b \in Buffer \ {buffer_handler_id} :
                b < buffer_handler_id' <=> b < buffer_handler_id
            BY <1>0, <3>1
        <3>6. status' = [status EXCEPT ![buffer_handler_id] = "live"]
            BY <1>2, <3>2, <3>3, <3>5
        <3>7. BufferHandles!Create(buffer_handler_id)
            BY <3>4, <3>6 DEF BufferHandles!Create, status
        <3> QED BY <3>2, <3>7 DEF BufferHandles!Next
    <2> QED BY <2>1, <2>2
<1>5. ASSUME NEW b \in Buffer, DestroyBuffer(b)
      PROVE  BufferHandles!Next \/ status' = status
    <2>1. CASE UNCHANGED buffers
        BY <1>10, <1>5, <2>1 DEF DestroyBuffer
    <2>2. CASE ~UNCHANGED buffers
        <3>1. /\ buffers[b] # Absent /\ buffers' = [buffers EXCEPT ![b] = Absent]
              /\ UNCHANGED buffer_handler_id
            BY <1>5, <2>2 DEF DestroyBuffer
        <3>2. \A c \in Buffer : buffers'[c] = Absent <=> c \in {b} \/ buffers[c] = Absent
            BY <1>1, <3>1
        <3> QED BY <1>3, <3>1, <3>2
    <2> QED BY <2>1, <2>2
<1>6. ASSUME NEW b \in Buffer, NEW m \in Memory, NEW offset \in Offsets,
             BindBufferMemory(b, m, offset)
      PROVE  status' = status
    <2>1. UNCHANGED buffer_handler_id
        BY <1>6 DEF BindBufferMemory
    <2> QED BY <1>10, <1>6, <2>1, BindingKeepsBuffers
<1>7. CASE DestroyDeviceAndResources
    <2>1. \A b \in Buffer : buffers'[b] = Absent <=> b \in Buffers \/ buffers[b] = Absent
        BY <1>7 DEF DestroyDeviceAndResources, Buffers
    <2> QED BY <1>3, <1>7, <2>1 DEF DestroyDeviceAndResources, Buffers
<1>8. ASSUME \/ MemoryCallOfDevice
             \/ CreateImage
             \/ \E i \in Image : DestroyImage(i)
             \/ \E i \in Image, m \in Memory, offset \in Offsets : BindImageMemory(i, m, offset)
             \/ InstanceMagicChanges
             \/ UNCHANGED vars
      PROVE  status' = status
    <2>1. UNCHANGED <<buffers, buffer_handler_id>>
        BY <1>8 DEF MemoryCallOfDevice, CreateImage, DestroyImage, BindImageMemory,
            InstanceMagicChanges, vars, bufferVars
    <2> QED BY <1>10, <2>1
<1>9. BufferHandles!Next \/ status' = status
    BY <1>4, <1>5, <1>6, <1>7, <1>8 DEF Next, status
<1> QED BY <1>9 DEF status

LEMMA ImageStatusStep ==
    ResourceInv /\ [Next]_vars =>
        [ImageHandles!Next]_(StatusOf(chain_images, image_handler_id))
<1> SUFFICES ASSUME ResourceInv, [Next]_vars
             PROVE  [ImageHandles!Next]_(StatusOf(chain_images, image_handler_id))
    OBVIOUS
<1> DEFINE status == StatusOf(chain_images, image_handler_id)
<1>0. /\ DOMAIN chain_images = Image /\ DOMAIN chain_images' = Image /\ Image \subseteq Nat /\ image_handler_id \in Nat
      /\ \A i \in Image : i >= image_handler_id => chain_images[i] = Absent
    BY HandleRanges, ResourceInvStep DEF ResourceInv, TypeOK, FreshResources
<1>1. chain_images \in [Image -> ImageObject \cup {Absent}]
    BY DEF ResourceInv, TypeOK
<1>2. /\ status = [i \in Image |-> IF chain_images[i] # Absent THEN "live"
                                  ELSE IF i < image_handler_id THEN "dead" ELSE "unused"]
      /\ status' = [i \in Image |-> IF chain_images'[i] # Absent THEN "live"
                                   ELSE IF i < image_handler_id' THEN "dead" ELSE "unused"]
    BY <1>0 DEF StatusOf
<1> HIDE DEF status
<1>10. ASSUME UNCHANGED image_handler_id,
              \A i \in Image : chain_images'[i] = Absent <=> chain_images[i] = Absent
       PROVE  status' = status
    BY <1>2, <1>10
<1>3. ASSUME UNCHANGED image_handler_id, NEW D \in SUBSET Image,
             \A i \in D : chain_images[i] # Absent,
             \A i \in Image : chain_images'[i] = Absent <=> i \in D \/ chain_images[i] = Absent
      PROVE  ImageHandles!Next
    <2>1. \A i \in D : i < image_handler_id /\ status[i] = "live"
        BY <1>0, <1>2, <1>3
    <2>2. status' = [i \in Image |-> IF i \in D THEN "dead" ELSE status[i]]
        BY <1>0, <1>2, <1>3, <2>1
    <2>3. ImageHandles!Destroy(D)
        BY <2>1, <2>2 DEF ImageHandles!Destroy, status
    <2> QED BY <2>3 DEF ImageHandles!Next
<1>4. CASE CreateImage
    <2> DEFINE new == [bound_memory |-> Absent, memory_offset |-> 0, mapped_ptr |-> Absent]
    <2>1. /\ chain_images' = [chain_images EXCEPT ![image_handler_id] = new]
          /\ image_handler_id =< MaxImage
          /\ image_handler_id' = image_handler_id + 1
        BY <1>4 DEF CreateImage
    <2>2. image_handler_id \in Image
        BY <2>1, ResourceAssumption DEF Image, ResourceInv, TypeOK
    <2>3. new # Absent
        <3>1. new \in ImageObject
            BY SizeAssumption DEF ImageObject, VkDeviceSize
        <3> QED BY <3>1, ResourceAssumption
    <2> HIDE DEF new
    <2>4. /\ chain_images'[image_handler_id] # Absent
          /\ \A i \in Image \ {image_handler_id} : chain_images'[i] = chain_images[i]
        BY <1>1, <2>1, <2>2, <2>3
    <2>5. status[image_handler_id] = "unused"
        BY <1>0, <1>2, <2>2
    <2>6. \A i \in Image \ {image_handler_id} :
            i < image_handler_id' <=> i < image_handler_id
        BY <1>0, <2>1
    <2>7. status' = [status EXCEPT ![image_handler_id] = "live"]
        BY <1>2, <2>2, <2>4, <2>6
    <2>8. ImageHandles!Create(image_handler_id)
        BY <2>5, <2>7 DEF ImageHandles!Create, status
    <2> QED BY <2>2, <2>8 DEF ImageHandles!Next
<1>5. ASSUME NEW i \in Image, DestroyImage(i)
      PROVE  ImageHandles!Next \/ status' = status
    <2>1. CASE UNCHANGED chain_images
        BY <1>10, <1>5, <2>1 DEF DestroyImage
    <2>2. CASE ~UNCHANGED chain_images
        <3>1. /\ chain_images[i] # Absent /\ chain_images' = [chain_images EXCEPT ![i] = Absent]
              /\ UNCHANGED image_handler_id
            BY <1>5, <2>2 DEF DestroyImage
        <3>2. \A c \in Image :
                chain_images'[c] = Absent <=> c \in {i} \/ chain_images[c] = Absent
            BY <1>1, <3>1
        <3> QED BY <1>3, <3>1, <3>2
    <2> QED BY <2>1, <2>2
<1>6. ASSUME NEW i \in Image, NEW m \in Memory, NEW offset \in Offsets,
             BindImageMemory(i, m, offset)
      PROVE  status' = status
    <2>1. CASE UNCHANGED chain_images
        BY <1>10, <1>6, <2>1 DEF BindImageMemory
    <2>2. CASE ~UNCHANGED chain_images
        <3> DEFINE bound == [bound_memory |-> memory_objects[m], memory_offset |-> offset,
                             mapped_ptr |-> memory_map[m].mapped_ptr]
        <3>1. /\ chain_images[i] # Absent /\ memory_map[m] # Absent
              /\ chain_images' = [chain_images EXCEPT ![i] = bound]
              /\ UNCHANGED image_handler_id
            BY <1>6, <2>2 DEF BindImageMemory
        <3>2. /\ memory_map[m] \in MemoryObject
              /\ memory_objects[m] \in ObjectAddress \cup {Absent}
            BY <3>1 DEF ResourceInv, OwnershipInv, MemoryTypeOK, BindingsTyped
        <3>3. bound \in ImageObject
            BY <3>2, SizeAssumption DEF ImageObject, MemoryObject
        <3>4. bound # Absent
            BY <3>3, ResourceAssumption
        <3> HIDE DEF bound
        <3>5. \A c \in Image : chain_images'[c] = Absent <=> chain_images[c] = Absent
            BY <1>1, <3>1, <3>4
        <3> QED BY <1>10, <3>1, <3>5
    <2> QED BY <2>1, <2>2
<1>7. CASE DestroyDeviceAndResources
    <2>1. \A i \in Image : chain_images'[i] = Absent <=> i \in Images \/ chain_images[i] = Absent
        BY <1>7 DEF DestroyDeviceAndResources, Images
    <2> QED BY <1>3, <1>7, <2>1 DEF DestroyDeviceAndResources, Images
<1>8. ASSUME \/ MemoryCallOfDevice
             \/ \E size \in BufferSizes : CreateBuffer(size)
             \/ \E b \in Buffer : DestroyBuffer(b)
             \/ \E b \in Buffer, m \in Memory, offset \in Offsets : BindBufferMemory(b, m, offset)
             \/ InstanceMagicChanges
             \/ UNCHANGED vars
      PROVE  status' = status
    <2>1. UNCHANGED <<chain_images, image_handler_id>>
        BY <1>8 DEF MemoryCallOfDevice, CreateBuffer, DestroyBuffer, BindBufferMemory,
            InstanceMagicChanges, vars, imageVars
    <2> QED BY <1>10, <2>1
<1>9. ImageHandles!Next \/ status' = status
    BY <1>4, <1>5, <1>6, <1>7, <1>8 DEF Next, status
<1> QED BY <1>9 DEF status

LEMMA ResourceStatusInit == Init => BufferHandles!Init /\ ImageHandles!Init
BY ResourceAssumption DEF Init, BufferHandles!Init, ImageHandles!Init, StatusOf, Buffer, Image

\* Buffers and images implement HandleTable, the image that CreateImage registers
\* and reports as failed included: no handle ever names a second object.
THEOREM ResourcesImplementHandleTable == Spec => ResourceHandlesNeverReused
BY ResourceStatusInit, ResourceInvariant, BufferStatusStep, ImageStatusStep, PTL
    DEF Spec, ResourceHandlesNeverReused, BufferHandles!Spec, ImageHandles!Spec

-----------------------------------------------------------------------------
(* What holds of memory alone, and of resources alone, holds of the whole *)

\* A step of the device is a step of its memory, or leaves the memory alone.
LEMMA StepOfMemory == [Next]_vars => MemoryNext \/ UNCHANGED memoryState
BY DEF Next, CreateBuffer, DestroyBuffer, BindBufferMemory, CreateImage, DestroyImage,
    BindImageMemory, DestroyDeviceAndResources, InstanceMagicChanges, vars, MemoryNext,
    MemoryCallOfDevice

LEMMA MemoryPromises ==
    /\ Init => MappingGranted
    /\ ResourceInv /\ MappingGranted /\ [Next]_vars => MappingGranted'
    /\ ResourceInv /\ MappingGranted => BlocksOwned /\ MappingInside /\ MappedRangeFlushable
<1>1. Init => MappingGranted
    BY DEF Init, MemoryInit, MappingGranted
<1>2. ASSUME ResourceInv, MappingGranted, [Next]_vars PROVE MappingGranted'
    <2>1. CASE MemoryNext
        BY <1>2, <2>1, MappingStep DEF ResourceInv
    <2>2. CASE UNCHANGED memoryState
        BY <1>2, <2>2 DEF MappingGranted, memoryState, memoryVars
    <2> QED BY <1>2, <2>1, <2>2, StepOfMemory
<1>3. ResourceInv /\ MappingGranted => BlocksOwned /\ MappingInside /\ MappedRangeFlushable
    BY GrantedRanges DEF ResourceInv, OwnershipInv
<1> QED BY <1>1, <1>2, <1>3

LEMMA MemoryStatusStep ==
    /\ Init => MemoryHandles!Init
    /\ ResourceInv /\ [Next]_vars => [MemoryHandles!Next]_(StatusOf(memory_map, memory_handler_id))
<1>1. Init => MemoryHandles!Init
    BY MemoryStatusInit DEF Init
<1>2. ASSUME ResourceInv, [Next]_vars
      PROVE  [MemoryHandles!Next]_(StatusOf(memory_map, memory_handler_id))
    <2>1. CASE MemoryNext
        BY <1>2, <2>1, StatusStep DEF ResourceInv
    <2>2. CASE UNCHANGED memoryState
        BY <2>2 DEF memoryState, memoryVars, StatusOf
    <2> QED BY <1>2, <2>1, <2>2, StepOfMemory
<1> QED BY <1>1, <1>2

\* Buffers, images, their bindings and a lost instance take nothing from what
\* AllocateMemory, MapMemory and FreeMemory promise of the memory of the device.
THEOREM DeviceKeepsMemoryPromises ==
    Spec => /\ [](BlocksOwned /\ MappingInside /\ MappedRangeFlushable)
            /\ MemoryHandlesNeverReused
BY MemoryPromises, MemoryStatusStep, ResourceInvariant, PTL
    DEF Spec, MemoryHandlesNeverReused, MemoryHandles!Spec

-----------------------------------------------------------------------------
(* Buffer views *)

ViewTypes ==
    /\ buffer_views \in [View -> BufferView \cup {Absent}]
    /\ host_views \in [HostView -> BufferView \cup {Absent}]
    /\ app_views \in [View -> Buffer \cup {Absent}]
    /\ app_clears \in BOOLEAN

ViewsInv == ResourceInv /\ ViewTypes /\ ViewsAccounted

\* The calls on views leave buffers, images and memory alone.
LEMMA ViewCallKeepsResources ==
    ASSUME ResourceInv, UNCHANGED resourceState, ret' \in Result
    PROVE  ResourceInv'
<1>1. OwnershipInv'
    BY NothingKeeps DEF resourceState, ResourceInv
<1>2. BuffersTyped' /\ ImagesTyped' /\ BindingsTyped' /\ instance_found' \in BOOLEAN
    BY ResourceInvParts DEF resourceState, memoryState, memoryVars, bufferVars, imageVars,
        bindingVars, BuffersTyped, ImagesTyped, BindingsTyped
<1>3. ResourceInv' <=> /\ OwnershipInv' /\ instance_found' \in BOOLEAN
                       /\ BuffersTyped' /\ ImagesTyped' /\ BindingsTyped'
    BY DEF ResourceInv, OwnershipInv, TypeOK, BindingsTyped, FreshResources,
        BuffersTyped, ImagesTyped
<1> QED BY <1>1, <1>2, <1>3

LEMMA NewViewTyped ==
    ASSUME ResourceInv, NEW b \in Buffer, buffers[b] # Absent, NEW offset \in Offsets,
           NEW range \in ViewRanges
    PROVE  /\ NewView(b, offset, range) \in BufferView /\ NewView(b, offset, range) # Absent
           /\ NewView(b, offset, range).handle = buffers[b].dispatch_handle
           /\ NewView(b, offset, range).offset = offset
           /\ NewView(b, offset, range).range = range
<1>1. buffers[b] \in BufferObject
    BY DEF ResourceInv, TypeOK
<1>2. buffers[b].dispatch_handle \in HostBuffer \cup {VK_NULL_HANDLE}
    BY <1>1 DEF BufferObject
<1>3. NewView(b, offset, range) \in BufferView
    BY <1>2, SizeAssumption, ViewAssumption DEF NewView, ViewedBuffer, BufferView
<1> QED BY <1>3, ViewAssumption DEF NewView, ViewedBuffer

\* What registering a view does to the two tables.
LEMMA ViewRegistered ==
    ASSUME ResourceInv, ViewTypes, NEW view \in View, NEW b \in Buffer, buffers[b] # Absent,
           NEW offset \in Offsets, NEW range \in ViewRanges,
           RegisterView(view, b, offset, range)
    PROVE  /\ buffer_views' \in [View -> BufferView \cup {Absent}]
           /\ app_views' \in [View -> Buffer \cup {Absent}]
           /\ buffer_views'[view] = NewView(b, offset, range) /\ app_views'[view] = b
           /\ \A v \in View \ {view} :
                buffer_views'[v] = buffer_views[v] /\ app_views'[v] = app_views[v]
           /\ ret' \in Result
<1>1. /\ buffer_views' = [buffer_views EXCEPT ![view] = NewView(b, offset, range)]
      /\ app_views' = [app_views EXCEPT ![view] = b]
      /\ ret' = "SUCCESS"
    BY DEF RegisterView, Return
<1> QED BY <1>1, NewViewTyped, ResultsOfResources DEF ViewTypes

\* The three things CreateBufferView can do.
LEMMA ViewCreated ==
    ASSUME NEW b \in Buffer, NEW offset \in Offsets, NEW range \in ViewRanges,
           NEW pView \in View, CreateBufferView(b, offset, range, pView)
    PROVE  /\ UNCHANGED resourceState
           /\ \/ UNCHANGED viewVars /\ ret' \in Result
              \/ /\ buffers[b] # Absent /\ ViewFits(b, offset, range)
                 /\ \E view \in HostView :
                      /\ host_views[view] = Absent
                      /\ host_views' = [host_views EXCEPT ![view] = NewView(b, offset, range)]
                      /\ RegisterView(view, b, offset, range)
                 /\ UNCHANGED app_clears
              \/ /\ buffers[b] # Absent /\ RegisterView(pView, b, offset, range)
                 /\ app_clears' = (app_clears /\ pView = VK_NULL_HANDLE)
                 /\ UNCHANGED host_views
BY ResultsOfResources DEF CreateBufferView, Return

LEMMA ViewsInitially == ViewsInit => ViewsInv
<1> SUFFICES ASSUME ViewsInit PROVE ViewsInv
    OBVIOUS
<1>1. ResourceInv
    BY ResourceInvInit DEF ViewsInit
<1>2. ViewTypes /\ ViewsAccounted
    BY DEF ViewsInit, ViewTypes, ViewsAccounted
<1> QED BY <1>1, <1>2 DEF ViewsInv

LEMMA ViewsStep == ViewsInv /\ [ViewsNext]_allVars => ViewsInv'
<1> SUFFICES ASSUME ViewsInv, [ViewsNext]_allVars PROVE ViewsInv'
    OBVIOUS
<1>1. ResourceInv /\ ViewTypes /\ ViewsAccounted
    BY DEF ViewsInv
<1>2. ASSUME UNCHANGED viewVars, device_live' = device_live PROVE ViewTypes' /\ ViewsAccounted'
    BY <1>1, <1>2 DEF viewVars, ViewTypes, ViewsAccounted
<1>3. CASE ResourceStep
    <2>1. ResourceInv'
        BY <1>1, <1>3, ResourceInvStep DEF ResourceStep
    <2> QED BY <1>2, <1>3, <2>1 DEF ResourceStep, ViewsInv
<1>4. ASSUME NEW b \in Buffer, NEW offset \in Offsets, NEW range \in ViewRanges,
             NEW pView \in View, CreateBufferView(b, offset, range, pView)
      PROVE  ViewsInv'
    <2>1. UNCHANGED resourceState /\ device_live' = device_live
        BY <1>4, ViewCreated DEF resourceState, memoryState
    <2>2. CASE UNCHANGED viewVars /\ ret' \in Result
        BY <1>1, <1>2, <2>1, <2>2, ViewCallKeepsResources DEF ViewsInv
    <2>3. ASSUME buffers[b] # Absent, NEW view \in HostView,
                 host_views' = [host_views EXCEPT ![view] = NewView(b, offset, range)],
                 RegisterView(view, b, offset, range), UNCHANGED app_clears
          PROVE  ViewsInv'
        <3>1. view \in View
            BY DEF View
        <3>2. ViewTypes' /\ ret' \in Result
            BY <1>1, <2>3, <3>1, ViewRegistered, NewViewTyped DEF ViewTypes
        <3>3. ViewsAccounted'
            <4>1. \A v \in HostView \ {view} : host_views'[v] = host_views[v] /\ v \in View
                BY <1>1, <2>3 DEF ViewTypes, View
            <4>2. buffer_views'[view] # Absent
                BY <1>1, <2>3, <3>1, ViewRegistered, NewViewTyped
            <4> QED BY <1>1, <2>1, <2>3, <3>1, <4>1, <4>2, ViewRegistered DEF ViewsAccounted
        <3> QED BY <1>1, <2>1, <3>2, <3>3, ViewCallKeepsResources DEF ViewsInv
    <2>4. ASSUME buffers[b] # Absent, RegisterView(pView, b, offset, range),
                 app_clears' = (app_clears /\ pView = VK_NULL_HANDLE), UNCHANGED host_views
          PROVE  ViewsInv'
        <3>1. ViewTypes' /\ ret' \in Result
            BY <1>1, <2>4, ViewRegistered DEF ViewTypes
        <3>2. ViewsAccounted'
            <4>1. \A v \in View : buffer_views[v] # Absent => buffer_views'[v] # Absent
                BY <1>1, <2>4, ViewRegistered, NewViewTyped
            <4> QED BY <1>1, <2>1, <2>4, <4>1 DEF ViewsAccounted, View
        <3> QED BY <1>1, <2>1, <3>1, <3>2, ViewCallKeepsResources DEF ViewsInv
    <2> QED BY <1>4, <2>2, <2>3, <2>4, ViewCreated
<1>5. ASSUME NEW view \in View, DestroyBufferView(view) PROVE ViewsInv'
    <2>1. /\ UNCHANGED <<app_clears, resourceState>> /\ ret' \in Result
          /\ app_views' = Without(app_views, view)
          /\ \/ UNCHANGED <<host_views, buffer_views>>
             \/ /\ host_views' = Without(host_views, view)
                /\ buffer_views' = Without(buffer_views, view)
        BY <1>5, ResultsOfResources DEF DestroyBufferView, Return
    <2>2. ResourceInv' /\ device_live' = device_live
        BY <1>1, <2>1, ViewCallKeepsResources DEF resourceState, memoryState
    <2>3. /\ Without(app_views, view) \in [View -> Buffer \cup {Absent}]
          /\ Without(host_views, view) \in [HostView -> BufferView \cup {Absent}]
          /\ Without(buffer_views, view) \in [View -> BufferView \cup {Absent}]
        BY <1>1 DEF ViewTypes, Without
    <2>4. ViewTypes'
        BY <1>1, <2>1, <2>3 DEF ViewTypes
    <2>5. ViewsAccounted'
        BY <1>1, <2>1, <2>2 DEF ViewsAccounted, ViewTypes, Without, View
    <2> QED BY <2>2, <2>4, <2>5 DEF ViewsInv
<1>6. CASE DestroyDeviceAndViews
    <2>1. ResourceInv' /\ ~device_live'
        BY <1>1, <1>6, ResourceInvStep DEF DestroyDeviceAndViews, DestroyDeviceAndResources,
            DestroyDevice, Next
    <2>2. ViewTypes'
        BY <1>1, <1>6 DEF DestroyDeviceAndViews, ViewTypes
    <2> QED BY <2>1, <2>2 DEF ViewsInv, ViewsAccounted
<1>7. CASE UNCHANGED allVars
    <2>1. ResourceInv'
        BY <1>1, <1>7, ResourceInvStep DEF allVars
    <2> QED BY <1>2, <1>7, <2>1 DEF allVars, vars, memoryState, ViewsInv
<1> QED BY <1>3, <1>4, <1>5, <1>6, <1>7 DEF ViewsNext

LEMMA ViewsInvariant == ViewsSpec => []ViewsInv
BY ViewsInitially, ViewsStep, PTL DEF ViewsSpec

\* An entry of buffer_views has always all three of its fields.
THEOREM ViewsTypeCorrect == ViewsSpec => []ViewsTypeOK
<1>1. ViewsInv => ViewsTypeOK
    BY DEF ViewsInv, ResourceInv, ViewTypes, ViewsTypeOK
<1> QED BY <1>1, ViewsInvariant, PTL

\* While the device lives the driver has an entry for every view of the host.
THEOREM ViewsStayAccounted == ViewsSpec => []ViewsAccounted
<1>1. ViewsInv => ViewsAccounted
    BY DEF ViewsInv
<1> QED BY <1>1, ViewsInvariant, PTL

\* A buffer that is still there has kept its size and its host buffer.
LEMMA BufferKeepsItself ==
    ASSUME ResourceInv, [Next]_vars, NEW b \in Buffers, b \in Buffers'
    PROVE  /\ buffers'[b].size = buffers[b].size
           /\ buffers'[b].dispatch_handle = buffers[b].dispatch_handle
<1>1. /\ buffers \in [Buffer -> BufferObject \cup {Absent}] /\ b \in Buffer
      /\ buffers[b] # Absent /\ buffers'[b] # Absent
    BY DEF ResourceInv, TypeOK, Buffers
<1>2. ASSUME NEW size \in BufferSizes, CreateBuffer(size) PROVE buffers'[b] = buffers[b]
    <2>1. b # buffer_handler_id
        <3>1. b \in Nat /\ buffer_handler_id \in Nat
            BY <1>1, HandleRanges DEF ResourceInv
        <3> QED BY <1>1, <3>1 DEF ResourceInv, FreshResources
    <2> QED BY <1>1, <1>2, <2>1 DEF CreateBuffer, NextBuffer, bufferVars
<1>3. ASSUME NEW c \in Buffer, DestroyBuffer(c) PROVE buffers'[b] = buffers[b]
    BY <1>1, <1>3 DEF DestroyBuffer
<1>4. ASSUME NEW c \in Buffer, NEW m \in Memory, NEW offset \in Offsets,
             BindBufferMemory(c, m, offset)
      PROVE  /\ buffers'[b].size = buffers[b].size
             /\ buffers'[b].dispatch_handle = buffers[b].dispatch_handle
    BY <1>4, BindingKeepsBuffers
<1>5. ~DestroyDeviceAndResources
    BY <1>1 DEF DestroyDeviceAndResources
<1>6. ASSUME \/ MemoryCallOfDevice
             \/ CreateImage
             \/ \E i \in Image : DestroyImage(i)
             \/ \E i \in Image, m \in Memory, offset \in Offsets : BindImageMemory(i, m, offset)
             \/ InstanceMagicChanges
             \/ UNCHANGED vars
      PROVE  buffers' = buffers
    BY <1>6 DEF MemoryCallOfDevice, CreateImage, DestroyImage, BindImageMemory,
        InstanceMagicChanges, vars, bufferVars
<1> QED BY <1>2, <1>3, <1>4, <1>5, <1>6 DEF Next

\* The host's view v shows a part of b.
Shows(v, b) ==
    LET view == host_views[v] IN
    /\ view # Absent /\ buffers[b] # Absent
    /\ view = buffer_views[v]
    /\ view.handle = buffers[b].dispatch_handle
    /\ EndsInside(view.offset, Covered(buffers[b].size, view.offset, view.range), buffers[b].size)

\* The wrapping check of CreateBufferView bounds what the host will make of the
\* range, VK_WHOLE_SIZE included.
LEMMA CoveredEndsInside ==
    ASSUME NEW size \in VkDeviceSize, NEW offset \in VkDeviceSize, NEW range \in VkDeviceSize,
           Plus(range, offset) =< size
    PROVE  EndsInside(offset, Covered(size, offset, range), size)
<1>1. CASE range = VK_WHOLE_SIZE
    BY <1>1, SizeAssumption DEF Covered, Minus, EndsInside, VkDeviceSize
<1>2. CASE range # VK_WHOLE_SIZE
    BY <1>2, SizeAssumption DEF Covered, Plus, EndsInside, VkDeviceSize
<1> QED BY <1>1, <1>2

LEMMA ShowsStep ==
    ASSUME ViewsInv, ViewsShowTheirBuffer, [ViewsNext]_allVars
    PROVE  ViewsShowTheirBuffer'
<1> SUFFICES ASSUME app_clears', NEW v \in HeldViews', v # VK_NULL_HANDLE
             PROVE  Shows(v, app_views[v])'
    BY DEF ViewsShowTheirBuffer, Shows
<1>1. /\ ResourceInv /\ ViewTypes /\ ViewTypes'
      /\ v \in HostView /\ v \in View /\ app_views'[v] # Absent
    BY ViewsStep DEF ViewsInv, HeldViews, View
<1>2. ASSUME app_clears, app_views[v] # Absent PROVE app_views[v] \in Buffer /\ Shows(v, app_views[v])
    BY <1>1, <1>2 DEF ViewsShowTheirBuffer, Shows, HeldViews, ViewTypes
\* Nothing the view is about has changed.
<1>3. ASSUME app_clears, app_views'[v] = app_views[v],
             host_views'[v] = host_views[v], buffer_views'[v] = buffer_views[v],
             buffers' = buffers
      PROVE  Shows(v, app_views[v])'
    BY <1>1, <1>2, <1>3 DEF Shows
<1>4. CASE ResourceStep
    <2>1. UNCHANGED viewVars /\ Next
        BY <1>4 DEF ResourceStep
    <2>2. app_clears /\ app_views[v] # Absent
        BY <1>1, <2>1 DEF viewVars
    <2>3. app_views[v] \in Buffer /\ Shows(v, app_views[v])
        BY <1>2, <2>2
    <2>4. app_views[v] \in Buffers /\ app_views[v] \in Buffers'
        BY <1>1, <1>4, <2>2, <2>3 DEF ResourceStep, HeldViews, Shows, Buffers
    <2>5. /\ buffers'[app_views[v]].size = buffers[app_views[v]].size
          /\ buffers'[app_views[v]].dispatch_handle = buffers[app_views[v]].dispatch_handle
        BY <1>1, <2>1, <2>4, BufferKeepsItself
    <2> QED BY <2>1, <2>3, <2>4, <2>5 DEF Shows, viewVars, Buffers
<1>5. ASSUME NEW b \in Buffer, NEW offset \in Offsets, NEW range \in ViewRanges,
             NEW pView \in View, CreateBufferView(b, offset, range, pView)
      PROVE  Shows(v, app_views[v])'
    <2>1. buffers' = buffers
        BY <1>5, ViewCreated DEF resourceState, bufferVars
    <2>2. CASE UNCHANGED viewVars
        BY <1>3, <2>1, <2>2 DEF viewVars
    <2>3. ASSUME buffers[b] # Absent, ViewFits(b, offset, range), NEW view \in HostView,
                 host_views' = [host_views EXCEPT ![view] = NewView(b, offset, range)],
                 RegisterView(view, b, offset, range), UNCHANGED app_clears
          PROVE  Shows(v, app_views[v])'
        <3>1. view \in View
            BY DEF View
        <3>2. CASE v # view
            <4>1. host_views'[v] = host_views[v]
                BY <1>1, <2>3, <3>2 DEF ViewTypes
            <4> QED BY <1>1, <1>3, <2>1, <2>3, <3>1, <3>2, <4>1, ViewRegistered
        <3>3. CASE v = view
            <4> DEFINE new == NewView(b, offset, range)
            <4>1. host_views'[v] = new /\ buffer_views'[v] = new /\ app_views'[v] = b
                BY <1>1, <2>3, <3>1, <3>3, ViewRegistered DEF ViewTypes
            <4>2. /\ new # Absent /\ new.handle = buffers[b].dispatch_handle
                  /\ new.offset = offset /\ new.range = range
                BY <1>1, <2>3, NewViewTyped
            <4> HIDE DEF new
            <4>3. buffers[b].size \in VkDeviceSize
                BY <1>1, <2>3 DEF ResourceInv, TypeOK, BufferObject
            <4>4. EndsInside(offset, Covered(buffers[b].size, offset, range), buffers[b].size)
                BY <2>3, <4>3, CoveredEndsInside, SizeAssumption, ViewAssumption DEF ViewFits
            <4> QED BY <2>1, <2>3, <4>1, <4>2, <4>4 DEF Shows
        <3> QED BY <3>2, <3>3
    <2>4. ASSUME buffers[b] # Absent, RegisterView(pView, b, offset, range),
                 app_clears' = (app_clears /\ pView = VK_NULL_HANDLE), UNCHANGED host_views
          PROVE  Shows(v, app_views[v])'
        <3>1. app_clears /\ pView # v
            BY <2>4
        <3> QED BY <1>1, <1>3, <2>1, <2>4, <3>1, ViewRegistered
    <2> QED BY <1>5, <2>2, <2>3, <2>4, ViewCreated
<1>6. ASSUME NEW view \in View, DestroyBufferView(view) PROVE Shows(v, app_views[v])'
    <2>1. /\ UNCHANGED app_clears /\ buffers' = buffers
          /\ app_views' = Without(app_views, view)
          /\ \/ UNCHANGED <<host_views, buffer_views>>
             \/ /\ host_views' = Without(host_views, view)
                /\ buffer_views' = Without(buffer_views, view)
        BY <1>6 DEF DestroyBufferView, resourceState, bufferVars
    <2>2. v # view
        BY <1>1, <2>1 DEF Without, ViewTypes
    <2>3. /\ app_views'[v] = app_views[v]
          /\ host_views'[v] = host_views[v] /\ buffer_views'[v] = buffer_views[v]
        BY <1>1, <2>1, <2>2 DEF Without, ViewTypes
    <2> QED BY <1>3, <2>1, <2>3
<1>7. CASE DestroyDeviceAndViews
    BY <1>1, <1>7 DEF DestroyDeviceAndViews
<1>8. CASE UNCHANGED allVars
    BY <1>3, <1>8 DEF allVars, viewVars, vars, bufferVars
<1> QED BY <1>4, <1>5, <1>6, <1>7, <1>8 DEF ViewsNext

\* What the application holds after clearing its variables is a view of the
\* buffer it asked for, and ends inside it unless its end wraps, while buffers and
\* views come and go, the host refuses and the instance is lost.
THEOREM ViewsStayTrue == ViewsSpec => []ViewsShowTheirBuffer
<1>1. ViewsInit => ViewsShowTheirBuffer
    BY DEF ViewsInit, ViewsShowTheirBuffer, HeldViews
<1>2. ViewsInv /\ ViewsShowTheirBuffer /\ [ViewsNext]_allVars => ViewsShowTheirBuffer'
    BY ShowsStep
<1> QED BY <1>1, <1>2, ViewsInvariant, PTL DEF ViewsSpec

\* A step of the device with its views is one without, or leaves the rest alone.
LEMMA StepOfResources == [ViewsNext]_allVars => Next \/ UNCHANGED resourceState
<1>1. ASSUME NEW b \in Buffer, NEW offset \in Offsets, NEW range \in ViewRanges,
             NEW pView \in View, CreateBufferView(b, offset, range, pView)
      PROVE  UNCHANGED resourceState
    BY <1>1, ViewCreated
<1>2. ASSUME NEW view \in View, DestroyBufferView(view) PROVE UNCHANGED resourceState
    BY <1>2 DEF DestroyBufferView
<1>3. DestroyDeviceAndViews => Next
    BY DEF DestroyDeviceAndViews, Next
<1>4. UNCHANGED allVars => UNCHANGED resourceState
    BY DEF allVars, vars, resourceState
<1> QED BY <1>1, <1>2, <1>3, <1>4 DEF ViewsNext, ResourceStep

LEMMA ResourcePromises ==
    ASSUME ResourceInv, [ViewsNext]_allVars
    PROVE  /\ MappingGranted => MappingGranted'
           /\ BoundBuffersInside => BoundBuffersInside'
           /\ BoundImagesInside => BoundImagesInside'
           /\ HostBuffersOwned => HostBuffersOwned'
           /\ [MemoryHandles!Next]_(StatusOf(memory_map, memory_handler_id))
           /\ [BufferHandles!Next]_(StatusOf(buffers, buffer_handler_id))
           /\ [ImageHandles!Next]_(StatusOf(chain_images, image_handler_id))
<1>1. CASE Next
    BY <1>1, MemoryPromises, BufferInsideStep, ImageInsideStep, HostBuffersStep,
        MemoryStatusStep, BufferStatusStep, ImageStatusStep
<1>2. CASE UNCHANGED resourceState
    <2> USE <1>2 DEF resourceState, memoryState, memoryVars, bufferVars, imageVars, bindingVars
    <2>1. MappingGranted => MappingGranted'
        BY DEF MappingGranted
    <2>2. BoundBuffersInside => BoundBuffersInside'
        BY DEF BoundBuffersInside, PointsTo, Memories
    <2>3. BoundImagesInside => BoundImagesInside'
        BY DEF BoundImagesInside, PointsTo, Memories
    <2>4. HostBuffersOwned => HostBuffersOwned'
        BY DEF HostBuffersOwned, Buffers
    <2>5. /\ UNCHANGED StatusOf(memory_map, memory_handler_id)
          /\ UNCHANGED StatusOf(buffers, buffer_handler_id)
          /\ UNCHANGED StatusOf(chain_images, image_handler_id)
        BY DEF StatusOf
    <2> QED BY <2>1, <2>2, <2>3, <2>4, <2>5
<1> QED BY <1>1, <1>2, StepOfResources

\* The whole device, views included: what was proved of its memory, buffers and
\* images apart holds of them together, the handle tables among it.
THEOREM WholeDeviceKeepsPromises ==
    ViewsSpec => /\ [](BlocksOwned /\ MappingInside /\ MappedRangeFlushable)
                 /\ [](BoundBuffersInside /\ BoundImagesInside /\ HostBuffersOwned)
                 /\ MemoryHandlesNeverReused /\ ResourceHandlesNeverReused
<1> DEFINE Promises ==
        MappingGranted /\ BoundBuffersInside /\ BoundImagesInside /\ HostBuffersOwned
<1>1. ViewsInit => Init
    BY DEF ViewsInit
<1>2. Init => Promises
    BY MemoryPromises DEF Init, MemoryInit, BoundBuffersInside, BoundImagesInside, HostBuffersOwned,
        Buffers, Memories
<1>3. ViewsInv /\ Promises /\ [ViewsNext]_allVars => Promises'
    BY ResourcePromises DEF ViewsInv
<1>4. ViewsInv /\ Promises => BlocksOwned /\ MappingInside /\ MappedRangeFlushable
    BY MemoryPromises DEF ViewsInv
<1>5. Init => MemoryHandles!Init /\ BufferHandles!Init /\ ImageHandles!Init
    BY MemoryStatusStep, ResourceStatusInit
<1>6. ViewsInv /\ [ViewsNext]_allVars =>
        /\ [MemoryHandles!Next]_(StatusOf(memory_map, memory_handler_id))
        /\ [BufferHandles!Next]_(StatusOf(buffers, buffer_handler_id))
        /\ [ImageHandles!Next]_(StatusOf(chain_images, image_handler_id))
    BY ResourcePromises DEF ViewsInv
<1> QED
    BY <1>1, <1>2, <1>3, <1>4, <1>5, <1>6, ViewsInvariant, PTL
        DEF ViewsSpec, MemoryHandlesNeverReused, MemoryHandles!Spec,
            ResourceHandlesNeverReused, BufferHandles!Spec, ImageHandles!Spec

=============================================================================
