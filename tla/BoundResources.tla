--------------------------- MODULE BoundResources ---------------------------
(***************************************************************************)
(* The buffers and images of one VkDevice, composed with its memory:       *)
(* device.cpp, vlk_trampoline_call_CreateBuffer up to                      *)
(* vlk_trampoline_call_BindImageMemory.  Binding stores a raw pointer to   *)
(* the memory object and an offset in the resource; freeing the memory     *)
(* does not touch the resource, and a later memory object may be put where *)
(* the freed one was.                                                      *)
(***************************************************************************)
EXTENDS DeviceMemory

CONSTANTS
    ObjectAddress,    \* where std::make_shared can put a VkDeviceMemoryObject
    BufferSizes,      \* values of VkBufferCreateInfo::size
    MaxBuffer,        \* bound: VkBuffer handles issued
    MaxImage          \* bound: VkImage handles issued

VK_NULL_HANDLE == 0
Buffer == 1 .. MaxBuffer
Image == 1 .. MaxImage
HostBuffer == 1 .. MaxBuffer

\* dispatch_handle is VK_NULL_HANDLE, as make_unique value-initialises it, when
\* the host call failed; a null bound_memory or mapped_ptr is Absent.
BufferObject == [size : VkDeviceSize,
                 dispatch_handle : HostBuffer \cup {VK_NULL_HANDLE},
                 bound_memory : ObjectAddress \cup {Absent},
                 bound_offset : VkDeviceSize,
                 mapped_ptr : Address \cup {Absent}]

\* is_binded is declared false and assigned nowhere, so it is not a field here.
ImageObject == [bound_memory : ObjectAddress \cup {Absent},
                memory_offset : VkDeviceSize,
                mapped_ptr : Address \cup {Absent}]

ASSUME ResourceAssumption ==
    /\ MaxBuffer \in Nat
    /\ MaxImage \in Nat
    /\ BufferSizes \subseteq VkDeviceSize
    /\ Absent \notin BufferObject \cup ImageObject
    /\ Absent \notin Address \cup ObjectAddress \cup Memory

VARIABLES
    instance_found,    \* vk_context->instances has instance_magic
    buffers, buffer_handler_id,
    chain_images, image_handler_id,
    host_buffers,      \* VkBuffers the host has created and not destroyed
    memory_objects,    \* where the object of each entry of memory_map is
    app_buffer_memory, \* the memory the application bound each buffer to last
    app_image_memory   \* the same for images

bufferVars == <<buffers, buffer_handler_id, host_buffers>>
imageVars == <<chain_images, image_handler_id>>
bindingVars == <<memory_objects, app_buffer_memory, app_image_memory>>
vars == <<memoryState, ret, instance_found, bufferVars, imageVars, bindingVars>>

Buffers == {b \in Buffer : buffers[b] # Absent}
Images == {i \in Image : chain_images[i] # Absent}

Init ==
    /\ MemoryInit
    /\ instance_found = TRUE
    /\ buffers = [b \in Buffer |-> Absent] /\ buffer_handler_id = 1
    /\ chain_images = [i \in Image |-> Absent] /\ image_handler_id = 1
    /\ host_buffers = {}
    /\ memory_objects = [m \in Memory |-> Absent]
    /\ app_buffer_memory = [b \in Buffer |-> Absent]
    /\ app_image_memory = [i \in Image |-> Absent]

-----------------------------------------------------------------------------
(* Where the memory objects are *)

\* The map shares each object with nobody: an object is made where none is,
\* stays where it is, and is gone when its entry is erased.
MemoryObjectsFollow ==
    /\ memory_objects' \in [Memory -> ObjectAddress \cup {Absent}]
    /\ \A m \in Memory :
         /\ memory_objects'[m] = Absent <=> memory_map'[m] = Absent
         /\ memory_map[m] # Absent /\ memory_map'[m] # Absent =>
              memory_objects'[m] = memory_objects[m]
    /\ \A m, n \in Memory :
         memory_objects'[m] = memory_objects'[n] /\ memory_objects'[m] # Absent => m = n

-----------------------------------------------------------------------------
(* Buffers *)

\* Mutant: handles counted from the size of the map.
NextBufferBySize == Cardinality(Buffers) + 1

NextBuffer == buffer_handler_id

\* Mutant: "new VkBufferObject" leaves a handle the host did not write undefined.
NewBufferUninitialised(size, host) ==
    [size |-> size, bound_memory |-> Absent, bound_offset |-> 0, mapped_ptr |-> Absent,
     dispatch_handle |-> IF host = VK_NULL_HANDLE THEN Absent ELSE host]

NewBuffer(size, host) ==
    [size |-> size, bound_memory |-> Absent, bound_offset |-> 0, mapped_ptr |-> Absent,
     dispatch_handle |-> host]

\* The host's answer is dropped: a VkBufferObject is registered either way.
CreateBuffer(size) ==
    /\ device_live
    /\ \/ /\ ~instance_found
          /\ Return("ERROR_DEVICE_LOST")
          /\ UNCHANGED bufferVars
       \/ /\ instance_found
          /\ buffer_handler_id =< MaxBuffer
          /\ \E host \in (HostBuffer \ host_buffers) \cup {VK_NULL_HANDLE} :
               /\ host_buffers' = host_buffers \cup ({host} \ {VK_NULL_HANDLE})
               /\ buffers' = [buffers EXCEPT ![NextBuffer] = NewBuffer(size, host)]
          /\ buffer_handler_id' = buffer_handler_id + 1
          /\ Return("SUCCESS")
    /\ UNCHANGED <<memoryState, instance_found, imageVars, bindingVars>>

\* Mutant: erased before the instance is asked for.
DestroyBufferErasedFirst(b) ==
    /\ device_live
    /\ buffers[b] # Absent
    /\ buffers' = [buffers EXCEPT ![b] = Absent]
    /\ host_buffers' = IF instance_found THEN host_buffers \ {buffers[b].dispatch_handle}
                                         ELSE host_buffers
    /\ app_buffer_memory' = [app_buffer_memory EXCEPT ![b] = Absent]
    /\ Return("VOID")
    /\ UNCHANGED <<buffer_handler_id, memoryState, instance_found, imageVars,
                   memory_objects, app_image_memory>>

\* The iterator is dereferenced unchecked, so b must be a buffer of the device;
\* a call without the instance returns having done nothing.
DestroyBuffer(b) ==
    /\ device_live
    /\ buffers[b] # Absent
    /\ IF instance_found
       THEN /\ host_buffers' = host_buffers \ {buffers[b].dispatch_handle}
            /\ buffers' = [buffers EXCEPT ![b] = Absent]
       ELSE UNCHANGED <<host_buffers, buffers>>
    /\ app_buffer_memory' = [app_buffer_memory EXCEPT ![b] = Absent]
    /\ Return("VOID")
    /\ UNCHANGED <<buffer_handler_id, memoryState, instance_found, imageVars,
                   memory_objects, app_image_memory>>

\* Mutant: the size of the buffer is left out, as BindImageMemory leaves it out.
BindBufferFitsOffset(b, m, offset) == offset < memory_map[m].size

BindBufferFits(b, m, offset) == Plus(offset, buffers[b].size) =< memory_map[m].size

\* Binding again is not refused, and the host is never told.  mapped_ptr is the
\* block of the memory; the pointer the code keeps is bound_offset beyond it.
BindBufferMemory(b, m, offset) ==
    /\ device_live
    /\ \/ /\ buffers[b] = Absent \/ memory_map[m] = Absent
          /\ Return("ERROR_DEVICE_LOST")
          /\ UNCHANGED <<buffers, app_buffer_memory>>
       \/ /\ buffers[b] # Absent /\ memory_map[m] # Absent
          /\ ~BindBufferFits(b, m, offset)
          /\ Return("ERROR_MEMORY_MAP_FAILED")
          /\ UNCHANGED <<buffers, app_buffer_memory>>
       \/ /\ buffers[b] # Absent /\ memory_map[m] # Absent
          /\ BindBufferFits(b, m, offset)
          /\ buffers' = [buffers EXCEPT ![b] =
               [@ EXCEPT !.bound_memory = memory_objects[m], !.bound_offset = offset,
                         !.mapped_ptr = memory_map[m].mapped_ptr]]
          /\ app_buffer_memory' = [app_buffer_memory EXCEPT ![b] = m]
          /\ Return("SUCCESS")
    /\ UNCHANGED <<buffer_handler_id, host_buffers, memoryState, instance_found, imageVars,
                   memory_objects, app_image_memory>>

-----------------------------------------------------------------------------
(* Images *)

\* vkCreateImage is called only when neither the device nor the instance is
\* found, that is never here; the object is registered, the handle is stored in
\* *pImage, and the result is an error all the same.  The dispatch_handle is an
\* uninitialized local; no driver state depends on it, so it is not a field here.
CreateImage ==
    /\ device_live
    /\ image_handler_id =< MaxImage
    /\ chain_images' = [chain_images EXCEPT ![image_handler_id] =
         [bound_memory |-> Absent, memory_offset |-> 0, mapped_ptr |-> Absent]]
    /\ image_handler_id' = image_handler_id + 1
    /\ Return("ERROR_OUT_OF_DEVICE_MEMORY")
    /\ UNCHANGED <<memoryState, instance_found, bufferVars, bindingVars>>

\* The host is asked to destroy the uninitialized dispatch_handle; what the host
\* makes of that is outside the model.
DestroyImage(i) ==
    /\ device_live
    /\ chain_images[i] # Absent
    /\ chain_images' = IF instance_found THEN [chain_images EXCEPT ![i] = Absent]
                                         ELSE chain_images
    /\ app_image_memory' = [app_image_memory EXCEPT ![i] = Absent]
    /\ Return("VOID")
    /\ UNCHANGED <<image_handler_id, memoryState, instance_found, bufferVars,
                   memory_objects, app_buffer_memory>>

\* Mutant: the offset may be the size.
BindImageFitsEnd(m, offset) == offset =< memory_map[m].size

BindImageFits(m, offset) == offset < memory_map[m].size

BindImageMemory(i, m, offset) ==
    /\ device_live
    /\ \/ /\ chain_images[i] = Absent \/ memory_map[m] = Absent
          /\ Return("ERROR_DEVICE_LOST")
          /\ UNCHANGED <<chain_images, app_image_memory>>
       \/ /\ chain_images[i] # Absent /\ memory_map[m] # Absent
          /\ ~BindImageFits(m, offset)
          /\ Return("ERROR_MEMORY_MAP_FAILED")
          /\ UNCHANGED <<chain_images, app_image_memory>>
       \/ /\ chain_images[i] # Absent /\ memory_map[m] # Absent
          /\ BindImageFits(m, offset)
          /\ chain_images' = [chain_images EXCEPT ![i] =
               [bound_memory |-> memory_objects[m], memory_offset |-> offset,
                mapped_ptr |-> memory_map[m].mapped_ptr]]
          /\ app_image_memory' = [app_image_memory EXCEPT ![i] = m]
          /\ Return("SUCCESS")
    /\ UNCHANGED <<image_handler_id, memoryState, instance_found, bufferVars,
                   memory_objects, app_buffer_memory>>

-----------------------------------------------------------------------------
(* The whole device *)

\* The maps of the device are cleared; no host object is destroyed.
DestroyDeviceAndResources ==
    /\ DestroyDevice
    /\ buffers' = [b \in Buffer |-> Absent]
    /\ chain_images' = [i \in Image |-> Absent]
    /\ memory_objects' = [m \in Memory |-> Absent]
    /\ app_buffer_memory' = [b \in Buffer |-> Absent]
    /\ app_image_memory' = [i \in Image |-> Absent]
    /\ UNCHANGED <<instance_found, buffer_handler_id, image_handler_id, host_buffers>>

\* DestroyInstance of any instance erases the entry of instance_magic, and the
\* next CreateInstance stores a new one, while this device lives on.
InstanceMagicChanges ==
    /\ instance_found' = ~instance_found
    /\ UNCHANGED <<memoryState, ret, bufferVars, imageVars, bindingVars>>

MemoryCallOfDevice ==
    /\ MemoryCall
    /\ MemoryObjectsFollow
    /\ UNCHANGED <<instance_found, bufferVars, imageVars, app_buffer_memory, app_image_memory>>

Next ==
    \/ MemoryCallOfDevice
    \/ \E size \in BufferSizes : CreateBuffer(size)
    \/ \E b \in Buffer : DestroyBuffer(b)
    \/ \E b \in Buffer, m \in Memory, offset \in Offsets : BindBufferMemory(b, m, offset)
    \/ CreateImage
    \/ \E i \in Image : DestroyImage(i)
    \/ \E i \in Image, m \in Memory, offset \in Offsets : BindImageMemory(i, m, offset)
    \/ DestroyDeviceAndResources
    \/ InstanceMagicChanges

Spec == Init /\ [][Next]_vars

-----------------------------------------------------------------------------
(* Properties *)

TypeOK ==
    /\ MemoryTypeOK
    /\ instance_found \in BOOLEAN
    /\ buffers \in [Buffer -> BufferObject \cup {Absent}]
    /\ buffer_handler_id \in 1 .. MaxBuffer + 1
    /\ chain_images \in [Image -> ImageObject \cup {Absent}]
    /\ image_handler_id \in 1 .. MaxImage + 1
    /\ host_buffers \in SUBSET HostBuffer
    /\ memory_objects \in [Memory -> ObjectAddress \cup {Absent}]
    /\ app_buffer_memory \in [Buffer -> Memory \cup {Absent}]
    /\ app_image_memory \in [Image -> Memory \cup {Absent}]

\* The raw pointer finds the object of memory m and of no other.
PointsTo(pointer, m) == \A n \in Memories : memory_objects[n] = pointer <=> n = m

\* A buffer whose memory the application has not freed lies inside it: its raw
\* pointer finds the object of the very VkDeviceMemory it was bound to, whatever
\* other memories were freed and made at the same addresses meanwhile, and its
\* offset and size still fit (BindBufferMemory checks once and never again),
\* unless it was bound at an offset that wraps when its size is added.  Once the
\* memory is freed the pointer is stale and may find a smaller object.
BoundBuffersInside ==
    \A b \in Buffer :
        LET m == app_buffer_memory[b] IN
        m \in Memories =>
            /\ buffers[b] # Absent
            /\ PointsTo(buffers[b].bound_memory, m)
            /\ EndsInside(buffers[b].bound_offset, buffers[b].size, memory_map[m].size)
            /\ buffers[b].mapped_ptr = memory_map[m].mapped_ptr

\* The same for images, of which BindImageMemory checks the offset only.
BoundImagesInside ==
    \A i \in Image :
        LET m == app_image_memory[i] IN
        m \in Memories =>
            /\ chain_images[i] # Absent
            /\ PointsTo(chain_images[i].bound_memory, m)
            /\ chain_images[i].memory_offset < memory_map[m].size
            /\ chain_images[i].mapped_ptr = memory_map[m].mapped_ptr

\* While the device lives, the host's buffers and the driver's are one to one:
\* no host buffer is forgotten and none is destroyed under a buffer that is
\* still registered (CreateBuffer, DestroyBuffer and its early return).
HostBuffersOwned ==
    device_live =>
        /\ host_buffers = {buffers[b].dispatch_handle : b \in Buffers} \ {VK_NULL_HANDLE}
        /\ \A b, c \in Buffers :
             (buffers[b].dispatch_handle = buffers[c].dispatch_handle
                /\ buffers[b].dispatch_handle # VK_NULL_HANDLE) => b = c

BufferHandles == INSTANCE HandleTable WITH
    Handle <- Buffer, status <- StatusOf(buffers, buffer_handler_id)
ImageHandles == INSTANCE HandleTable WITH
    Handle <- Image, status <- StatusOf(chain_images, image_handler_id)

\* A VkBuffer or VkImage handle names one object and never another, whatever is
\* destroyed, fails on the host or is refused for want of the instance.
ResourceHandlesNeverReused == BufferHandles!Spec /\ ImageHandles!Spec

=============================================================================
