--------------------------- MODULE CommandRecording ---------------------------
(***************************************************************************)
(* Commands that name buffers, device.cpp:                                 *)
(* vlk_trampoline_call_BeginCommandBuffer up to                            *)
(* vlk_trampoline_call_vkCmdCopyQueryPoolResults, with the devices and     *)
(* buffers they look at.  A VkBuffer is a number counted per device; a     *)
(* vkCmd call looks it up in the table of the device of device_magic,      *)
(* whichever device the command buffer belongs to, and hands the host the  *)
(* dispatch_handle it finds there.                                         *)
(*                                                                         *)
(* Each device has one command buffer.  The application follows Vulkan's   *)
(* rules: it records between begin and end, names buffers it holds of the  *)
(* command buffer's device, destroys a buffer only when no command that    *)
(* names it is recorded, and a device only when it holds nothing of it.    *)
(* It never holds a VkImage or a VkQueryPool, as vkCreateImage and         *)
(* vkCreateQueryPool never succeed, so the commands that name these are    *)
(* not modelled.                                                           *)
(***************************************************************************)
EXTENDS Integers, FiniteSets, Sequences

CONSTANTS
    DeviceHandle,    \* VkDevice values the host can return
    HostBuffer,      \* VkBuffer values the host can return
    MaxBuffer,       \* bound: VkBuffer handles a device issues
    MaxCommands,     \* bound: commands recorded in a command buffer
    None             \* "end()", or no device

VK_NULL_HANDLE == 0
Buffer == 1 .. MaxBuffer
HostValue == HostBuffer \cup {VK_NULL_HANDLE}

\* What the model keeps of a VkDeviceObject: the dispatch_handle of each buffer.
Device == [buffers : [Buffer -> HostValue \cup {None}], buffer_handler_id : 1 .. MaxBuffer + 1]

ASSUME RecordingAssumption ==
    /\ None \notin DeviceHandle \cup HostValue \cup Device
    /\ MaxBuffer \in Nat
    /\ MaxCommands \in Nat
    /\ HostBuffer \cap (Buffer \cup {VK_NULL_HANDLE, None}) = {}

VARIABLES
    instance_found,       \* vk_context->instances has instance_magic
    devices,              \* each device's buffers and buffer_handler_id, or None
    device_magic,
    host_devices,         \* devices the host has made; it never loses one
    host_buffers,         \* the device of each VkBuffer of the host, or None
    app_devices,          \* devices the application holds
    app_buffers,          \* and the buffers it holds of each
    command_buffer,       \* state of the command buffer of each device
    recorded,             \* the commands the host has recorded in it
    latest,               \* the device it created last
    several,              \* TRUE once two devices have been held at a time
    missed,               \* TRUE once a command for the latest device was lost
    running               \* FALSE once an end iterator was dereferenced

deviceVars == <<devices, device_magic, host_devices, app_devices, latest, several>>
bufferVars == <<host_buffers, app_buffers>>
commandVars == <<command_buffer, recorded, missed>>
vars == <<instance_found, deviceVars, bufferVars, commandVars, running>>

DeviceFound == devices[device_magic] # None
BuffersOf(d) == {b \in Buffer : devices[d].buffers[b] # None}

Init ==
    /\ instance_found = TRUE
    /\ devices = [d \in DeviceHandle \cup {None} |-> None] /\ device_magic = None
    /\ host_devices = {}
    /\ host_buffers = [h \in HostBuffer |-> None]
    /\ app_devices = {}
    /\ app_buffers = [d \in DeviceHandle |-> {}]
    /\ command_buffer = [d \in DeviceHandle |-> "initial"]
    /\ recorded = [d \in DeviceHandle |-> {}]
    /\ latest = None /\ several = FALSE /\ missed = FALSE
    /\ running = TRUE

-----------------------------------------------------------------------------
(* Devices and their buffers *)

\* Mutant: the magic value is defined once, by the first device.
FirstMagic(d) == IF device_magic = None THEN d ELSE device_magic

NewMagic(d) == d

\* Without the instance the call returns ERROR_INITIALIZATION_FAILED, and a
\* refusal of the host throws; ObjectLifecycle has both.
CreateDevice ==
    /\ running /\ instance_found
    /\ \E d \in DeviceHandle \ host_devices :
         /\ host_devices' = host_devices \cup {d}
         /\ device_magic' = NewMagic(d)
         /\ devices' = [devices EXCEPT ![d] =
              [buffers |-> [b \in Buffer |-> None], buffer_handler_id |-> 1]]
         /\ app_devices' = app_devices \cup {d}
         /\ latest' = d
    /\ several' = (several \/ app_devices # {})
    /\ UNCHANGED <<instance_found, bufferVars, commandVars, running>>

\* The command pool goes first, and the commands with it; device_magic stays.
DestroyDevice(d) ==
    /\ running
    /\ d \in app_devices /\ app_buffers[d] = {}
    /\ devices' = [devices EXCEPT ![d] = None]
    /\ app_devices' = app_devices \ {d}
    /\ command_buffer' = [command_buffer EXCEPT ![d] = "initial"]
    /\ recorded' = [recorded EXCEPT ![d] = {}]
    /\ UNCHANGED <<instance_found, device_magic, host_devices, latest, several, bufferVars,
                   missed, running>>

\* Mutant: handles counted from the size of the map.
NextBufferBySize(d) == Cardinality(BuffersOf(d)) + 1

NextBuffer(d) == devices[d].buffer_handler_id

Register(d, host) ==
    devices' = [devices EXCEPT ![d].buffers[NextBuffer(d)] = host,
                               ![d].buffer_handler_id = @ + 1]

\* Without the instance the call returns ERROR_DEVICE_LOST.  The host's answer
\* is dropped: a null dispatch_handle is registered like any other.
CreateBuffer(d) ==
    /\ running /\ instance_found
    /\ d \in app_devices /\ devices[d].buffer_handler_id =< MaxBuffer
    /\ \/ Register(d, VK_NULL_HANDLE) /\ UNCHANGED host_buffers
       \/ \E h \in HostBuffer :
            /\ host_buffers[h] = None
            /\ host_buffers' = [host_buffers EXCEPT ![h] = d]
            /\ Register(d, h)
    /\ app_buffers' = [app_buffers EXCEPT ![d] = @ \cup {NextBuffer(d)}]
    /\ UNCHANGED <<instance_found, device_magic, host_devices, app_devices, latest, several,
                   commandVars, running>>

\* Mutant: the buffer is looked up in the table of device_magic, as the vkCmd calls do.
UnregisterByMagic(d, b) ==
    LET e == IF DeviceFound THEN device_magic ELSE d IN
    /\ host_buffers' = [h \in HostBuffer |->
         IF h = devices[e].buffers[b] THEN None ELSE host_buffers[h]]
    /\ devices' = [devices EXCEPT ![e].buffers[b] = None]

Unregister(d, b) ==
    /\ host_buffers' = [h \in HostBuffer |->
         IF h = devices[d].buffers[b] THEN None ELSE host_buffers[h]]
    /\ devices' = [devices EXCEPT ![d].buffers[b] = None]

Names(d, b) == \E c \in recorded[d] : \E i \in DOMAIN c.named : c.named[i] = b

\* Without the instance nothing is done, unseen by the application.
DestroyBuffer(d, b) ==
    /\ running
    /\ d \in app_devices /\ b \in app_buffers[d] /\ ~Names(d, b)
    /\ app_buffers' = [app_buffers EXCEPT ![d] = @ \ {b}]
    /\ IF instance_found
       THEN Unregister(d, b)
       ELSE UNCHANGED <<host_buffers, devices>>
    /\ UNCHANGED <<instance_found, device_magic, host_devices, app_devices, latest, several,
                   commandVars, running>>

\* Another instance is destroyed, which erases the entry of instance_magic, or
\* created, which makes one.
InstanceMagicChanges ==
    /\ running
    /\ instance_found' = ~instance_found
    /\ UNCHANGED <<deviceVars, bufferVars, commandVars, running>>

-----------------------------------------------------------------------------
(* Command buffers: Begin, End and Reset go through devices.begin(), any device *)
(* there is; the host acts on the command buffer it is handed.  Without the     *)
(* instance they return ERROR_DEVICE_LOST.                                      *)

BeginCommandBuffer(d) ==
    /\ running /\ instance_found
    /\ d \in app_devices /\ command_buffer[d] # "recording"
    /\ command_buffer' = [command_buffer EXCEPT ![d] = "recording"]
    /\ recorded' = [recorded EXCEPT ![d] = {}]
    /\ UNCHANGED <<instance_found, deviceVars, bufferVars, missed, running>>

EndCommandBuffer(d) ==
    /\ running /\ instance_found
    /\ d \in app_devices /\ command_buffer[d] = "recording"
    /\ command_buffer' = [command_buffer EXCEPT ![d] = "executable"]
    /\ UNCHANGED <<instance_found, deviceVars, bufferVars, recorded, missed, running>>

ResetCommandBuffer(d) ==
    /\ running /\ instance_found
    /\ d \in app_devices /\ command_buffer[d] # "initial"
    /\ command_buffer' = [command_buffer EXCEPT ![d] = "initial"]
    /\ recorded' = [recorded EXCEPT ![d] = {}]
    /\ UNCHANGED <<instance_found, deviceVars, bufferVars, missed, running>>

-----------------------------------------------------------------------------
(* Commands *)

\* Mutant: the table of some device, as devices.begin() gives it.
TableOfAny == devices[CHOOSE d \in DeviceHandle : devices[d] # None].buffers

Table == devices[device_magic].buffers

AllFound(named) == \A i \in DOMAIN named : Table[named[i]] # None

HostHandles(named) == [i \in DOMAIN named |-> Table[named[i]]]

MayRecord(d, named) ==
    /\ running
    /\ d \in app_devices /\ command_buffer[d] = "recording"
    /\ \A i \in DOMAIN named : named[i] \in app_buffers[d]
    /\ Cardinality(recorded[d]) < MaxCommands

\* The host records what it is handed; translated says whether the driver has
\* looked the buffers up.
Arrives(d, translated, named, host) ==
    /\ recorded' = [recorded EXCEPT ![d] =
         @ \cup {[translated |-> translated, named |-> named, host |-> host]}]
    /\ UNCHANGED <<instance_found, deviceVars, bufferVars, command_buffer, missed, running>>

Dropped(d) ==
    /\ missed' = (missed \/ (d = latest /\ instance_found))
    /\ UNCHANGED <<instance_found, deviceVars, bufferVars, command_buffer, recorded, running>>

Crashes(d) ==
    /\ running' = FALSE
    /\ missed' = (missed \/ d = latest)
    /\ UNCHANGED <<instance_found, deviceVars, bufferVars, command_buffer, recorded>>

\* The handles are collected before anything is checked.
CmdBindVertexBuffers(d, pBuffers) ==
    /\ MayRecord(d, pBuffers)
    /\ \/ ~DeviceFound /\ Crashes(d)
       \/ DeviceFound /\ ~AllFound(pBuffers) /\ Crashes(d)
       \/ /\ DeviceFound /\ AllFound(pBuffers)
          /\ IF instance_found
             THEN Arrives(d, TRUE, pBuffers, HostHandles(pBuffers))
             ELSE Dropped(d)

\* CmdDrawIndirect and CmdDrawIndexedIndirect look the buffer up before the device
\* is checked, and use what they found after.
CmdDrawIndirect(d, buffer) ==
    /\ MayRecord(d, <<buffer>>)
    /\ \/ ~DeviceFound /\ Crashes(d)
       \/ DeviceFound /\ ~instance_found /\ Dropped(d)
       \/ DeviceFound /\ instance_found /\ ~AllFound(<<buffer>>) /\ Crashes(d)
       \/ /\ DeviceFound /\ instance_found /\ AllFound(<<buffer>>)
          /\ Arrives(d, TRUE, <<buffer>>, HostHandles(<<buffer>>))

\* CmdBindIndexBuffer, CmdDispatchIndirect, CmdCopyBuffer, CmdUpdateBuffer,
\* CmdFillBuffer: the lookup is inside the check, and is not checked itself.
CmdOnBuffers(d, named) ==
    /\ MayRecord(d, named)
    /\ \/ ~(DeviceFound /\ instance_found) /\ Dropped(d)
       \/ DeviceFound /\ instance_found /\ ~AllFound(named) /\ Crashes(d)
       \/ /\ DeviceFound /\ instance_found /\ AllFound(named)
          /\ Arrives(d, TRUE, named, HostHandles(named))

\* CmdPipelineBarrier and CmdWaitEvents: the buffer of a VkBufferMemoryBarrier is
\* passed on as it is.
CmdPipelineBarrier(d, buffer) ==
    /\ MayRecord(d, <<buffer>>)
    /\ \/ ~(DeviceFound /\ instance_found) /\ Dropped(d)
       \/ /\ DeviceFound /\ instance_found
          /\ Arrives(d, FALSE, <<buffer>>, <<buffer>>)

Named == {<<b>> : b \in Buffer} \cup {<<b, c>> : b, c \in Buffer}

Next ==
    \/ CreateDevice
    \/ InstanceMagicChanges
    \/ \E d \in DeviceHandle :
         \/ DestroyDevice(d)
         \/ CreateBuffer(d)
         \/ BeginCommandBuffer(d)
         \/ EndCommandBuffer(d)
         \/ ResetCommandBuffer(d)
         \/ \E b \in Buffer :
              DestroyBuffer(d, b) \/ CmdDrawIndirect(d, b) \/ CmdPipelineBarrier(d, b)
         \/ \E named \in Named : CmdBindVertexBuffers(d, named) \/ CmdOnBuffers(d, named)

Spec == Init /\ [][Next]_vars

-----------------------------------------------------------------------------
(* Properties *)

\* The host is handed as many buffers as the application named, its own if the
\* driver has looked them up.
Command ==
    {c \in [translated : BOOLEAN, named : Named, host : Seq(HostValue \cup Buffer)] :
        c.host \in [DOMAIN c.named -> IF c.translated THEN HostValue ELSE Buffer]}

TypeOK ==
    /\ instance_found \in BOOLEAN
    /\ devices \in [DeviceHandle \cup {None} -> Device \cup {None}]
    /\ device_magic \in DeviceHandle \cup {None}
    /\ host_devices \in SUBSET DeviceHandle
    /\ host_buffers \in [HostBuffer -> DeviceHandle \cup {None}]
    /\ app_devices \in SUBSET DeviceHandle /\ latest \in DeviceHandle \cup {None}
    /\ app_buffers \in [DeviceHandle -> SUBSET Buffer]
    /\ command_buffer \in [DeviceHandle -> {"initial", "recording", "executable"}]
    /\ recorded \in [DeviceHandle -> SUBSET Command]
    /\ several \in BOOLEAN /\ missed \in BOOLEAN /\ running \in BOOLEAN

\* The host buffers of the command are those of the VkBuffers the application
\* named, alive and the device's own.
AsNamed(d, c) ==
    \A i \in DOMAIN c.named :
        /\ c.host[i] = devices[d].buffers[c.named[i]]
        /\ c.host[i] # VK_NULL_HANDLE => host_buffers[c.host[i]] = d

\* With one device at a time, a recorded command goes on naming the buffers the
\* application named, whatever other buffers and earlier devices come and go in
\* between.
RecordedAsNamed ==
    ~several => \A d \in app_devices : \A c \in recorded[d] : c.translated => AsNamed(d, c)

\* Also with several devices, a command that names what the application named
\* goes on doing so, whatever is created and destroyed on whichever device; and
\* what is recorded while device_magic is the command's device begins so.  The
\* moment of recording (the vkCmd lookups in device_magic) is the only one at
\* which a command can go wrong.
CommandsStayAsNamed ==
    [][\A d \in app_devices' : \A c \in recorded'[d] :
          /\ c.translated
          /\ IF c \in recorded[d] THEN AsNamed(d, c) ELSE device_magic = d
          => AsNamed(d, c)']_vars

\* Also with several devices, the host buffers handed to a vkCmd function are
\* alive and of the device the function was looked up on, even where that is not
\* the command buffer's device (the lookup and the call use the same iterator).
HostBuffersOfDeviceCalled ==
    [][\A d \in DeviceHandle : \A c \in recorded'[d] \ recorded[d] :
          c.translated =>
              \A i \in DOMAIN c.host :
                  c.host[i] # VK_NULL_HANDLE => host_buffers[c.host[i]] = device_magic]_vars

\* A command for the device created last reaches the host whenever the instance is
\* found and never runs into an end iterator, found or not, however many devices
\* there are and whatever instances and devices come and go in between; so an
\* application that keeps one device at a time never stops at a vkCmd function.
\* (Commands for a device created before it are lost or crash: device_magic is not
\* their device.)
CommandsArrive == ~missed /\ (~several => running)

\* A function the driver implements gives the host the host's own handles.
ImplementedCallsPassHostHandles ==
    \A d \in DeviceHandle : \A c \in recorded[d] :
        \A i \in DOMAIN c.host : c.host[i] \in HostValue

=============================================================================
