--------------------------- MODULE ObjectLifecycle ---------------------------
(***************************************************************************)
(* Instances, physical devices, devices and queues: instance.cpp,          *)
(* vlk_trampoline_call_EnumeratePhysicalDevices and the device, queue and  *)
(* command buffer calls of device.cpp, as far as they find their way to    *)
(* the host.  The driver uses the host's handles for these objects and     *)
(* keeps two "magic" handles, of the last instance and of the last device  *)
(* created, through which most calls go whatever object they are about.    *)
(*                                                                         *)
(* The application follows Vulkan's rules: it enumerates before it creates *)
(* a device, destroys the devices of an instance before the instance, and  *)
(* passes only handles it holds.                                           *)
(***************************************************************************)
EXTENDS Integers, FiniteSets

CONSTANTS
    InstanceHandle,     \* VkInstance values the host can return
    DeviceHandle,       \* VkDevice values the host can return
    Queue,              \* (family, index) pairs a device can be created with
    MaxLiveInstances,   \* bound: instances the application keeps at a time
    MaxLiveDevices,     \* bound: devices, over all instances
    None                \* no object: the initial magic value, "end()"

ASSUME LifecycleAssumption ==
    /\ None \notin InstanceHandle \cup DeviceHandle
    /\ \A Q \in SUBSET Queue : Q # None
    /\ MaxLiveInstances \in Nat
    /\ MaxLiveDevices \in Nat

VARIABLES
    host_instances, host_devices,        \* what the host has alive
    instances, instance_magic,           \* the driver: handles with an entry
    physicalDevices,                     \* one per instance, named after it
    devices, device_magic,               \* each device with its queues, or None
    app_instances, app_devices,          \* what the application holds
    crowd,     \* of what the application has ever held two at a time
    running,   \* FALSE once an exception left the driver, or an end iterator was used
    last       \* the last call: what it was about, and what it went through

hostVars == <<host_instances, host_devices>>
driverVars == <<instances, instance_magic, physicalDevices, devices, device_magic>>
appVars == <<app_instances, app_devices, crowd>>
vars == <<hostVars, driverVars, appVars, running, last>>

Devices == {d \in DeviceHandle : devices[d] # None}
LiveDevices == {d \in DeviceHandle : app_devices[d] # None}
InstanceFound == instance_magic \in instances
DeviceFound == device_magic \in Devices

Init ==
    /\ host_instances = {} /\ host_devices = {}
    /\ instances = {} /\ instance_magic = None
    /\ physicalDevices = {}
    /\ devices = [d \in DeviceHandle |-> None] /\ device_magic = None
    /\ app_instances = {}
    /\ app_devices = [d \in DeviceHandle |-> None]  \* the instance of each
    /\ crowd = {}
    /\ running = TRUE
    /\ last = [call |-> "none", on |-> None, via |-> None, result |-> "SUCCESS"]

\* via is the object whose host function was called, None if none was.
Called(call, on, via, result) ==
    last' = [call |-> call, on |-> on, via |-> via, result |-> result]

Completes(call, on, via, result) == Called(call, on, via, result) /\ UNCHANGED running

\* std::runtime_error, which VLK_LOG throws too when its level is ERROR, or a
\* dereferenced end(): the application does not survive the call.
Throws(call, on, why) ==
    /\ Called(call, on, None, why)
    /\ running' = FALSE
    /\ UNCHANGED <<hostVars, driverVars, appVars>>

-----------------------------------------------------------------------------
(* instance.cpp and physical_device.cpp *)

\* Mutant: *pInstance is registered before the result is looked at.
CreateInstanceUnchecked ==
    /\ running
    /\ Cardinality(app_instances) < MaxLiveInstances
    /\ Called("CreateInstance", None, None, "HOST_REFUSED")
    /\ running' = FALSE
    /\ instances' = instances \cup {None}
    /\ UNCHANGED <<hostVars, instance_magic, physicalDevices, devices, device_magic, appVars>>

\* Mutant: the magic value is defined once, by the first instance.
FirstMagic(i) == IF instance_magic = None THEN i ELSE instance_magic

NewMagic(i) == i

CreateInstance ==
    /\ running
    /\ Cardinality(app_instances) < MaxLiveInstances
    /\ \/ Throws("CreateInstance", None, "HOST_REFUSED")
       \/ \E i \in InstanceHandle \ host_instances :
            /\ host_instances' = host_instances \cup {i}
            /\ instance_magic' = NewMagic(i)
            /\ instances' = instances \cup {i}
            /\ app_instances' = app_instances \cup {i}
            /\ crowd' = crowd \cup (IF app_instances = {} THEN {} ELSE {"instances"})
            /\ Completes("CreateInstance", i, i, "SUCCESS")
            /\ UNCHANGED <<host_devices, physicalDevices, devices, device_magic, app_devices>>

\* Mutant: no entry is erased.
ErasesNone(i) == {}

\* The entry DestroyInstance of i erases is that of instance_magic.
Erases(i) == {instance_magic}

\* The argument is only passed on to the host.
DestroyInstance(i) ==
    /\ running
    /\ i \in app_instances
    /\ \A d \in LiveDevices : app_devices[d] # i
    /\ \/ /\ InstanceFound
          /\ host_instances' = host_instances \ {i}
          /\ instances' = instances \ Erases(i)
          /\ app_instances' = app_instances \ {i}
          /\ Completes("DestroyInstance", i, instance_magic, "SUCCESS")
          /\ UNCHANGED <<host_devices, instance_magic, physicalDevices, devices,
                         device_magic, app_devices, crowd>>
       \/ /\ ~InstanceFound
          /\ Throws("DestroyInstance", i, "INVALID_INSTANCE")

\* The entries are made when the application asks for the handles and not for
\* their number only; a host without physical devices makes it VK_INCOMPLETE.
EnumeratePhysicalDevices(i) ==
    /\ running
    /\ i \in app_instances
    /\ \/ /\ i \in instances
          /\ physicalDevices' = physicalDevices \cup {i}
          /\ Completes("EnumeratePhysicalDevices", i, i, "SUCCESS")
          /\ UNCHANGED <<hostVars, appVars, instances, instance_magic, devices, device_magic>>
       \/ /\ i \in instances
          /\ \E result \in {"SUCCESS", "INCOMPLETE"} :
               Completes("EnumeratePhysicalDevices", i, i, result)
          /\ UNCHANGED <<hostVars, driverVars, appVars>>
       \/ i \notin instances /\ Throws("EnumeratePhysicalDevices", i, "NO_INSTANCE")

\* An application has a physical device to ask about once it has enumerated
\* them; so the lookup in physicalDevices, which throws, finds it.
MayQuery(i) == running /\ i \in app_instances /\ i \in physicalDevices

\* The features and properties of a physical device, by the host function of
\* instance_magic; without it the application's structure is left as it was.
PhysicalDeviceQuery(i) ==
    /\ MayQuery(i)
    /\ IF InstanceFound THEN Completes("PhysicalDeviceQuery", i, instance_magic, "SUCCESS")
                        ELSE Completes("PhysicalDeviceQuery", i, None, "DROPPED")
    /\ UNCHANGED <<hostVars, driverVars, appVars>>

\* Sparse images are refused before the instance, which is only logged as
\* missing, is used.
GetPhysicalDeviceImageFormatProperties(i, sparse) ==
    /\ MayQuery(i)
    /\ \/ /\ sparse
          /\ Completes("ImageFormatProperties", i, None, "ERROR_FORMAT_NOT_SUPPORTED")
          /\ UNCHANGED <<hostVars, driverVars, appVars>>
       \/ /\ ~sparse /\ InstanceFound
          /\ Completes("ImageFormatProperties", i, instance_magic, "SUCCESS")
          /\ UNCHANGED <<hostVars, driverVars, appVars>>
       \/ ~sparse /\ ~InstanceFound /\ Throws("ImageFormatProperties", i, "END_ITERATOR")

EnumerateDeviceExtensionProperties(i) ==
    /\ MayQuery(i)
    /\ IF InstanceFound
       THEN Completes("DeviceExtensions", i, instance_magic, "SUCCESS")
       ELSE Completes("DeviceExtensions", i, None, "ERROR_INITIALIZATION_FAILED")
    /\ UNCHANGED <<hostVars, driverVars, appVars>>

-----------------------------------------------------------------------------
(* Entry points.  A name the driver implements is answered from its tables, for *)
(* any object; every other name is looked up on the host.  The loader asks      *)
(* without an instance only for names of the first kind.                        *)

GetInstanceProcAddr(i, implemented) ==
    /\ running
    /\ i \in app_instances \/ (i = None /\ implemented)
    /\ \/ /\ implemented
          /\ Completes("GetInstanceProcAddr", i, None, "TRAMPOLINE")
          /\ UNCHANGED <<hostVars, driverVars, appVars>>
       \/ /\ ~implemented /\ i \in instances
          /\ Completes("GetInstanceProcAddr", i, i, "SUCCESS")
          /\ UNCHANGED <<hostVars, driverVars, appVars>>
       \/ ~implemented /\ i \notin instances /\ Throws("GetInstanceProcAddr", i, "END_ITERATOR")

GetDeviceProcAddr(d, implemented) ==
    /\ running
    /\ d \in LiveDevices
    /\ \/ /\ implemented
          /\ Completes("GetDeviceProcAddr", d, None, "TRAMPOLINE")
          /\ UNCHANGED <<hostVars, driverVars, appVars>>
       \/ /\ ~implemented /\ InstanceFound /\ d \in Devices
          /\ Completes("GetDeviceProcAddr", d, d, "SUCCESS")
          /\ UNCHANGED <<hostVars, driverVars, appVars>>
       \/ /\ ~implemented /\ ~(InstanceFound /\ d \in Devices)
          /\ Throws("GetDeviceProcAddr", d, "END_ITERATOR")

-----------------------------------------------------------------------------
(* Devices and queues *)

CreateDevice(i, Q) ==
    /\ running
    /\ i \in app_instances /\ i \in physicalDevices
    /\ Cardinality(LiveDevices) < MaxLiveDevices
    /\ \/ /\ ~InstanceFound
          /\ Completes("CreateDevice", i, None, "ERROR_INITIALIZATION_FAILED")
          /\ UNCHANGED <<hostVars, driverVars, appVars>>
       \/ InstanceFound /\ Throws("CreateDevice", i, "HOST_REFUSED")
       \/ /\ InstanceFound
          /\ \E d \in DeviceHandle \ host_devices :
               /\ host_devices' = host_devices \cup {d}
               /\ device_magic' = d
               /\ devices' = [devices EXCEPT ![d] = Q]
               /\ app_devices' = [app_devices EXCEPT ![d] = i]
          /\ crowd' = crowd \cup (IF LiveDevices = {} THEN {} ELSE {"devices"})
          /\ Completes("CreateDevice", i, instance_magic, "SUCCESS")
          /\ UNCHANGED <<host_instances, instances, instance_magic, physicalDevices,
                         app_instances>>

\* Mutant: the entry erased is that of device_magic, as DestroyInstance does it.
DevicesWithoutMagic(d) == [devices EXCEPT ![IF DeviceFound THEN device_magic ELSE d] = None]

\* Mutant: the maps of the device are cleared and its entry stays.
DevicesWithCleared(d) == [devices EXCEPT ![d] = {}]

DevicesWithout(d) == [devices EXCEPT ![d] = None]

\* vkDestroyDevice is called only if neither the device nor the instance is
\* found, that is never: the host keeps the device.  device_magic stays.
DestroyDevice(d) ==
    /\ running
    /\ d \in LiveDevices
    /\ devices' = DevicesWithout(d)
    /\ app_devices' = [app_devices EXCEPT ![d] = None]
    /\ Completes("DestroyDevice", d, None, "SUCCESS")
    /\ UNCHANGED <<hostVars, instances, instance_magic, physicalDevices, device_magic,
                   app_instances, crowd>>

Nothing == UNCHANGED <<hostVars, driverVars, appVars>>

GetDeviceQueue(d, q) ==
    /\ running
    /\ d \in LiveDevices /\ q \in devices[d]
    /\ Completes("GetDeviceQueue", d, d, "SUCCESS")
    /\ Nothing

\* The queue is looked for among the queues of device_magic.
QueueFound(d, q) == device_magic = d /\ q \in devices[d]

QueueSubmit(d, q) ==
    /\ running
    /\ d \in LiveDevices /\ q \in devices[d]
    /\ \/ /\ InstanceFound /\ DeviceFound /\ QueueFound(d, q)
          /\ Completes("QueueSubmit", d, device_magic, "SUCCESS")
          /\ Nothing
       \/ /\ ~(InstanceFound /\ DeviceFound /\ QueueFound(d, q))
          /\ Throws("QueueSubmit", d, "END_ITERATOR")

QueueWaitIdle(d, q) ==
    /\ running
    /\ d \in LiveDevices /\ q \in devices[d]
    /\ \/ /\ ~DeviceFound
          /\ Throws("QueueWaitIdle", d, "END_ITERATOR")
       \/ /\ DeviceFound
          /\ IF QueueFound(d, q) /\ InstanceFound
             THEN Completes("QueueWaitIdle", d, device_magic, "SUCCESS")
             ELSE Completes("QueueWaitIdle", d, None, "ERROR_DEVICE_LOST")
          /\ Nothing

\* ERROR_DEVICE_LOST wants both lookups to fail.  The host function called on
\* the device is vkQueueWaitIdle; what the host makes of that is not modelled.
DeviceWaitIdle(d) ==
    /\ running
    /\ d \in LiveDevices
    /\ \/ InstanceFound /\ Completes("DeviceWaitIdle", d, None, "MISDIRECTED") /\ Nothing
       \/ ~InstanceFound /\ Throws("DeviceWaitIdle", d, "END_ITERATOR")

-----------------------------------------------------------------------------
(* Calls that are handed to the host *)

\* Mutant: the device is that of device_magic, as in the vkCmd calls.
DeviceCallByMagic(d) ==
    /\ running
    /\ d \in LiveDevices
    /\ IF InstanceFound /\ DeviceFound
       THEN Completes("DeviceCall", d, device_magic, "SUCCESS")
       ELSE Completes("DeviceCall", d, None, "ERROR_DEVICE_LOST")
    /\ Nothing

\* What creates or allocates shader modules, pipelines, samplers, descriptor
\* sets, framebuffers, render passes, command pools and command buffers: the
\* device is the argument's.
DeviceCall(d) ==
    /\ running
    /\ d \in LiveDevices
    /\ IF InstanceFound THEN Completes("DeviceCall", d, d, "SUCCESS")
                        ELSE Completes("DeviceCall", d, None, "ERROR_DEVICE_LOST")
    /\ Nothing

\* The calls of the same objects that return nothing: vkDestroy*, vkFree*,
\* vkUpdateDescriptorSets.  Without the instance they are dropped, unseen.
DeviceVoidCall(d) ==
    /\ running
    /\ d \in LiveDevices
    /\ IF InstanceFound THEN Completes("DeviceVoidCall", d, d, "SUCCESS")
                        ELSE Completes("DeviceVoidCall", d, None, "DROPPED")
    /\ Nothing

\* Begin, End and ResetCommandBuffer take devices.begin(), which is any device.
BeginCommandBuffer(d) ==
    /\ running
    /\ d \in LiveDevices
    /\ \/ /\ InstanceFound
          /\ \E e \in Devices : Completes("BeginCommandBuffer", d, e, "SUCCESS")
       \/ /\ ~InstanceFound
          /\ Completes("BeginCommandBuffer", d, None, "ERROR_DEVICE_LOST")
    /\ Nothing

\* The vkCmd calls take device_magic, and are dropped without it.  (The buffers
\* and images some of them name are not modelled.)
CommandCall(d) ==
    /\ running
    /\ d \in LiveDevices
    /\ IF InstanceFound /\ DeviceFound
       THEN Completes("CommandCall", d, device_magic, "SUCCESS")
       ELSE Completes("CommandCall", d, None, "DROPPED")
    /\ Nothing

OtherCall ==
    \/ \E i \in InstanceHandle :
         \/ DestroyInstance(i)
         \/ EnumeratePhysicalDevices(i)
         \/ PhysicalDeviceQuery(i)
         \/ \E sparse \in BOOLEAN : GetPhysicalDeviceImageFormatProperties(i, sparse)
         \/ EnumerateDeviceExtensionProperties(i)
    \/ \E i \in InstanceHandle, Q \in SUBSET Queue \ {{}} : CreateDevice(i, Q)
    \/ \E d \in DeviceHandle :
         \/ DestroyDevice(d)
         \/ \E q \in Queue : GetDeviceQueue(d, q) \/ QueueSubmit(d, q) \/ QueueWaitIdle(d, q)
         \/ DeviceWaitIdle(d)
         \/ DeviceCall(d)
         \/ DeviceVoidCall(d)
         \/ BeginCommandBuffer(d)
         \/ CommandCall(d)
         \/ \E implemented \in BOOLEAN : GetDeviceProcAddr(d, implemented)

Next ==
    \/ CreateInstance
    \/ \E i \in InstanceHandle \cup {None}, implemented \in BOOLEAN :
         GetInstanceProcAddr(i, implemented)
    \/ OtherCall

Spec == Init /\ [][Next]_vars

-----------------------------------------------------------------------------
(* Properties *)

CallName == {"none", "CreateInstance", "DestroyInstance", "EnumeratePhysicalDevices",
             "CreateDevice", "DestroyDevice", "GetDeviceQueue", "QueueSubmit",
             "QueueWaitIdle", "DeviceWaitIdle", "DeviceCall", "DeviceVoidCall",
             "BeginCommandBuffer", "CommandCall", "PhysicalDeviceQuery",
             "ImageFormatProperties", "DeviceExtensions", "GetInstanceProcAddr",
             "GetDeviceProcAddr"}

CallResult == {"SUCCESS", "ERROR_INITIALIZATION_FAILED", "ERROR_DEVICE_LOST", "DROPPED",
               "INCOMPLETE", "MISDIRECTED", "TRAMPOLINE", "ERROR_FORMAT_NOT_SUPPORTED",
               "HOST_REFUSED", "NO_HOST_LIBRARY", "EXTENSION_NOT_PRESENT",
               "INVALID_INSTANCE", "NO_INSTANCE", "END_ITERATOR"}

Object == InstanceHandle \cup DeviceHandle \cup {None}

TypeOK ==
    /\ host_instances \in SUBSET InstanceHandle
    /\ host_devices \in SUBSET DeviceHandle
    /\ instances \in SUBSET InstanceHandle
    /\ instance_magic \in InstanceHandle \cup {None}
    /\ physicalDevices \in SUBSET InstanceHandle
    /\ devices \in [DeviceHandle -> (SUBSET Queue) \cup {None}]
    /\ device_magic \in DeviceHandle \cup {None}
    /\ app_instances \in SUBSET InstanceHandle
    /\ app_devices \in [DeviceHandle -> InstanceHandle \cup {None}]
    /\ crowd \in SUBSET {"instances", "devices"}
    /\ running \in BOOLEAN
    /\ last \in [call : CallName, on : Object, via : Object, result : CallResult]

\* Host functions are never looked up on an instance the host has destroyed: the
\* entry of instance_magic goes with the first instance destroyed after it was
\* created, whichever that is.
MagicNeverDangles == InstanceFound => instance_magic \in host_instances

\* A device the application holds is found, under its own queues, and is alive on
\* the host, however many instances have come and gone; one it destroyed is not
\* found again even if the host hands its handle out later.
DevicesTracked ==
    /\ Devices = LiveDevices
    /\ Devices \subseteq host_devices

\* With one instance at a time the driver, the host and the application agree
\* about which instance there is, and it is the one the calls go through.
OneInstanceKnown ==
    "instances" \notin crowd =>
        /\ instances = app_instances
        /\ host_instances = app_instances
        /\ app_instances \subseteq {instance_magic}

\* A correct application that keeps one instance and one device is only ever
\* brought down by a refusal of the host, or because there is none, which
\* VLK_LOG(ERROR) turns into an exception; no call of the driver throws or uses
\* an end iterator otherwise.
OnlyHostRefusalStops ==
    crowd = {} => (running \/ last.result \in {"HOST_REFUSED", "NO_HOST_LIBRARY"})

ByArgument == {"GetDeviceQueue", "DeviceCall", "DeviceVoidCall", "PhysicalDeviceQuery",
               "ImageFormatProperties", "DeviceExtensions", "GetInstanceProcAddr",
               "GetDeviceProcAddr"}

\* What the driver answers by itself, whichever objects there are.
ByItself == {"TRAMPOLINE", "ERROR_FORMAT_NOT_SUPPORTED"}

ByMagic == {"QueueSubmit", "QueueWaitIdle", "BeginCommandBuffer", "CommandCall"}

\* A call that names its device, or the lookup of a name the driver leaves to the
\* host, reaches that object on the host and is never refused or dropped, also
\* with several devices alive, as long as the application has kept one instance
\* at a time; and so do the queries of physical devices, which take the
\* functions of instance_magic for the physical device of their argument.
ArgumentCallsArrive ==
    ("instances" \notin crowd /\ last.call \in ByArgument /\ last.result \notin ByItself) =>
        last.via = last.on

\* A call on a queue or a command buffer reaches the device the object belongs
\* to; device_magic and devices.begin() are that device while there has been one
\* instance and one device at a time.
MagicCallsArrive == (last.call \in ByMagic /\ crowd = {}) => last.via = last.on

\* "Invalid instance passed to vlk_trampoline_call_DestroyInstance" is thrown for
\* an instance that is not one, not for one the application holds.
OnlyInvalidInstanceRefused ==
    last.result = "INVALID_INSTANCE" => last.on \notin app_instances

=============================================================================
