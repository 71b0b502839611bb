----------------------- MODULE ObjectLifecycle_proofs -----------------------
(***************************************************************************)
(* Proofs about ObjectLifecycle.  The argument: an application that keeps  *)
(* one instance at a time has the instance of instance_magic, and one that *)
(* keeps one device at a time has the device of device_magic; the parent   *)
(* of a live device is a live instance; so no lookup fails and none finds  *)
(* another object than the call is about.                                  *)
(***************************************************************************)
EXTENDS ObjectLifecycle, TLAPS

\* A device outlives neither the instance it was made from nor its handle.
ParentsLive == \A d \in LiveDevices : app_devices[d] \in app_instances

OneDeviceKnown == "devices" \notin crowd => LiveDevices \subseteq {device_magic}

\* What the calls find: the inductive part.
LifecycleInv ==
    /\ TypeOK
    /\ MagicNeverDangles
    /\ DevicesTracked
    /\ OneInstanceKnown
    /\ ParentsLive
    /\ OneDeviceKnown

\* What the last call did: it follows from LifecycleInv before that call.
OutcomeInv ==
    /\ OnlyHostRefusalStops
    /\ ArgumentCallsArrive
    /\ MagicCallsArrive

-----------------------------------------------------------------------------
(* The inductive part *)

LEMMA LifecycleInit == Init => LifecycleInv /\ OutcomeInv
BY LifecycleAssumption
   DEF Init, LifecycleInv, OutcomeInv, TypeOK, MagicNeverDangles, InstanceFound, DevicesTracked,
       OneInstanceKnown, ParentsLive, OneDeviceKnown, Devices, LiveDevices,
       OnlyHostRefusalStops, ArgumentCallsArrive, MagicCallsArrive, Object, CallName,
       CallResult, ByArgument, ByMagic

\* A call that changes no object keeps what the calls find.
LEMMA QuietStep ==
    ASSUME LifecycleInv, UNCHANGED <<hostVars, driverVars, appVars>>,
           running' \in BOOLEAN,
           last' \in [call : CallName, on : Object, via : Object, result : CallResult]
    PROVE  LifecycleInv'
BY DEF LifecycleInv, TypeOK, MagicNeverDangles, InstanceFound, DevicesTracked,
       OneInstanceKnown, ParentsLive, OneDeviceKnown, Devices, LiveDevices,
       hostVars, driverVars, appVars

LEMMA ThrowsKeeps ==
    ASSUME LifecycleInv, NEW call \in CallName, NEW on \in Object, NEW why \in CallResult,
           Throws(call, on, why)
    PROVE  LifecycleInv'
<1>1. /\ UNCHANGED <<hostVars, driverVars, appVars>>
      /\ running' \in BOOLEAN
      /\ last' \in [call : CallName, on : Object, via : Object, result : CallResult]
    BY DEF Throws, Called, Object
<1> QED BY <1>1, QuietStep

LEMMA CompletesKeeps ==
    ASSUME LifecycleInv, NEW call \in CallName, NEW on \in Object, NEW via \in Object,
           NEW result \in CallResult,
           Completes(call, on, via, result), UNCHANGED <<hostVars, driverVars, appVars>>
    PROVE  LifecycleInv'
<1>1. /\ running' \in BOOLEAN
      /\ last' \in [call : CallName, on : Object, via : Object, result : CallResult]
    BY DEF Completes, Called, LifecycleInv, TypeOK
<1> QED BY <1>1, QuietStep

LEMMA CallsAndResults ==
    /\ CallName = {"none", "CreateInstance", "DestroyInstance", "EnumeratePhysicalDevices",
             "CreateDevice", "DestroyDevice", "GetDeviceQueue", "QueueSubmit",
             "QueueWaitIdle", "DeviceWaitIdle", "DeviceCall", "DeviceVoidCall",
             "BeginCommandBuffer", "CommandCall", "PhysicalDeviceQuery",
             "ImageFormatProperties", "DeviceExtensions", "GetInstanceProcAddr",
             "GetDeviceProcAddr"}
    /\ CallResult = {"SUCCESS", "ERROR_INITIALIZATION_FAILED", "ERROR_DEVICE_LOST", "DROPPED",
               "INCOMPLETE", "MISDIRECTED", "TRAMPOLINE", "ERROR_FORMAT_NOT_SUPPORTED",
               "HOST_REFUSED", "NO_HOST_LIBRARY", "EXTENSION_NOT_PRESENT",
               "INVALID_INSTANCE", "NO_INSTANCE", "END_ITERATOR"}
    /\ None \in Object /\ InstanceHandle \subseteq Object /\ DeviceHandle \subseteq Object
BY DEF CallName, CallResult, Object

LEMMA CreateInstanceKeeps == LifecycleInv /\ CreateInstance => LifecycleInv'
<1> SUFFICES ASSUME LifecycleInv, CreateInstance PROVE LifecycleInv'
    OBVIOUS
<1>1. CASE Throws("CreateInstance", None, "HOST_REFUSED")
    BY <1>1, ThrowsKeeps, CallsAndResults
<1>2. CASE ~Throws("CreateInstance", None, "HOST_REFUSED")
    <2>1. PICK i \in InstanceHandle \ host_instances :
            /\ host_instances' = host_instances \cup {i}
            /\ instance_magic' = i
            /\ instances' = instances \cup {i}
            /\ app_instances' = app_instances \cup {i}
            /\ crowd' = crowd \cup (IF app_instances = {} THEN {} ELSE {"instances"})
            /\ Completes("CreateInstance", i, i, "SUCCESS")
            /\ UNCHANGED <<host_devices, physicalDevices, devices, device_magic, app_devices>>
        BY <1>2 DEF CreateInstance, NewMagic
    <2>2. TypeOK'
        BY <2>1, CallsAndResults DEF LifecycleInv, TypeOK, Completes, Called
    <2>3. MagicNeverDangles'
        BY <2>1 DEF MagicNeverDangles, InstanceFound
    <2>4. OneInstanceKnown'
        BY <2>1 DEF LifecycleInv, OneInstanceKnown
    <2>5. (DevicesTracked /\ ParentsLive /\ OneDeviceKnown)'
        BY <2>1 DEF LifecycleInv, DevicesTracked, ParentsLive, OneDeviceKnown, Devices, LiveDevices
    <2> QED BY <2>2, <2>3, <2>4, <2>5 DEF LifecycleInv
<1> QED BY <1>1, <1>2

LEMMA DestroyInstanceKeeps ==
    ASSUME LifecycleInv, NEW i \in InstanceHandle, DestroyInstance(i)
    PROVE  LifecycleInv'
<1>1. CASE Throws("DestroyInstance", i, "INVALID_INSTANCE")
    BY <1>1, ThrowsKeeps, CallsAndResults
<1>2. CASE ~Throws("DestroyInstance", i, "INVALID_INSTANCE")
    <2>1. /\ i \in app_instances
          /\ \A d \in LiveDevices : app_devices[d] # i
          /\ instance_magic \in instances
          /\ host_instances' = host_instances \ {i}
          /\ instances' = instances \ {instance_magic}
          /\ app_instances' = app_instances \ {i}
          /\ Completes("DestroyInstance", i, instance_magic, "SUCCESS")
          /\ UNCHANGED <<host_devices, instance_magic, physicalDevices, devices,
                         device_magic, app_devices, crowd>>
        BY <1>2 DEF DestroyInstance, Erases, InstanceFound
    <2>2. TypeOK'
        BY <2>1, CallsAndResults DEF LifecycleInv, TypeOK, Completes, Called
    <2>3. MagicNeverDangles'
        BY <2>1 DEF MagicNeverDangles, InstanceFound
    <2>4. OneInstanceKnown'
        BY <2>1 DEF LifecycleInv, OneInstanceKnown
    <2>5. (DevicesTracked /\ ParentsLive /\ OneDeviceKnown)'
        BY <2>1 DEF LifecycleInv, DevicesTracked, ParentsLive, OneDeviceKnown, Devices, LiveDevices
    <2> QED BY <2>2, <2>3, <2>4, <2>5 DEF LifecycleInv
<1> QED BY <1>1, <1>2

LEMMA EnumerateKeeps ==
    ASSUME LifecycleInv, NEW i \in InstanceHandle, EnumeratePhysicalDevices(i)
    PROVE  LifecycleInv'
<1>1. CASE Throws("EnumeratePhysicalDevices", i, "NO_INSTANCE")
    BY <1>1, ThrowsKeeps, CallsAndResults
<1>2. CASE UNCHANGED driverVars /\ ~Throws("EnumeratePhysicalDevices", i, "NO_INSTANCE")
    <2>1. \E result \in {"SUCCESS", "INCOMPLETE"} :
             Completes("EnumeratePhysicalDevices", i, i, result)
        BY <1>2 DEF EnumeratePhysicalDevices
    <2>2. UNCHANGED <<hostVars, driverVars, appVars>>
        BY <1>2 DEF EnumeratePhysicalDevices
    <2> QED BY <2>1, <2>2, CompletesKeeps, CallsAndResults
<1>3. CASE ~UNCHANGED driverVars
    <2>1. /\ physicalDevices' = physicalDevices \cup {i}
          /\ Completes("EnumeratePhysicalDevices", i, i, "SUCCESS")
          /\ UNCHANGED <<hostVars, appVars, instances, instance_magic, devices, device_magic>>
        BY <1>3 DEF EnumeratePhysicalDevices, Throws
    <2>2. TypeOK'
        BY <2>1, CallsAndResults DEF LifecycleInv, TypeOK, Completes, Called, hostVars, appVars
    <2>3. (MagicNeverDangles /\ DevicesTracked /\ OneInstanceKnown /\ ParentsLive /\ OneDeviceKnown)'
        BY <2>1 DEF LifecycleInv, MagicNeverDangles, InstanceFound, DevicesTracked,
            OneInstanceKnown, ParentsLive, OneDeviceKnown, Devices, LiveDevices, hostVars, appVars
    <2> QED BY <2>2, <2>3 DEF LifecycleInv
<1> QED BY <1>1, <1>2, <1>3

LEMMA CreateDeviceKeeps ==
    ASSUME LifecycleInv, NEW i \in InstanceHandle, NEW Q \in SUBSET Queue, CreateDevice(i, Q)
    PROVE  LifecycleInv'
<1>1. CASE Throws("CreateDevice", i, "HOST_REFUSED")
    BY <1>1, ThrowsKeeps, CallsAndResults
<1>2. CASE /\ Completes("CreateDevice", i, None, "ERROR_INITIALIZATION_FAILED")
           /\ UNCHANGED <<hostVars, driverVars, appVars>>
    BY <1>2, CompletesKeeps, CallsAndResults
<1>3. CASE \E d \in DeviceHandle \ host_devices :
               /\ host_devices' = host_devices \cup {d}
               /\ device_magic' = d
               /\ devices' = [devices EXCEPT ![d] = Q]
               /\ app_devices' = [app_devices EXCEPT ![d] = i]
    <2>1. PICK d \in DeviceHandle \ host_devices :
               /\ host_devices' = host_devices \cup {d}
               /\ device_magic' = d
               /\ devices' = [devices EXCEPT ![d] = Q]
               /\ app_devices' = [app_devices EXCEPT ![d] = i]
        BY <1>3
    <2>2. CASE /\ crowd' = crowd \cup (IF LiveDevices = {} THEN {} ELSE {"devices"})
               /\ i \in app_instances
               /\ Completes("CreateDevice", i, instance_magic, "SUCCESS")
               /\ UNCHANGED <<host_instances, instances, instance_magic, physicalDevices,
                              app_instances>>
        <3>1. TypeOK'
            BY <2>1, <2>2, CallsAndResults
               DEF LifecycleInv, TypeOK, Completes, Called, Object
        <3>2. /\ devices \in [DeviceHandle -> (SUBSET Queue) \cup {None}]
              /\ app_devices \in [DeviceHandle -> InstanceHandle \cup {None}]
              /\ Q # None /\ i # None
            BY LifecycleAssumption DEF LifecycleInv, TypeOK
        <3>3. Devices' = Devices \cup {d} /\ LiveDevices' = LiveDevices \cup {d}
            BY <2>1, <3>2 DEF Devices, LiveDevices
        <3>4. DevicesTracked'
            BY <2>1, <3>3 DEF LifecycleInv, DevicesTracked
        <3>5. ParentsLive'
            BY <2>1, <2>2, <3>2, <3>3 DEF LifecycleInv, ParentsLive
        <3>6. OneDeviceKnown'
            BY <2>1, <2>2, <3>3 DEF LifecycleInv, OneDeviceKnown
        <3>7. (MagicNeverDangles /\ OneInstanceKnown)'
            BY <2>2 DEF LifecycleInv, MagicNeverDangles, InstanceFound, OneInstanceKnown
        <3> QED BY <3>1, <3>4, <3>5, <3>6, <3>7 DEF LifecycleInv
    <2>3. CASE Throws("CreateDevice", i, "HOST_REFUSED")
        BY <1>1, <2>3
    <2>4. CASE /\ Completes("CreateDevice", i, None, "ERROR_INITIALIZATION_FAILED")
               /\ UNCHANGED <<hostVars, driverVars, appVars>>
        BY <1>2, <2>4
    <2> QED BY <2>2, <2>3, <2>4 DEF CreateDevice
<1> QED BY <1>1, <1>2, <1>3 DEF CreateDevice

LEMMA DestroyDeviceKeeps ==
    ASSUME LifecycleInv, NEW d \in DeviceHandle, DestroyDevice(d)
    PROVE  LifecycleInv'
<1>1. /\ devices' = [devices EXCEPT ![d] = None]
      /\ app_devices' = [app_devices EXCEPT ![d] = None]
      /\ Completes("DestroyDevice", d, None, "SUCCESS")
      /\ UNCHANGED <<hostVars, instances, instance_magic, physicalDevices, device_magic,
                     app_instances, crowd>>
    BY DEF DestroyDevice, DevicesWithout
<1>2. TypeOK'
    BY <1>1, CallsAndResults DEF LifecycleInv, TypeOK, Completes, Called, hostVars
<1>3. /\ devices \in [DeviceHandle -> (SUBSET Queue) \cup {None}]
      /\ app_devices \in [DeviceHandle -> InstanceHandle \cup {None}]
    BY DEF LifecycleInv, TypeOK
<1>4. Devices' = Devices \ {d} /\ LiveDevices' = LiveDevices \ {d}
    BY <1>1, <1>3 DEF Devices, LiveDevices
<1>5. (DevicesTracked /\ OneDeviceKnown)'
    BY <1>1, <1>4 DEF LifecycleInv, DevicesTracked, OneDeviceKnown, hostVars
<1>6. ParentsLive'
    BY <1>1, <1>3, <1>4 DEF LifecycleInv, ParentsLive
<1>7. (MagicNeverDangles /\ OneInstanceKnown)'
    BY <1>1 DEF LifecycleInv, MagicNeverDangles, InstanceFound, OneInstanceKnown, hostVars
<1> QED BY <1>2, <1>5, <1>6, <1>7 DEF LifecycleInv

-----------------------------------------------------------------------------
(* What a call did *)

\* What LifecycleInv says of an application with one instance, and one device.
LEMMA OneOfEach ==
    ASSUME LifecycleInv
    PROVE  /\ "instances" \notin crowd =>
                /\ \A i \in app_instances : i = instance_magic /\ i \in instances
                /\ \A d \in LiveDevices : InstanceFound
           /\ crowd = {} => \A d \in LiveDevices : d = device_magic /\ DeviceFound
           /\ Devices = LiveDevices
BY DEF LifecycleInv, OneInstanceKnown, ParentsLive, OneDeviceKnown, DevicesTracked,
       InstanceFound, DeviceFound

\* A call that completes keeps the application running; what is left to show of
\* it is where it arrived.
LEMMA CompletesOutcome ==
    ASSUME NEW call, NEW on, NEW via, NEW result, running,
           Completes(call, on, via, result), UNCHANGED crowd,
           ("instances" \notin crowd /\ call \in ByArgument /\ result \notin ByItself) => via = on,
           (call \in ByMagic /\ crowd = {}) => via = on
    PROVE  OutcomeInv'
BY DEF Completes, Called, OutcomeInv, OnlyHostRefusalStops, ArgumentCallsArrive, MagicCallsArrive

\* A call that throws does not arrive anywhere: it is a refusal of the host, or the
\* application has kept two instances, or two devices.
LEMMA ThrowsOutcome ==
    ASSUME NEW call, NEW on, NEW why, Throws(call, on, why),
           crowd = {} => why \in {"HOST_REFUSED", "NO_HOST_LIBRARY"},
           call \in ByArgument => "instances" \in crowd \/ why \in ByItself \/ on = None,
           call \in ByMagic => crowd # {}
    PROVE  OutcomeInv'
BY DEF Throws, Called, appVars, OutcomeInv, OnlyHostRefusalStops, ArgumentCallsArrive,
       MagicCallsArrive

LEMMA InstanceOutcome ==
    ASSUME LifecycleInv, CreateInstance \/ \E i \in InstanceHandle : DestroyInstance(i)
    PROVE  OutcomeInv'
<1>1. CASE CreateInstance
    <2>1. CASE Throws("CreateInstance", None, "HOST_REFUSED")
        BY <2>1, ThrowsOutcome DEF ByArgument, ByMagic
    <2>2. CASE ~Throws("CreateInstance", None, "HOST_REFUSED")
        <3>1. running /\ \E on, via, result : Completes("CreateInstance", on, via, result)
            BY <1>1, <2>2 DEF CreateInstance
        <3>2. running' /\ last'.call = "CreateInstance"
            BY <3>1 DEF Completes, Called
        <3> QED BY <3>2 DEF OutcomeInv, OnlyHostRefusalStops, ArgumentCallsArrive,
            MagicCallsArrive, ByArgument, ByMagic
    <2> QED BY <2>1, <2>2
<1>2. ASSUME NEW i \in InstanceHandle, DestroyInstance(i) PROVE OutcomeInv'
    <2>1. CASE Throws("DestroyInstance", i, "INVALID_INSTANCE")
        <3>1. i \in app_instances /\ ~InstanceFound
            BY <1>2, <2>1 DEF DestroyInstance, Throws, Completes, Called
        <3>2. crowd # {}
            BY <3>1, OneOfEach DEF InstanceFound
        <3> QED BY <2>1, <3>2, ThrowsOutcome DEF ByArgument, ByMagic
    <2>2. CASE ~Throws("DestroyInstance", i, "INVALID_INSTANCE")
        <3>1. running /\ Completes("DestroyInstance", i, instance_magic, "SUCCESS") /\ UNCHANGED crowd
            BY <1>2, <2>2 DEF DestroyInstance
        <3> QED BY <3>1, CompletesOutcome DEF ByArgument, ByMagic
    <2> QED BY <2>1, <2>2
<1> QED BY <1>1, <1>2

LEMMA PhysicalDeviceOutcome ==
    ASSUME LifecycleInv, NEW i \in InstanceHandle, NEW sparse \in BOOLEAN,
           \/ EnumeratePhysicalDevices(i) \/ PhysicalDeviceQuery(i)
           \/ GetPhysicalDeviceImageFormatProperties(i, sparse)
           \/ EnumerateDeviceExtensionProperties(i)
    PROVE  OutcomeInv'
<1> DEFINE Found == "instances" \notin crowd =>
                        i = instance_magic /\ i \in instances /\ InstanceFound
<1>1. i \in app_instances /\ running /\ UNCHANGED crowd
    BY DEF EnumeratePhysicalDevices, PhysicalDeviceQuery, MayQuery, appVars, Throws,
           GetPhysicalDeviceImageFormatProperties, EnumerateDeviceExtensionProperties
<1>2. Found
    BY <1>1, OneOfEach DEF InstanceFound
<1>3. crowd = {} => "instances" \notin crowd
    OBVIOUS
<1> HIDE DEF Found
<1>4. CASE EnumeratePhysicalDevices(i)
    <2>1. CASE Throws("EnumeratePhysicalDevices", i, "NO_INSTANCE")
        <3>1. i \notin instances
            BY <1>4, <2>1 DEF EnumeratePhysicalDevices, Throws, Completes, Called
        <3> QED BY <1>2, <2>1, <3>1, ThrowsOutcome DEF ByArgument, ByMagic, Found
    <2>2. CASE ~Throws("EnumeratePhysicalDevices", i, "NO_INSTANCE")
        <3>1. \E result : Completes("EnumeratePhysicalDevices", i, i, result)
            BY <1>4, <2>2 DEF EnumeratePhysicalDevices
        <3> QED BY <1>1, <3>1, CompletesOutcome
    <2> QED BY <2>1, <2>2
<1>5. CASE PhysicalDeviceQuery(i)
    <2>1. CASE InstanceFound
        BY <1>1, <1>2, <1>5, <2>1, CompletesOutcome DEF PhysicalDeviceQuery, Found, ByMagic
    <2>2. CASE ~InstanceFound
        BY <1>1, <1>2, <1>5, <2>2, CompletesOutcome DEF PhysicalDeviceQuery, Found, ByMagic
    <2> QED BY <2>1, <2>2
<1>6. CASE GetPhysicalDeviceImageFormatProperties(i, sparse)
    <2>1. CASE sparse
        <3>1. Completes("ImageFormatProperties", i, None, "ERROR_FORMAT_NOT_SUPPORTED")
            BY <1>6, <2>1 DEF GetPhysicalDeviceImageFormatProperties
        <3> QED BY <1>1, <3>1, CompletesOutcome DEF ByItself, ByMagic
    <2>2. CASE ~sparse /\ InstanceFound
        BY <1>1, <1>2, <1>6, <2>2, CompletesOutcome
           DEF GetPhysicalDeviceImageFormatProperties, Found, ByMagic
    <2>3. CASE ~sparse /\ ~InstanceFound
        <3>1. Throws("ImageFormatProperties", i, "END_ITERATOR")
            BY <1>6, <2>3 DEF GetPhysicalDeviceImageFormatProperties
        <3> QED BY <1>2, <2>3, <3>1, ThrowsOutcome DEF Found, ByMagic
    <2> QED BY <2>1, <2>2, <2>3
<1>7. CASE EnumerateDeviceExtensionProperties(i)
    <2>1. CASE InstanceFound
        BY <1>1, <1>2, <1>7, <2>1, CompletesOutcome
           DEF EnumerateDeviceExtensionProperties, Found, ByMagic
    <2>2. CASE ~InstanceFound
        BY <1>1, <1>2, <1>7, <2>2, CompletesOutcome
           DEF EnumerateDeviceExtensionProperties, Found, ByMagic
    <2> QED BY <2>1, <2>2
<1> QED BY <1>4, <1>5, <1>6, <1>7

LEMMA EntryPointOutcome ==
    ASSUME LifecycleInv, NEW implemented \in BOOLEAN,
           \/ \E i \in InstanceHandle \cup {None} : GetInstanceProcAddr(i, implemented)
           \/ \E d \in DeviceHandle : GetDeviceProcAddr(d, implemented)
    PROVE  OutcomeInv'
<1>1. ASSUME NEW i \in InstanceHandle \cup {None}, GetInstanceProcAddr(i, implemented)
      PROVE  OutcomeInv'
    <2>1. CASE implemented
        <3>1. /\ running /\ UNCHANGED crowd
              /\ Completes("GetInstanceProcAddr", i, None, "TRAMPOLINE")
            BY <1>1, <2>1 DEF GetInstanceProcAddr, appVars
        <3> QED BY <3>1, CompletesOutcome DEF ByItself, ByMagic
    <2>2. CASE ~implemented /\ i \in instances
        <3>1. /\ running /\ UNCHANGED crowd
              /\ Completes("GetInstanceProcAddr", i, i, "SUCCESS")
            BY <1>1, <2>2 DEF GetInstanceProcAddr, appVars
        <3> QED BY <3>1, CompletesOutcome
    <2>3. CASE ~implemented /\ i \notin instances
        <3>1. i \in app_instances /\ Throws("GetInstanceProcAddr", i, "END_ITERATOR")
            BY <1>1, <2>3 DEF GetInstanceProcAddr
        <3>2. "instances" \in crowd
            BY <2>3, <3>1, OneOfEach
        <3> QED BY <3>1, <3>2, ThrowsOutcome DEF ByMagic
    <2> QED BY <2>1, <2>2, <2>3
<1>2. ASSUME NEW d \in DeviceHandle, GetDeviceProcAddr(d, implemented) PROVE OutcomeInv'
    <2>1. CASE implemented
        <3>1. /\ running /\ UNCHANGED crowd
              /\ Completes("GetDeviceProcAddr", d, None, "TRAMPOLINE")
            BY <1>2, <2>1 DEF GetDeviceProcAddr, appVars
        <3> QED BY <3>1, CompletesOutcome DEF ByItself, ByMagic
    <2>2. CASE ~implemented /\ InstanceFound /\ d \in Devices
        <3>1. /\ running /\ UNCHANGED crowd
              /\ Completes("GetDeviceProcAddr", d, d, "SUCCESS")
            BY <1>2, <2>2 DEF GetDeviceProcAddr, appVars
        <3> QED BY <3>1, CompletesOutcome
    <2>3. CASE ~implemented /\ ~(InstanceFound /\ d \in Devices)
        <3>1. d \in LiveDevices /\ Throws("GetDeviceProcAddr", d, "END_ITERATOR")
            BY <1>2, <2>3 DEF GetDeviceProcAddr
        <3>2. "instances" \in crowd
            BY <2>3, <3>1, OneOfEach
        <3> QED BY <3>1, <3>2, ThrowsOutcome DEF ByMagic
    <2> QED BY <2>1, <2>2, <2>3
<1> QED BY <1>1, <1>2

LEMMA DeviceOutcome ==
    ASSUME LifecycleInv,
           \/ \E i \in InstanceHandle, Q \in SUBSET Queue : CreateDevice(i, Q)
           \/ \E d \in DeviceHandle : DestroyDevice(d)
    PROVE  OutcomeInv'
<1>1. ASSUME NEW i \in InstanceHandle, NEW Q \in SUBSET Queue, CreateDevice(i, Q)
      PROVE  OutcomeInv'
    <2>1. CASE Throws("CreateDevice", i, "HOST_REFUSED")
        BY <2>1, ThrowsOutcome DEF ByArgument, ByMagic
    <2>2. CASE ~Throws("CreateDevice", i, "HOST_REFUSED")
        <3>1. running /\ \E on, via, result : Completes("CreateDevice", on, via, result)
            BY <1>1, <2>2 DEF CreateDevice
        <3>2. running' /\ last'.call = "CreateDevice"
            BY <3>1 DEF Completes, Called
        <3> QED BY <3>2 DEF OutcomeInv, OnlyHostRefusalStops, ArgumentCallsArrive,
            MagicCallsArrive, ByArgument, ByMagic
    <2> QED BY <2>1, <2>2
<1>2. ASSUME NEW d \in DeviceHandle, DestroyDevice(d) PROVE OutcomeInv'
    <2>1. running /\ UNCHANGED crowd /\ Completes("DestroyDevice", d, None, "SUCCESS")
        BY <1>2 DEF DestroyDevice
    <2> QED BY <2>1, CompletesOutcome DEF ByArgument, ByMagic
<1> QED BY <1>1, <1>2

LEMMA QueueOutcome ==
    ASSUME LifecycleInv, NEW d \in DeviceHandle, NEW q \in Queue,
           GetDeviceQueue(d, q) \/ QueueSubmit(d, q) \/ QueueWaitIdle(d, q)
    PROVE  OutcomeInv'
<1>1. /\ running /\ UNCHANGED crowd
      /\ d \in LiveDevices /\ q \in devices[d]
    BY DEF GetDeviceQueue, QueueSubmit, QueueWaitIdle, Nothing, Throws, appVars
<1>2. crowd = {} => InstanceFound /\ DeviceFound /\ QueueFound(d, q) /\ device_magic = d
    BY <1>1, OneOfEach DEF QueueFound
<1>3. CASE GetDeviceQueue(d, q)
    BY <1>1, <1>3, CompletesOutcome DEF GetDeviceQueue
<1>4. CASE QueueSubmit(d, q)
    <2>1. CASE InstanceFound /\ DeviceFound /\ QueueFound(d, q)
        <3>1. Completes("QueueSubmit", d, device_magic, "SUCCESS")
            BY <1>4, <2>1 DEF QueueSubmit
        <3> QED BY <1>1, <1>2, <3>1, CompletesOutcome DEF ByArgument
    <2>2. CASE ~(InstanceFound /\ DeviceFound /\ QueueFound(d, q))
        <3>1. Throws("QueueSubmit", d, "END_ITERATOR")
            BY <1>4, <2>2 DEF QueueSubmit
        <3> QED BY <1>2, <2>2, <3>1, ThrowsOutcome DEF ByArgument
    <2> QED BY <2>1, <2>2
<1>5. CASE QueueWaitIdle(d, q)
    <2>1. CASE ~DeviceFound
        <3>1. Throws("QueueWaitIdle", d, "END_ITERATOR")
            BY <1>5, <2>1 DEF QueueWaitIdle
        <3> QED BY <1>2, <2>1, <3>1, ThrowsOutcome DEF ByArgument
    <2>2. CASE DeviceFound /\ QueueFound(d, q) /\ InstanceFound
        <3>1. Completes("QueueWaitIdle", d, device_magic, "SUCCESS")
            BY <1>5, <2>2 DEF QueueWaitIdle
        <3> QED BY <1>1, <1>2, <3>1, CompletesOutcome DEF ByArgument
    <2>3. CASE DeviceFound /\ ~(QueueFound(d, q) /\ InstanceFound)
        <3>1. Completes("QueueWaitIdle", d, None, "ERROR_DEVICE_LOST")
            BY <1>5, <2>3 DEF QueueWaitIdle
        <3> QED BY <1>1, <1>2, <2>3, <3>1, CompletesOutcome DEF ByArgument
    <2> QED BY <2>1, <2>2, <2>3
<1> QED BY <1>3, <1>4, <1>5

LEMMA HandedOnOutcome ==
    ASSUME LifecycleInv, NEW d \in DeviceHandle,
           \/ DeviceWaitIdle(d) \/ DeviceCall(d) \/ DeviceVoidCall(d)
           \/ BeginCommandBuffer(d) \/ CommandCall(d)
    PROVE  OutcomeInv'
<1>1. running /\ UNCHANGED crowd /\ d \in LiveDevices
    BY DEF DeviceWaitIdle, DeviceCall, DeviceVoidCall, BeginCommandBuffer, CommandCall,
           Nothing, Throws, appVars
<1>2. /\ "instances" \notin crowd => InstanceFound
      /\ crowd = {} => InstanceFound /\ DeviceFound /\ device_magic = d
      /\ crowd = {} => \A e \in Devices : e = d
    BY <1>1, OneOfEach
<1>3. CASE DeviceWaitIdle(d)
    <2>1. CASE InstanceFound
        <3>1. Completes("DeviceWaitIdle", d, None, "MISDIRECTED")
            BY <1>3, <2>1 DEF DeviceWaitIdle
        <3> QED BY <1>1, <3>1, CompletesOutcome DEF ByArgument, ByMagic
    <2>2. CASE ~InstanceFound
        <3>1. Throws("DeviceWaitIdle", d, "END_ITERATOR")
            BY <1>3, <2>2 DEF DeviceWaitIdle
        <3> QED BY <1>2, <2>2, <3>1, ThrowsOutcome DEF ByArgument, ByMagic
    <2> QED BY <2>1, <2>2
<1>4. CASE DeviceCall(d)
    BY <1>1, <1>2, <1>4, CompletesOutcome DEF DeviceCall, ByMagic
<1>5. CASE DeviceVoidCall(d)
    BY <1>1, <1>2, <1>5, CompletesOutcome DEF DeviceVoidCall, ByMagic
<1>6. CASE BeginCommandBuffer(d)
    <2>1. CASE InstanceFound
        <3>1. PICK e \in Devices : Completes("BeginCommandBuffer", d, e, "SUCCESS")
            BY <1>6, <2>1 DEF BeginCommandBuffer
        <3> QED BY <1>1, <1>2, <3>1, CompletesOutcome DEF ByArgument
    <2>2. CASE ~InstanceFound
        <3>1. Completes("BeginCommandBuffer", d, None, "ERROR_DEVICE_LOST")
            BY <1>6, <2>2 DEF BeginCommandBuffer
        <3> QED BY <1>1, <1>2, <2>2, <3>1, CompletesOutcome DEF ByArgument
    <2> QED BY <2>1, <2>2
<1>7. CASE CommandCall(d)
    BY <1>1, <1>2, <1>7, CompletesOutcome DEF CommandCall, ByArgument
<1> QED BY <1>3, <1>4, <1>5, <1>6, <1>7

-----------------------------------------------------------------------------
(* Every step *)

\* The two ways a call ends that changes no object.
Quiet ==
    \E call \in CallName, via \in Object, on \in Object, result \in CallResult :
        \/ Throws(call, on, result)
        \/ /\ Completes(call, on, via, result)
           /\ UNCHANGED <<hostVars, driverVars, appVars>>

LEMMA QuietKeeps == LifecycleInv /\ Quiet => LifecycleInv'
BY ThrowsKeeps, CompletesKeeps DEF Quiet

LEMMA ObjectsOfCalls ==
    ASSUME LifecycleInv
    PROVE  /\ instance_magic \in Object /\ device_magic \in Object
           /\ Devices \subseteq Object
BY DEF Object, LifecycleInv, TypeOK, Devices

LEMMA QueriesAreQuiet ==
    ASSUME LifecycleInv, NEW i \in InstanceHandle, NEW sparse \in BOOLEAN,
           \/ PhysicalDeviceQuery(i) \/ EnumerateDeviceExtensionProperties(i)
           \/ GetPhysicalDeviceImageFormatProperties(i, sparse)
    PROVE  Quiet
BY ObjectsOfCalls, CallsAndResults DEF Quiet, PhysicalDeviceQuery,
   GetPhysicalDeviceImageFormatProperties, EnumerateDeviceExtensionProperties

LEMMA GetInstanceProcAddrIsQuiet ==
    ASSUME LifecycleInv, NEW i \in InstanceHandle \cup {None}, NEW implemented \in BOOLEAN,
           GetInstanceProcAddr(i, implemented)
    PROVE  Quiet
<1>1. i \in Object
    BY DEF Object
<1> QED BY <1>1, CallsAndResults DEF Quiet, GetInstanceProcAddr

LEMMA GetDeviceProcAddrIsQuiet ==
    ASSUME LifecycleInv, NEW d \in DeviceHandle, NEW implemented \in BOOLEAN,
           GetDeviceProcAddr(d, implemented)
    PROVE  Quiet
BY CallsAndResults DEF Quiet, GetDeviceProcAddr

LEMMA QueueCallsAreQuiet ==
    ASSUME LifecycleInv, NEW d \in DeviceHandle, NEW q \in Queue,
           GetDeviceQueue(d, q) \/ QueueSubmit(d, q) \/ QueueWaitIdle(d, q)
    PROVE  Quiet
<1>1. CASE GetDeviceQueue(d, q)
    BY <1>1, CallsAndResults DEF Quiet, GetDeviceQueue, Nothing
<1>2. CASE QueueSubmit(d, q)
    BY <1>2, ObjectsOfCalls, CallsAndResults DEF Quiet, QueueSubmit, Nothing
<1>3. CASE QueueWaitIdle(d, q)
    BY <1>3, ObjectsOfCalls, CallsAndResults DEF Quiet, QueueWaitIdle, Nothing
<1> QED BY <1>1, <1>2, <1>3

LEMMA DeviceCallsAreQuiet ==
    ASSUME LifecycleInv, NEW d \in DeviceHandle,
           \/ DeviceWaitIdle(d) \/ DeviceCall(d) \/ DeviceVoidCall(d)
           \/ BeginCommandBuffer(d) \/ CommandCall(d)
    PROVE  Quiet
<1>1. CASE DeviceWaitIdle(d)
    BY <1>1, CallsAndResults DEF Quiet, DeviceWaitIdle, Nothing
<1>2. CASE DeviceCall(d)
    BY <1>2, CallsAndResults DEF Quiet, DeviceCall, Nothing
<1>3. CASE DeviceVoidCall(d)
    BY <1>3, CallsAndResults DEF Quiet, DeviceVoidCall, Nothing
<1>4. CASE BeginCommandBuffer(d)
    BY <1>4, ObjectsOfCalls, CallsAndResults DEF Quiet, BeginCommandBuffer, Nothing
<1>5. CASE CommandCall(d)
    BY <1>5, ObjectsOfCalls, CallsAndResults DEF Quiet, CommandCall, Nothing
<1> QED BY <1>1, <1>2, <1>3, <1>4, <1>5

LEMMA OtherCallKeeps == LifecycleInv /\ OtherCall => LifecycleInv' /\ OutcomeInv'
<1> SUFFICES ASSUME LifecycleInv, OtherCall PROVE LifecycleInv' /\ OutcomeInv'
    OBVIOUS
<1>1. ASSUME NEW i \in InstanceHandle, DestroyInstance(i) \/ EnumeratePhysicalDevices(i)
      PROVE  LifecycleInv' /\ OutcomeInv'
    BY <1>1, DestroyInstanceKeeps, EnumerateKeeps, InstanceOutcome, PhysicalDeviceOutcome
<1>2. ASSUME NEW i \in InstanceHandle, NEW sparse \in BOOLEAN,
             \/ PhysicalDeviceQuery(i) \/ EnumerateDeviceExtensionProperties(i)
             \/ GetPhysicalDeviceImageFormatProperties(i, sparse)
      PROVE  LifecycleInv' /\ OutcomeInv'
    BY <1>2, QueriesAreQuiet, QuietKeeps, PhysicalDeviceOutcome
<1>3. ASSUME NEW i \in InstanceHandle, NEW Q \in SUBSET Queue, CreateDevice(i, Q)
      PROVE  LifecycleInv' /\ OutcomeInv'
    BY <1>3, CreateDeviceKeeps, DeviceOutcome
<1>4. ASSUME NEW d \in DeviceHandle, DestroyDevice(d) PROVE LifecycleInv' /\ OutcomeInv'
    BY <1>4, DestroyDeviceKeeps, DeviceOutcome
<1>5. ASSUME NEW d \in DeviceHandle, NEW q \in Queue,
             GetDeviceQueue(d, q) \/ QueueSubmit(d, q) \/ QueueWaitIdle(d, q)
      PROVE  LifecycleInv' /\ OutcomeInv'
    BY <1>5, QueueCallsAreQuiet, QuietKeeps, QueueOutcome
<1>6. ASSUME NEW d \in DeviceHandle,
             \/ DeviceWaitIdle(d) \/ DeviceCall(d) \/ DeviceVoidCall(d)
             \/ BeginCommandBuffer(d) \/ CommandCall(d)
      PROVE  LifecycleInv' /\ OutcomeInv'
    BY <1>6, DeviceCallsAreQuiet, QuietKeeps, HandedOnOutcome
<1>7. ASSUME NEW d \in DeviceHandle, NEW implemented \in BOOLEAN,
             GetDeviceProcAddr(d, implemented)
      PROVE  LifecycleInv' /\ OutcomeInv'
    BY <1>7, GetDeviceProcAddrIsQuiet, QuietKeeps, EntryPointOutcome
<1> QED BY <1>1, <1>2, <1>3, <1>4, <1>5, <1>6, <1>7 DEF OtherCall

LEMMA NextKeeps == LifecycleInv /\ Next => LifecycleInv' /\ OutcomeInv'
<1>1. LifecycleInv /\ CreateInstance => LifecycleInv' /\ OutcomeInv'
    BY CreateInstanceKeeps, InstanceOutcome
<1>2. ASSUME LifecycleInv, NEW i \in InstanceHandle \cup {None}, NEW implemented \in BOOLEAN,
             GetInstanceProcAddr(i, implemented)
      PROVE  LifecycleInv' /\ OutcomeInv'
    BY <1>2, GetInstanceProcAddrIsQuiet, QuietKeeps, EntryPointOutcome
<1> QED BY <1>1, <1>2, OtherCallKeeps DEF Next

LEMMA StutterKeeps ==
    LifecycleInv /\ OutcomeInv /\ UNCHANGED vars => LifecycleInv' /\ OutcomeInv'
BY DEF LifecycleInv, OutcomeInv, vars, hostVars, driverVars, appVars, TypeOK,
       MagicNeverDangles, InstanceFound, DevicesTracked, OneInstanceKnown, ParentsLive,
       OneDeviceKnown, Devices, LiveDevices, OnlyHostRefusalStops, ArgumentCallsArrive,
       MagicCallsArrive

LEMMA LifecycleIsInvariant == Spec => [](LifecycleInv /\ OutcomeInv)
<1>1. LifecycleInv /\ OutcomeInv /\ [Next]_vars => (LifecycleInv /\ OutcomeInv)'
    BY NextKeeps, StutterKeeps
<1> QED BY <1>1, LifecycleInit, PTL DEF Spec

-----------------------------------------------------------------------------
(* The theorems *)

\* Type correctness of the tables, the magic handles and the last call.
THEOREM ObjectTypeCorrect == Spec => []TypeOK
BY LifecycleIsInvariant, PTL DEF LifecycleInv

\* No host function is ever looked up on an instance the host has destroyed.
THEOREM MagicIsAlive == Spec => []MagicNeverDangles
BY LifecycleIsInvariant, PTL DEF LifecycleInv

\* The table of devices has the devices the application holds and no others,
\* and all of them are alive on the host.
THEOREM DevicesAreTracked == Spec => []DevicesTracked
BY LifecycleIsInvariant, PTL DEF LifecycleInv

\* As long as the application has kept one instance at a time, application, driver
\* and host agree about which it is.
THEOREM OneInstanceIsKnown == Spec => []OneInstanceKnown
BY LifecycleIsInvariant, PTL DEF LifecycleInv

\* An application that keeps one instance and one device at a time is brought
\* down by nothing but a refusal of the host.
THEOREM CorrectApplicationsRun == Spec => []OnlyHostRefusalStops
BY LifecycleIsInvariant, PTL DEF OutcomeInv

\* With one instance at a time and any number of devices, a call that names its
\* object arrives there.
THEOREM CallsByArgumentArrive == Spec => []ArgumentCallsArrive
BY LifecycleIsInvariant, PTL DEF OutcomeInv

\* With one instance and one device at a time, so do the calls that take
\* device_magic or any device.
THEOREM CallsByMagicArrive == Spec => []MagicCallsArrive
BY LifecycleIsInvariant, PTL DEF OutcomeInv

-----------------------------------------------------------------------------
(* One instance, any number of devices *)

\* What can still bring the application down while it keeps one instance at a
\* time: a refusal of the host, or that there is none, or work for a queue of a device that is not the
\* last one created, which QueueSubmit and QueueWaitIdle look for among that
\* one's queues.  No device and no instance it holds is reported invalid.
OnlyOtherQueuesStop ==
    "instances" \notin crowd =>
        \/ running
        \/ last.result \in {"HOST_REFUSED", "NO_HOST_LIBRARY"}
        \/ last.call \in {"QueueSubmit", "QueueWaitIdle"} /\ last.on # device_magic

LEMMA InstanceCallStops ==
    ASSUME LifecycleInv, running, "instances" \notin crowd,
           NEW i \in InstanceHandle, NEW sparse \in BOOLEAN,
           \/ DestroyInstance(i) \/ EnumeratePhysicalDevices(i) \/ PhysicalDeviceQuery(i)
           \/ GetPhysicalDeviceImageFormatProperties(i, sparse)
           \/ EnumerateDeviceExtensionProperties(i)
    PROVE  running'
<1>1. i \in app_instances
    BY DEF DestroyInstance, EnumeratePhysicalDevices, PhysicalDeviceQuery, MayQuery,
           GetPhysicalDeviceImageFormatProperties, EnumerateDeviceExtensionProperties
<1>2. InstanceFound /\ i \in instances
    BY <1>1, OneOfEach DEF InstanceFound
<1>3. CASE DestroyInstance(i) \/ EnumeratePhysicalDevices(i)
    BY <1>2, <1>3 DEF DestroyInstance, EnumeratePhysicalDevices, Completes
<1>4. CASE PhysicalDeviceQuery(i) \/ EnumerateDeviceExtensionProperties(i)
    BY <1>2, <1>4 DEF PhysicalDeviceQuery, EnumerateDeviceExtensionProperties, Completes
<1>5. CASE GetPhysicalDeviceImageFormatProperties(i, sparse)
    BY <1>2, <1>5 DEF GetPhysicalDeviceImageFormatProperties, Completes
<1> QED BY <1>3, <1>4, <1>5

LEMMA CreateCallStops ==
    ASSUME running,
           CreateInstance \/ \E i \in InstanceHandle, Q \in SUBSET Queue : CreateDevice(i, Q)
    PROVE  running' \/ last'.result = "HOST_REFUSED"
<1>1. CASE CreateInstance
    <2>1. CASE Throws("CreateInstance", None, "HOST_REFUSED")
        BY <2>1 DEF Throws, Called
    <2>2. CASE ~Throws("CreateInstance", None, "HOST_REFUSED")
        BY <1>1, <2>2 DEF CreateInstance, Completes
    <2> QED BY <2>1, <2>2
<1>2. ASSUME NEW i \in InstanceHandle, NEW Q \in SUBSET Queue, CreateDevice(i, Q)
      PROVE  running' \/ last'.result = "HOST_REFUSED"
    <2>1. CASE Throws("CreateDevice", i, "HOST_REFUSED")
        BY <2>1 DEF Throws, Called
    <2>2. CASE ~Throws("CreateDevice", i, "HOST_REFUSED")
        BY <1>2, <2>2 DEF CreateDevice, Completes
    <2> QED BY <2>1, <2>2
<1> QED BY <1>1, <1>2

LEMMA EntryPointStops ==
    ASSUME LifecycleInv, running, "instances" \notin crowd, NEW implemented \in BOOLEAN,
           \/ \E i \in InstanceHandle \cup {None} : GetInstanceProcAddr(i, implemented)
           \/ \E d \in DeviceHandle : GetDeviceProcAddr(d, implemented)
    PROVE  running'
BY OneOfEach DEF GetInstanceProcAddr, GetDeviceProcAddr, Completes, InstanceFound

LEMMA QueueCallStops ==
    ASSUME LifecycleInv, running, "instances" \notin crowd,
           NEW d \in DeviceHandle, NEW q \in Queue,
           GetDeviceQueue(d, q) \/ QueueSubmit(d, q) \/ QueueWaitIdle(d, q)
    PROVE  OnlyOtherQueuesStop'
<1>1. d \in LiveDevices /\ q \in devices[d] /\ UNCHANGED device_magic
    BY DEF GetDeviceQueue, QueueSubmit, QueueWaitIdle, Nothing, Throws, driverVars
<1>2. InstanceFound /\ (d = device_magic => DeviceFound /\ QueueFound(d, q))
    BY <1>1, OneOfEach DEF DeviceFound, QueueFound
<1>3. CASE GetDeviceQueue(d, q)
    BY <1>3 DEF GetDeviceQueue, Completes, OnlyOtherQueuesStop
<1>4. CASE QueueSubmit(d, q)
    <2>1. CASE InstanceFound /\ DeviceFound /\ QueueFound(d, q)
        BY <1>4, <2>1 DEF QueueSubmit, Completes, OnlyOtherQueuesStop
    <2>2. CASE ~(InstanceFound /\ DeviceFound /\ QueueFound(d, q))
        <3>1. d # device_magic /\ Throws("QueueSubmit", d, "END_ITERATOR")
            BY <1>2, <1>4, <2>2 DEF QueueSubmit
        <3>2. last'.call = "QueueSubmit" /\ last'.on = d
            BY <3>1 DEF Throws, Called
        <3> QED BY <1>1, <3>1, <3>2 DEF OnlyOtherQueuesStop
    <2> QED BY <2>1, <2>2
<1>5. CASE QueueWaitIdle(d, q)
    <2>1. CASE DeviceFound
        BY <1>5, <2>1 DEF QueueWaitIdle, Completes, OnlyOtherQueuesStop
    <2>2. CASE ~DeviceFound
        <3>1. d # device_magic /\ Throws("QueueWaitIdle", d, "END_ITERATOR")
            BY <1>2, <1>5, <2>2 DEF QueueWaitIdle
        <3>2. last'.call = "QueueWaitIdle" /\ last'.on = d
            BY <3>1 DEF Throws, Called
        <3> QED BY <1>1, <3>1, <3>2 DEF OnlyOtherQueuesStop
    <2> QED BY <2>1, <2>2
<1> QED BY <1>3, <1>4, <1>5

LEMMA HandedOnStops ==
    ASSUME LifecycleInv, running, "instances" \notin crowd, NEW d \in DeviceHandle,
           \/ DestroyDevice(d) \/ DeviceWaitIdle(d) \/ DeviceCall(d) \/ DeviceVoidCall(d)
           \/ BeginCommandBuffer(d) \/ CommandCall(d)
    PROVE  running'
<1>1. CASE DeviceWaitIdle(d)
    BY <1>1, OneOfEach DEF DeviceWaitIdle, Completes
<1>2. CASE DestroyDevice(d) \/ DeviceCall(d) \/ DeviceVoidCall(d)
    BY <1>2 DEF DestroyDevice, DeviceCall, DeviceVoidCall, Completes
<1>3. CASE BeginCommandBuffer(d) \/ CommandCall(d)
    BY <1>3 DEF BeginCommandBuffer, CommandCall, Completes
<1> QED BY <1>1, <1>2, <1>3

LEMMA CrowdStays == Next => running /\ crowd \subseteq crowd'
<1>1. CreateInstance => running /\ crowd \subseteq crowd'
    BY DEF CreateInstance, Throws, appVars
<1>2. ASSUME NEW i \in InstanceHandle, NEW sparse \in BOOLEAN,
             \/ DestroyInstance(i) \/ EnumeratePhysicalDevices(i) \/ PhysicalDeviceQuery(i)
             \/ GetPhysicalDeviceImageFormatProperties(i, sparse)
             \/ EnumerateDeviceExtensionProperties(i)
      PROVE  running /\ crowd \subseteq crowd'
    BY <1>2 DEF DestroyInstance, EnumeratePhysicalDevices, PhysicalDeviceQuery, MayQuery,
        GetPhysicalDeviceImageFormatProperties, EnumerateDeviceExtensionProperties,
        Throws, appVars
<1>3. ASSUME NEW i \in InstanceHandle, NEW Q \in SUBSET Queue, CreateDevice(i, Q)
      PROVE  running /\ crowd \subseteq crowd'
    BY <1>3 DEF CreateDevice, Throws, appVars
<1>4. ASSUME NEW d \in DeviceHandle, NEW q \in Queue,
             GetDeviceQueue(d, q) \/ QueueSubmit(d, q) \/ QueueWaitIdle(d, q)
      PROVE  running /\ crowd \subseteq crowd'
    BY <1>4 DEF GetDeviceQueue, QueueSubmit, QueueWaitIdle, Nothing, Throws, appVars
<1>5. ASSUME NEW d \in DeviceHandle,
             \/ DestroyDevice(d) \/ DeviceWaitIdle(d) \/ DeviceCall(d) \/ DeviceVoidCall(d)
             \/ BeginCommandBuffer(d) \/ CommandCall(d)
      PROVE  running /\ crowd \subseteq crowd'
    BY <1>5 DEF DestroyDevice, DeviceWaitIdle, DeviceCall, DeviceVoidCall, BeginCommandBuffer,
        CommandCall, Nothing, Throws, appVars
<1>6. ASSUME NEW d, NEW implemented \in BOOLEAN,
             GetInstanceProcAddr(d, implemented) \/ GetDeviceProcAddr(d, implemented)
      PROVE  running /\ crowd \subseteq crowd'
    BY <1>6 DEF GetInstanceProcAddr, GetDeviceProcAddr, Throws, appVars
<1> QED BY <1>1, <1>2, <1>3, <1>4, <1>5, <1>6 DEF Next, OtherCall

LEMMA StopsStep == LifecycleInv /\ OnlyOtherQueuesStop /\ [Next]_vars => OnlyOtherQueuesStop'
<1>1. ASSUME LifecycleInv, Next, "instances" \notin crowd' PROVE OnlyOtherQueuesStop'
    <2>1. running /\ "instances" \notin crowd
        BY <1>1, CrowdStays
    <2>2. CASE CreateInstance
        BY <2>1, <2>2, CreateCallStops DEF OnlyOtherQueuesStop
    <2>3. ASSUME NEW i \in InstanceHandle \cup {None}, NEW implemented \in BOOLEAN,
                 GetInstanceProcAddr(i, implemented)
          PROVE  OnlyOtherQueuesStop'
        BY <1>1, <2>1, <2>3, EntryPointStops DEF OnlyOtherQueuesStop
    <2>4. CASE OtherCall
        <3>1. ASSUME NEW i \in InstanceHandle, NEW sparse \in BOOLEAN,
                     \/ DestroyInstance(i) \/ EnumeratePhysicalDevices(i)
                     \/ PhysicalDeviceQuery(i)
                     \/ GetPhysicalDeviceImageFormatProperties(i, sparse)
                     \/ EnumerateDeviceExtensionProperties(i)
              PROVE  OnlyOtherQueuesStop'
            BY <1>1, <2>1, <3>1, InstanceCallStops DEF OnlyOtherQueuesStop
        <3>2. ASSUME NEW i \in InstanceHandle, NEW Q \in SUBSET Queue, CreateDevice(i, Q)
              PROVE  OnlyOtherQueuesStop'
            BY <2>1, <3>2, CreateCallStops DEF OnlyOtherQueuesStop
        <3>3. ASSUME NEW d \in DeviceHandle, NEW q \in Queue,
                     GetDeviceQueue(d, q) \/ QueueSubmit(d, q) \/ QueueWaitIdle(d, q)
              PROVE  OnlyOtherQueuesStop'
            BY <1>1, <2>1, <3>3, QueueCallStops
        <3>4. ASSUME NEW d \in DeviceHandle,
                     \/ DestroyDevice(d) \/ DeviceWaitIdle(d) \/ DeviceCall(d)
                     \/ DeviceVoidCall(d) \/ BeginCommandBuffer(d) \/ CommandCall(d)
              PROVE  OnlyOtherQueuesStop'
            BY <1>1, <2>1, <3>4, HandedOnStops DEF OnlyOtherQueuesStop
        <3>5. ASSUME NEW d \in DeviceHandle, NEW implemented \in BOOLEAN,
                     GetDeviceProcAddr(d, implemented)
              PROVE  OnlyOtherQueuesStop'
            BY <1>1, <2>1, <3>5, EntryPointStops DEF OnlyOtherQueuesStop
        <3> QED BY <2>4, <3>1, <3>2, <3>3, <3>4, <3>5 DEF OtherCall
    <2> QED BY <1>1, <2>2, <2>3, <2>4 DEF Next
<1>2. OnlyOtherQueuesStop /\ UNCHANGED vars => OnlyOtherQueuesStop'
    BY DEF OnlyOtherQueuesStop, vars, driverVars, appVars
<1> QED BY <1>1, <1>2 DEF OnlyOtherQueuesStop

LEMMA StopsInit == Init => OnlyOtherQueuesStop
BY DEF Init, OnlyOtherQueuesStop

\* While the application keeps one instance at a time, however many devices, its
\* DestroyInstance and EnumeratePhysicalDevices are never refused as those of an
\* invalid instance, and only queues of other devices than the last created can
\* stop it, besides the host.
THEOREM OneInstanceIsAccepted == Spec => []OnlyOtherQueuesStop
BY StopsInit, StopsStep, LifecycleIsInvariant, PTL DEF Spec

=============================================================================
