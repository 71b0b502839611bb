--------------------------- MODULE Loader_proofs ---------------------------
(***************************************************************************)
(* Proofs about Loader.  What is proved of the objects carries over, since *)
(* every step of the loader is a step of ObjectLifecycle, leaves its       *)
(* variables alone, or throws for one of two reasons.  The second of them, *)
(* an extension the host does not have, cannot occur.                      *)
(***************************************************************************)
EXTENDS Loader, ObjectLifecycle_proofs

\* No surface is in its map before its number has been counted.
FreshSurfaces == \A s \in SurfaceId : s >= m_surface_handler_id => surfaces[s] = None

LoaderInv ==
    /\ LifecycleInv
    /\ OutcomeInv
    /\ OnlyOtherQueuesStop
    /\ LoaderTypeOK
    /\ ReportedCanBeEnabled
    /\ FreshSurfaces
    /\ SurfacesStay

-----------------------------------------------------------------------------
(* Extensions *)

LEMMA ReportedExtensions ==
    \A n \in DOMAIN Reported : Reported[n] \in HostHas \cup {XcbSurface}
BY LoaderAssumption DEF Reported

\* What an application can enable of what it has read is the host's once the
\* driver's own extension is taken out.
LEMMA FilteredAreOfHost ==
    ASSUME LoaderTypeOK, NEW enabled \in SUBSET known
    PROVE  Filtered(enabled) \subseteq HostHas
BY DEF LoaderTypeOK, Filtered

\* No call of ObjectLifecycle ends with this result.
LEMMA OtherResults == Next => last'.result # "EXTENSION_NOT_PRESENT"
<1> DEFINE Other == last'.result # "EXTENSION_NOT_PRESENT"
<1>1. ASSUME NEW call, NEW on, NEW via, NEW result, Called(call, on, via, result)
      PROVE  last'.result = result
    BY <1>1 DEF Called
<1>2. ASSUME CreateInstance PROVE Other
    BY <1>1, <1>2 DEF CreateInstance, Completes, Throws
<1>3. ASSUME NEW i, DestroyInstance(i) PROVE Other
    BY <1>1, <1>3 DEF DestroyInstance, Completes, Throws
<1>4. ASSUME NEW i, EnumeratePhysicalDevices(i) PROVE Other
    BY <1>1, <1>4 DEF EnumeratePhysicalDevices, Completes, Throws
<1>5. ASSUME NEW i, PhysicalDeviceQuery(i) PROVE Other
    BY <1>1, <1>5 DEF PhysicalDeviceQuery, Completes, Throws
<1>6. ASSUME NEW i, NEW choice, GetPhysicalDeviceImageFormatProperties(i, choice) PROVE Other
    BY <1>1, <1>6 DEF GetPhysicalDeviceImageFormatProperties, Completes, Throws
<1>7. ASSUME NEW i, EnumerateDeviceExtensionProperties(i) PROVE Other
    BY <1>1, <1>7 DEF EnumerateDeviceExtensionProperties, Completes, Throws
<1>8. ASSUME NEW i, NEW choice, GetInstanceProcAddr(i, choice) PROVE Other
    BY <1>1, <1>8 DEF GetInstanceProcAddr, Completes, Throws
<1>9. ASSUME NEW i, NEW Q, CreateDevice(i, Q) PROVE Other
    BY <1>1, <1>9 DEF CreateDevice, Completes, Throws
<1>10. ASSUME NEW d, NEW q, GetDeviceQueue(d, q) PROVE Other
    BY <1>1, <1>10 DEF GetDeviceQueue, Completes, Throws
<1>11. ASSUME NEW d, NEW q, QueueSubmit(d, q) PROVE Other
    BY <1>1, <1>11 DEF QueueSubmit, Completes, Throws
<1>12. ASSUME NEW d, NEW q, QueueWaitIdle(d, q) PROVE Other
    BY <1>1, <1>12 DEF QueueWaitIdle, Completes, Throws
<1>13. ASSUME NEW d, DestroyDevice(d) PROVE Other
    BY <1>1, <1>13 DEF DestroyDevice, Completes, Throws
<1>14. ASSUME NEW d, DeviceWaitIdle(d) PROVE Other
    BY <1>1, <1>14 DEF DeviceWaitIdle, Completes, Throws
<1>15. ASSUME NEW d, DeviceCall(d) PROVE Other
    BY <1>1, <1>15 DEF DeviceCall, Completes, Throws
<1>16. ASSUME NEW d, DeviceVoidCall(d) PROVE Other
    BY <1>1, <1>16 DEF DeviceVoidCall, Completes, Throws
<1>17. ASSUME NEW d, BeginCommandBuffer(d) PROVE Other
    BY <1>1, <1>17 DEF BeginCommandBuffer, Completes, Throws
<1>18. ASSUME NEW d, CommandCall(d) PROVE Other
    BY <1>1, <1>18 DEF CommandCall, Completes, Throws
<1>19. ASSUME NEW d, NEW choice, GetDeviceProcAddr(d, choice) PROVE Other
    BY <1>1, <1>19 DEF GetDeviceProcAddr, Completes, Throws
<1> QED BY <1>2, <1>3, <1>4, <1>5, <1>6, <1>7, <1>8, <1>9, <1>10, <1>11, <1>12, <1>13, <1>14, <1>15, <1>16, <1>17, <1>18, <1>19 DEF Next, OtherCall

-----------------------------------------------------------------------------
(* The objects *)

\* A call of ObjectLifecycle beside the loader's own variables.
LEMMA ObjectStep ==
    ASSUME LoaderInv, Next,
           ready' \in BOOLEAN, UNCHANGED <<interface_version, known, surfaceVars>>
    PROVE  LoaderInv'
<1>1. LifecycleInv' /\ OutcomeInv' /\ OnlyOtherQueuesStop' /\ ReportedCanBeEnabled'
    BY NextKeeps, StopsStep, OtherResults DEF LoaderInv, ReportedCanBeEnabled
<1>2. LoaderTypeOK'
    BY <1>1 DEF LoaderInv, LoaderTypeOK, LifecycleInv, surfaceVars
<1>3. FreshSurfaces' /\ SurfacesStay'
    BY DEF LoaderInv, FreshSurfaces, SurfacesStay, surfaceVars
<1> QED BY <1>1, <1>2, <1>3 DEF LoaderInv

\* A call of the loader that leaves the objects alone.
LEMMA OwnStep ==
    ASSUME LoaderInv, UNCHANGED vars,
           LoaderTypeOK', FreshSurfaces', SurfacesStay'
    PROVE  LoaderInv'
BY StutterKeeps, StopsStep DEF LoaderInv, ReportedCanBeEnabled, vars

LEMMA NegotiationKeeps ==
    ASSUME LoaderInv, NEW version \in LoaderVersions,
           vk_icdNegotiateLoaderICDInterfaceVersion(version)
    PROVE  LoaderInv'
<1>1. /\ UNCHANGED <<vars, ready, known, surfaceVars>>
      /\ interface_version' \in 0 .. SUPPORTED_LOADER_ICD_INTERFACE_VERSION
    BY LoaderAssumption DEF vk_icdNegotiateLoaderICDInterfaceVersion,
       SUPPORTED_LOADER_ICD_INTERFACE_VERSION
<1>2. TypeOK'
    BY <1>1, StutterKeeps DEF LoaderInv, LifecycleInv
<1>3. LoaderTypeOK'
    BY <1>1, <1>2 DEF LoaderInv, LoaderTypeOK, surfaceVars
<1>4. FreshSurfaces' /\ SurfacesStay'
    BY <1>1 DEF LoaderInv, FreshSurfaces, SurfacesStay, surfaceVars
<1> QED BY <1>1, <1>3, <1>4, OwnStep

\* libvulkan.so is not there.
LEMMA NoLibraryKeeps ==
    ASSUME LoaderInv, Throws("GetInstanceProcAddr", None, "NO_HOST_LIBRARY"),
           UNCHANGED loaderVars
    PROVE  LoaderInv'
<1>1. LifecycleInv'
    BY ThrowsKeeps, CallsAndResults DEF LoaderInv
<1>2. OutcomeInv'
    BY ThrowsOutcome DEF ByMagic
<1>3. ReportedCanBeEnabled' /\ OnlyOtherQueuesStop'
    BY DEF Throws, Called, ReportedCanBeEnabled, OnlyOtherQueuesStop
<1>4. LoaderTypeOK' /\ FreshSurfaces' /\ SurfacesStay'
    BY <1>1 DEF LoaderInv, LoaderTypeOK, FreshSurfaces, SurfacesStay, LifecycleInv, loaderVars,
       surfaceVars
<1> QED BY <1>1, <1>2, <1>3, <1>4 DEF LoaderInv

LEMMA LookupKeeps ==
    ASSUME LoaderInv, NEW i \in InstanceHandle \cup {None}, NEW implemented \in BOOLEAN,
           \/ vk_icdGetInstanceProcAddr(i, implemented)
           \/ vk_icdGetPhysicalDeviceProcAddr(i, implemented)
    PROVE  LoaderInv'
<1>1. CASE GetInstanceProcAddr(i, implemented)
    <2>1. /\ ready' \in BOOLEAN
          /\ UNCHANGED <<interface_version, known, surfaceVars>>
        BY <1>1 DEF vk_icdGetInstanceProcAddr, vk_icdGetPhysicalDeviceProcAddr, Initializes,
           loaderVars, LoaderInv, LoaderTypeOK
    <2> QED BY <1>1, <2>1, ObjectStep DEF Next
<1>2. CASE ~GetInstanceProcAddr(i, implemented)
    <2>1. /\ Throws("GetInstanceProcAddr", None, "NO_HOST_LIBRARY")
          /\ UNCHANGED loaderVars
        BY <1>2 DEF vk_icdGetInstanceProcAddr, vk_icdGetPhysicalDeviceProcAddr, Initializes,
           loaderVars
    <2> QED BY <2>1, NoLibraryKeeps
<1> QED BY <1>1, <1>2

LEMMA EnumerationKeeps ==
    ASSUME LoaderInv, NEW capacity \in 0 .. Len(Reported),
           EnumerateInstanceExtensionProperties(capacity)
    PROVE  LoaderInv'
<1>1. /\ UNCHANGED <<vars, ready, interface_version, surfaceVars>>
      /\ known' = known \cup {Reported[n] : n \in {m \in DOMAIN Reported : m =< capacity}}
    BY DEF EnumerateInstanceExtensionProperties
<1>2. known' \in SUBSET (HostHas \cup {XcbSurface})
    BY <1>1, ReportedExtensions DEF LoaderInv, LoaderTypeOK
<1>3. TypeOK'
    BY <1>1, StutterKeeps DEF LoaderInv, LifecycleInv
<1>4. LoaderTypeOK'
    BY <1>1, <1>2, <1>3 DEF LoaderInv, LoaderTypeOK, surfaceVars
<1>5. FreshSurfaces' /\ SurfacesStay'
    BY <1>1 DEF LoaderInv, FreshSurfaces, SurfacesStay, surfaceVars
<1> QED BY <1>1, <1>4, <1>5, OwnStep

LEMMA CreateInstanceWithKeeps ==
    ASSUME LoaderInv, NEW enabled \in SUBSET known, CreateInstanceWith(enabled)
    PROVE  LoaderInv'
<1>1. Filtered(enabled) \subseteq HostHas
    BY FilteredAreOfHost DEF LoaderInv
<1>2. CreateInstance /\ UNCHANGED loaderVars
    BY <1>1 DEF CreateInstanceWith
<1> QED BY <1>2, ObjectStep DEF Next, loaderVars, LoaderInv, LoaderTypeOK

-----------------------------------------------------------------------------
(* Surfaces *)

\* The new surface gets a number and a block that no other has.
LEMMA CreateXcbSurfaceKeeps ==
    ASSUME LoaderInv, NEW i \in InstanceHandle, NEW window \in Window,
           CreateXcbSurfaceKHR(i, window)
    PROVE  LoaderInv'
<1> DEFINE new(block) == [window |-> window, handle |-> block]
<1>1. PICK block \in SurfaceBlock \ BlocksInUse :
         /\ surfaces' = [surfaces EXCEPT ![m_surface_handler_id] = new(block)]
         /\ app_surfaces' = [app_surfaces EXCEPT ![block] = window]
    BY DEF CreateXcbSurfaceKHR
<1>2. /\ m_surface_handler_id' = m_surface_handler_id + 1
      /\ m_surface_handler_id =< MaxSurfaces
      /\ UNCHANGED <<vars, ready, interface_version, known>>
    BY DEF CreateXcbSurfaceKHR, NextSurfaceId
<1>3. /\ m_surface_handler_id \in SurfaceId
      /\ surfaces \in [SurfaceId -> [window : Window, handle : SurfaceBlock] \cup {None}]
      /\ app_surfaces \in [SurfaceBlock -> Window \cup {None}]
      /\ surfaces[m_surface_handler_id] = None
    BY <1>2, LoaderAssumption DEF LoaderInv, LoaderTypeOK, FreshSurfaces, SurfaceId
<1>4. TypeOK'
    BY <1>2, StutterKeeps DEF LoaderInv, LifecycleInv
<1>5. LoaderTypeOK'
    <2>1. surfaces' \in [SurfaceId -> [window : Window, handle : SurfaceBlock] \cup {None}]
        BY <1>1, <1>3
    <2>2. app_surfaces' \in [SurfaceBlock -> Window \cup {None}]
        BY <1>1, <1>3
    <2>3. m_surface_handler_id' \in 1 .. MaxSurfaces + 1
        BY <1>2, <1>3, LoaderAssumption DEF SurfaceId
    <2> QED BY <1>2, <1>4, <2>1, <2>2, <2>3 DEF LoaderInv, LoaderTypeOK
<1>6. FreshSurfaces'
    BY <1>1, <1>2, <1>3, LoaderAssumption DEF LoaderInv, FreshSurfaces, SurfaceId
<1>7. SurfacesStay'
    <2> SUFFICES ASSUME NEW b \in SurfaceBlock, app_surfaces'[b] # None
                 PROVE  \E s \in SurfaceId :
                          surfaces'[s] = [window |-> app_surfaces'[b], handle |-> b]
        BY DEF SurfacesStay
    <2>1. CASE b = block
        BY <1>1, <1>3, <2>1
    <2>2. CASE b # block
        <3>1. app_surfaces'[b] = app_surfaces[b] /\ app_surfaces[b] \in Window
            BY <1>1, <1>3, <2>2
        <3>2. PICK s \in SurfaceId : surfaces[s] = [window |-> app_surfaces[b], handle |-> b]
            BY <3>1 DEF LoaderInv, SurfacesStay
        <3>3. s # m_surface_handler_id
            BY <1>3, <3>1, <3>2, LoaderAssumption
        <3>4. surfaces'[s] = surfaces[s]
            BY <1>1, <1>3, <3>3
        <3> QED BY <3>1, <3>2, <3>4
    <2> QED BY <2>1, <2>2
<1> QED BY <1>2, <1>5, <1>6, <1>7, OwnStep

-----------------------------------------------------------------------------
(* The theorems *)

LEMMA LoaderInitially == LoaderInit => LoaderInv
<1> SUFFICES ASSUME LoaderInit PROVE LoaderInv
    OBVIOUS
<1>1. LifecycleInv /\ OutcomeInv /\ OnlyOtherQueuesStop
    BY LifecycleInit, StopsInit DEF LoaderInit
<1>2. ReportedCanBeEnabled
    BY DEF LoaderInit, Init, ReportedCanBeEnabled
<1>3. LoaderTypeOK
    <2>1. m_surface_handler_id \in 1 .. MaxSurfaces + 1
        BY LoaderAssumption DEF LoaderInit
    <2>2. interface_version \in 0 .. SUPPORTED_LOADER_ICD_INTERFACE_VERSION
        BY DEF LoaderInit, SUPPORTED_LOADER_ICD_INTERFACE_VERSION
    <2>3. /\ surfaces \in [SurfaceId -> [window : Window, handle : SurfaceBlock] \cup {None}]
          /\ app_surfaces \in [SurfaceBlock -> Window \cup {None}]
        BY DEF LoaderInit
    <2> QED BY <1>1, <2>1, <2>2, <2>3 DEF LoaderInit, LoaderTypeOK, LifecycleInv
<1>4. FreshSurfaces /\ SurfacesStay
    BY DEF LoaderInit, FreshSurfaces, SurfacesStay
<1> QED BY <1>1, <1>2, <1>3, <1>4 DEF LoaderInv

LEMMA LoaderStep == LoaderInv /\ [LoaderNext]_<<vars, loaderVars>> => LoaderInv'
<1> SUFFICES ASSUME LoaderInv, [LoaderNext]_<<vars, loaderVars>> PROVE LoaderInv'
    OBVIOUS
<1>1. CASE UNCHANGED <<vars, loaderVars>>
    BY <1>1, StutterKeeps, StopsStep DEF LoaderInv, LoaderTypeOK, LifecycleInv, ReportedCanBeEnabled,
       FreshSurfaces, SurfacesStay, loaderVars, surfaceVars, vars
<1>2. CASE ObjectCall
    <2>1. Next /\ UNCHANGED loaderVars
        BY <1>2 DEF ObjectCall, Next
    <2> QED BY <2>1, ObjectStep DEF loaderVars, LoaderInv, LoaderTypeOK
<1>3. CASE LoaderNext
    BY <1>2, <1>3, NegotiationKeeps, LookupKeeps, EnumerationKeeps, CreateInstanceWithKeeps,
       CreateXcbSurfaceKeeps DEF LoaderNext
<1> QED BY <1>1, <1>3

LEMMA LoaderIsInvariant == LoaderSpec => []LoaderInv
BY LoaderInitially, LoaderStep, PTL DEF LoaderSpec

\* Type correctness of the driver as the loader meets it.
THEOREM LoaderTypeCorrect == LoaderSpec => []LoaderTypeOK
BY LoaderIsInvariant, PTL DEF LoaderInv

\* What is proved of the objects holds behind the loader too, with the host
\* library missing and extensions enabled.
THEOREM ObjectsBehindLoader ==
    LoaderSpec => [](MagicNeverDangles /\ DevicesTracked /\ OneInstanceKnown
                       /\ OnlyHostRefusalStops /\ OnlyOtherQueuesStop
                       /\ ArgumentCallsArrive /\ MagicCallsArrive)
BY LoaderIsInvariant, PTL DEF LoaderInv, LifecycleInv, OutcomeInv

\* An extension an application was told of never makes vkCreateInstance throw for
\* want of it on the host.
THEOREM ReportedIsEnabled == LoaderSpec => []ReportedCanBeEnabled
BY LoaderIsInvariant, PTL DEF LoaderInv

\* A VkSurfaceKHR names the window it was made for as long as the driver runs.
THEOREM SurfacesAreKept == LoaderSpec => []SurfacesStay
BY LoaderIsInvariant, PTL DEF LoaderInv

=============================================================================
