------------------------------- MODULE Loader -------------------------------
(***************************************************************************)
(* The driver as the Vulkan loader meets it, composed with the objects of  *)
(* ObjectLifecycle: icd_interface.cpp, Context::initialize, the extension  *)
(* list and the filter of vkCreateInstance in instance.cpp, and surface.cpp. *)
(*                                                                         *)
(* The loader negotiates, asks vk_icdGetInstanceProcAddr first, and the    *)
(* application enables only extensions it has been told of.                *)
(***************************************************************************)
EXTENDS ObjectLifecycle, Sequences

CONSTANTS
    HostExtensions,     \* the instance extensions of the host, a sequence
    XcbSurface,         \* "VK_KHR_xcb_surface"
    LoaderVersions,     \* interface versions a loader proposes
    Window,             \* windows of the application
    SurfaceBlock,       \* addresses new VkIcdSurfaceXcb can return
    MaxSurfaces         \* bound: surfaces created

SUPPORTED_LOADER_ICD_INTERFACE_VERSION == 5
SurfaceId == 1 .. MaxSurfaces

HostHas == {HostExtensions[i] : i \in DOMAIN HostExtensions}

ASSUME LoaderAssumption ==
    /\ XcbSurface \notin HostHas
    /\ HostExtensions \in Seq(HostHas)
    /\ LoaderVersions \subseteq Nat
    /\ None \notin SurfaceBlock \cup Window
    /\ \A w \in Window, b \in SurfaceBlock : None # [window |-> w, handle |-> b]
    /\ MaxSurfaces \in Nat

VARIABLES
    ready,                             \* vlk_context.ready
    interface_version,                 \* what the loader was answered; 0 before
    known,                             \* extensions the application has read of
    surfaces, m_surface_handler_id,
    app_surfaces                       \* the window of each VkSurfaceKHR it holds

surfaceVars == <<surfaces, m_surface_handler_id, app_surfaces>>
loaderVars == <<ready, interface_version, known, surfaceVars>>

LoaderInit ==
    /\ Init
    /\ ready = FALSE
    /\ interface_version = 0
    /\ known = {}
    /\ surfaces = [s \in SurfaceId |-> None] /\ m_surface_handler_id = 1
    /\ app_surfaces = [b \in SurfaceBlock |-> None]

-----------------------------------------------------------------------------
(* icd_interface.cpp *)

\* The version proposed is remembered too, and read by nothing.
vk_icdNegotiateLoaderICDInterfaceVersion(version) ==
    /\ running /\ ~ready
    /\ interface_version = 0
    /\ interface_version' = IF version > SUPPORTED_LOADER_ICD_INTERFACE_VERSION
                            THEN SUPPORTED_LOADER_ICD_INTERFACE_VERSION ELSE version
    /\ UNCHANGED <<vars, ready, known, surfaceVars>>

\* Context::initialize opens libvulkan.so, finds its global functions and fills
\* the tables; what it does not find throws, and nobody catches.
Initializes(i, implemented) ==
    /\ ~ready
    /\ \/ running /\ Throws("GetInstanceProcAddr", None, "NO_HOST_LIBRARY") /\ UNCHANGED ready
       \/ GetInstanceProcAddr(i, implemented) /\ ready' = TRUE

vk_icdGetInstanceProcAddr(i, implemented) ==
    /\ interface_version # 0
    /\ \/ Initializes(i, implemented)
       \/ ready /\ GetInstanceProcAddr(i, implemented) /\ UNCHANGED ready
    /\ UNCHANGED <<interface_version, known, surfaceVars>>

\* Before the first vk_icdGetInstanceProcAddr this falls off the end; a loader
\* that asks about an instance is past it.
vk_icdGetPhysicalDeviceProcAddr(i, implemented) ==
    /\ ready
    /\ i \in app_instances
    /\ GetInstanceProcAddr(i, implemented)
    /\ UNCHANGED loaderVars

-----------------------------------------------------------------------------
(* Instance extensions *)

Reported == HostExtensions \o <<XcbSurface>>

\* The first capacity of them are copied, none if pProperties is null.  The count
\* that is written is Len(Reported) in every case: the application reads no more
\* than it gave room for.
EnumerateInstanceExtensionProperties(capacity) ==
    /\ running /\ ready
    /\ known' = known \cup {Reported[n] : n \in {m \in DOMAIN Reported : m =< capacity}}
    /\ UNCHANGED <<vars, ready, interface_version, surfaceVars>>

\* Mutant: the list is handed on as the application wrote it.
EverythingEnabled(enabled) == enabled

\* filteredExtensions: VK_KHR_xcb_surface is the driver's own.
Filtered(enabled) == enabled \ {XcbSurface}

CreateInstanceWith(enabled) ==
    /\ ready
    /\ enabled \subseteq known
    /\ \/ Filtered(enabled) \subseteq HostHas /\ CreateInstance
       \/ /\ ~(Filtered(enabled) \subseteq HostHas)
          /\ running
          /\ Throws("CreateInstance", None, "EXTENSION_NOT_PRESENT")
    /\ UNCHANGED loaderVars

-----------------------------------------------------------------------------
(* Surfaces *)

\* Mutant: the counter is not moved on, and the new surface replaces the last.
SameSurfaceId == m_surface_handler_id

NextSurfaceId == m_surface_handler_id + 1

BlocksInUse == {surfaces[s].handle : s \in {t \in SurfaceId : surfaces[t] # None}}

\* The handle is the address of the block.  A loader that was answered less than
\* version 3 makes its surfaces itself.
CreateXcbSurfaceKHR(i, window) ==
    /\ running /\ ready
    /\ i \in app_instances /\ XcbSurface \in known
    /\ interface_version >= 3
    /\ m_surface_handler_id =< MaxSurfaces
    /\ \E block \in SurfaceBlock \ BlocksInUse :
         /\ surfaces' = [surfaces EXCEPT ![m_surface_handler_id] =
              [window |-> window, handle |-> block]]
         /\ app_surfaces' = [app_surfaces EXCEPT ![block] = window]
    /\ m_surface_handler_id' = NextSurfaceId
    /\ UNCHANGED <<vars, ready, interface_version, known>>

-----------------------------------------------------------------------------
\* The application has the other functions from vk_icdGetInstanceProcAddr.
ObjectCall ==
    /\ ready
    /\ OtherCall
    /\ UNCHANGED loaderVars

LoaderNext ==
    \/ \E version \in LoaderVersions : vk_icdNegotiateLoaderICDInterfaceVersion(version)
    \/ \E i \in InstanceHandle \cup {None}, implemented \in BOOLEAN :
         \/ vk_icdGetInstanceProcAddr(i, implemented)
         \/ vk_icdGetPhysicalDeviceProcAddr(i, implemented)
    \/ \E capacity \in 0 .. Len(Reported) : EnumerateInstanceExtensionProperties(capacity)
    \/ \E enabled \in SUBSET known : CreateInstanceWith(enabled)
    \/ \E i \in InstanceHandle, window \in Window : CreateXcbSurfaceKHR(i, window)
    \/ ObjectCall

LoaderSpec == LoaderInit /\ [][LoaderNext]_<<vars, loaderVars>>

-----------------------------------------------------------------------------
(* Properties *)

LoaderTypeOK ==
    /\ TypeOK
    /\ ready \in BOOLEAN
    /\ interface_version \in 0 .. SUPPORTED_LOADER_ICD_INTERFACE_VERSION
    /\ known \in SUBSET (HostHas \cup {XcbSurface})
    /\ surfaces \in [SurfaceId -> [window : Window, handle : SurfaceBlock] \cup {None}]
    /\ m_surface_handler_id \in 1 .. MaxSurfaces + 1
    /\ app_surfaces \in [SurfaceBlock -> Window \cup {None}]

\* Whatever an application enables of the extensions it was told of, by however
\* many calls, the host is never asked for one it does not have
\* (EnumerateInstanceExtensionProperties adds what CreateInstance filters out).
ReportedCanBeEnabled == last.result # "EXTENSION_NOT_PRESENT"

\* A surface the application holds goes on naming the window it was made for,
\* through the end of its instance and the creation of other surfaces: its
\* block is never freed, and malloc hands it out to no other.
SurfacesStay ==
    \A b \in SurfaceBlock : app_surfaces[b] # None =>
        \E s \in SurfaceId : surfaces[s] = [window |-> app_surfaces[b], handle |-> b]

=============================================================================
