----------------------------- MODULE BufferViews -----------------------------
(***************************************************************************)
(* The buffer views of one VkDevice, composed with its buffers:            *)
(* device.cpp, vlk_trampoline_call_CreateBufferView and                    *)
(* vlk_trampoline_call_DestroyBufferView.  A view has the host's handle    *)
(* and, in buffer_views, an entry that no other call reads.                *)
(***************************************************************************)
EXTENDS BoundResources

CONSTANTS
    HostView,         \* VkBufferView values the host can return
    ViewRanges        \* values of VkBufferViewCreateInfo::range

\* What a variable of type VkBufferView can hold, and so the keys of the table.
View == HostView \cup {VK_NULL_HANDLE}

\* The entry and the host's view have the same fields; format is left out.
BufferView == [handle : HostBuffer \cup {VK_NULL_HANDLE},
               offset : VkDeviceSize, range : VkDeviceSize]

ASSUME ViewAssumption ==
    /\ VK_NULL_HANDLE \notin HostView
    /\ ViewRanges \subseteq VkDeviceSize
    /\ Absent \notin BufferView \cup Buffer

VARIABLES
    buffer_views,
    host_views,      \* the host's views, Absent where it has none
    app_views,       \* the buffer each view the application holds was made for
    app_clears       \* FALSE once it has passed a variable with a view in it

viewVars == <<buffer_views, host_views, app_views, app_clears>>
allVars == <<vars, viewVars>>

\* What the calls of this module leave alone.
resourceState == <<memoryState, instance_found, bufferVars, imageVars, bindingVars>>

HeldViews == {v \in View : app_views[v] # Absent}

ViewsInit ==
    /\ Init
    /\ buffer_views = [v \in View |-> Absent]
    /\ host_views = [v \in HostView |-> Absent]
    /\ app_views = [v \in View |-> Absent]
    /\ app_clears = TRUE

-----------------------------------------------------------------------------
(* Creation and destruction *)

\* Mutant: the VkBufferViewCreateInfo is handed on as the application wrote it.
ViewedBufferOfApp(b) == b

ViewedBuffer(b) == buffers[b].dispatch_handle

\* VK_WHOLE_SIZE is a number like any other here: too large at offset 0, and
\* offset - 1 once the sum has wrapped.
ViewFits(b, offset, range) == Plus(range, offset) =< buffers[b].size

NewView(b, offset, range) ==
    [handle |-> ViewedBuffer(b), offset |-> offset, range |-> range]

\* buffer_views[*pView] = buff_view, whatever *pView is by now.
RegisterView(view, b, offset, range) ==
    /\ buffer_views' = [buffer_views EXCEPT ![view] = NewView(b, offset, range)]
    /\ app_views' = [app_views EXCEPT ![view] = b]
    /\ Return("SUCCESS")

\* The host writes *pView, or it refuses or is not found and *pView keeps what
\* the application had in it: the answer is dropped and the result the same.
CreateBufferView(b, offset, range, pView) ==
    /\ device_live
    /\ \/ /\ buffers[b] = Absent
          /\ Return("ERROR_DEVICE_LOST")
          /\ UNCHANGED viewVars
       \/ /\ buffers[b] # Absent /\ ~ViewFits(b, offset, range)
          /\ Return("ERROR_OUT_OF_DEVICE_MEMORY")
          /\ UNCHANGED viewVars
       \/ /\ buffers[b] # Absent /\ ViewFits(b, offset, range)
          /\ instance_found
          /\ \E view \in HostView :
               /\ host_views[view] = Absent
               /\ host_views' = [host_views EXCEPT ![view] = NewView(b, offset, range)]
               /\ RegisterView(view, b, offset, range)
          /\ UNCHANGED app_clears
       \/ /\ buffers[b] # Absent /\ ViewFits(b, offset, range)
          /\ RegisterView(pView, b, offset, range)
          /\ app_clears' = (app_clears /\ pView = VK_NULL_HANDLE)
          /\ UNCHANGED host_views
    /\ UNCHANGED resourceState

Without(views, view) == [v \in DOMAIN views |-> IF v = view THEN Absent ELSE views[v]]

\* Mutant: erased before the instance is asked for.
DestroyBufferViewErasedFirst(view) ==
    /\ device_live
    /\ view \in HeldViews
    /\ buffer_views' = Without(buffer_views, view)
    /\ host_views' = IF instance_found THEN Without(host_views, view) ELSE host_views
    /\ app_views' = Without(app_views, view)
    /\ Return("VOID")
    /\ UNCHANGED <<app_clears, resourceState>>

\* Without the instance nothing is done, unseen by the application.
DestroyBufferView(view) ==
    /\ device_live
    /\ view \in HeldViews
    /\ IF instance_found
       THEN /\ host_views' = Without(host_views, view)
            /\ buffer_views' = Without(buffer_views, view)
       ELSE UNCHANGED <<host_views, buffer_views>>
    /\ app_views' = Without(app_views, view)
    /\ Return("VOID")
    /\ UNCHANGED <<app_clears, resourceState>>

-----------------------------------------------------------------------------
(* The whole device *)

\* The maps of the device are cleared; the host's views stay.
DestroyDeviceAndViews ==
    /\ DestroyDeviceAndResources
    /\ buffer_views' = [v \in View |-> Absent]
    /\ app_views' = [v \in View |-> Absent]
    /\ UNCHANGED <<host_views, app_clears>>

\* The application destroys the views of a buffer before the buffer.
ResourceStep ==
    /\ Next
    /\ device_live' = device_live
    /\ \A v \in HeldViews : buffers'[app_views[v]] # Absent
    /\ UNCHANGED viewVars

ViewsNext ==
    \/ ResourceStep
    \/ \E b \in Buffer, offset \in Offsets, range \in ViewRanges, pView \in View :
         CreateBufferView(b, offset, range, pView)
    \/ \E view \in View : DestroyBufferView(view)
    \/ DestroyDeviceAndViews

ViewsSpec == ViewsInit /\ [][ViewsNext]_allVars

-----------------------------------------------------------------------------
(* Properties *)

ViewsTypeOK ==
    /\ TypeOK
    /\ buffer_views \in [View -> BufferView \cup {Absent}]
    /\ host_views \in [HostView -> BufferView \cup {Absent}]
    /\ app_views \in [View -> Buffer \cup {Absent}]
    /\ app_clears \in BOOLEAN

\* No view of the host is forgotten while the device lives, whatever the host
\* refuses, whichever calls are dropped for want of the instance, and whatever
\* the application had in the variables it passed (CreateBufferView,
\* DestroyBufferView and its early return).
ViewsAccounted ==
    device_live => \A v \in HostView : host_views[v] # Absent => buffer_views[v] # Absent

\* What the host makes of a range: VK_WHOLE_SIZE is the rest of the buffer.
Covered(size, offset, range) == IF range = VK_WHOLE_SIZE THEN Minus(size, offset) ELSE range

\* An application that passes cleared variables can trust the views it holds:
\* one that is not VK_NULL_HANDLE is alive on the host, its entry describes it,
\* and it covers a part of the host buffer of the very VkBuffer it was made for
\* (CreateBufferView reports VK_SUCCESS also when there is no view, and lets
\* VK_WHOLE_SIZE pass only because the sum it checks wraps), unless its end as
\* the host reckons it lies beyond 2^64.
ViewsShowTheirBuffer ==
    app_clears =>
        \A v \in HeldViews \ {VK_NULL_HANDLE} :
            LET view == host_views[v]
                buffer == buffers[app_views[v]] IN
            /\ view # Absent /\ buffer # Absent
            /\ view = buffer_views[v]
            /\ view.handle = buffer.dispatch_handle
            /\ EndsInside(view.offset, Covered(buffer.size, view.offset, view.range), buffer.size)

=============================================================================
