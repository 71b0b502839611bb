# VlkDriver in TLA+

A verification project for VlkDriver, a Vulkan driver that stands between a
Vulkan loader and the `libvulkan.so` of an Android host. It keeps tables of
instances, devices and of the objects of each device, hands the application
handles of its own, and translates them back when it calls the host.

The modules were written from the code under `src/vulkan`; paths and line
numbers below are relative to the repository. `PROJECT.json` maps every
definition to the lines it stands for.

## 1. Inventory

| Component | Code | State | Operations |
|---|---|---|---|
| Context and entry point lookup | `context.cpp`, factories at the end of `instance.cpp`, `physical_device.cpp`, `device.cpp` | host function pointers, `instance_hooks`, `device_hooks`, `ready` | `initialize`, `GetInstanceProcAddr`, `GetDeviceProcAddr` |
| ICD interface | `icd_interface.cpp` | a global context, `loader_interface_version` (read by nothing) | negotiation, two lookups |
| Instances and physical devices | `instance.cpp`, `physical_device.cpp` | `instances`, `instance_magic`, `physicalDevices` | create, destroy, enumerate, queries |
| Devices and queues | `device.cpp` 21-343 | `devices`, `device_magic`, `queues`, `queue_by_handles` | create, destroy, get queue, submit, wait idle |
| Device memory | `device.cpp` 345-630 | `memory_map`, `memory_handler_id`, malloc'ed blocks | allocate, map, unmap, free, flush, invalidate |
| Buffers and images | `device.cpp` 632-1117 | `buffers`, `chain_images` and their counters, a raw pointer to the bound memory | create, destroy, bind, requirements |
| Buffer and image views | `device.cpp` 701-788, 932-995 | `buffer_views`, `chain_image_views` | create, destroy |
| Fences and semaphores | `device.cpp` 1120-1355 | `fences` with a `signaled` flag, `semaphores` | create, destroy, reset, status, wait |
| Events and query pools | `device.cpp` 1358-1579 | `events`, `queries` and their counters; the host knows of neither | create, destroy, set, reset, status, results |
| Pass-through objects | `device.cpp` 1611-2420 | none | shader modules, pipelines, descriptors, render passes, command pools |
| Command buffers | `device.cpp` 2422-3194 | none; reads the tables of `device_magic` | begin, end, reset, the `vkCmd` calls |
| Surface | `surface.cpp` | `surfaces`, `m_surface_handler_id` | create; nothing destroys one |
| Android glue, logging, vendored headers | `android/`, `include/log.h`, `deps/`, `include/`, `libs/` | none of the driver's | - |

How they interact: everything is a synchronous call on the application's
thread. The components share the `Context` object, whose maps nobody locks.
Most calls find the *instance* through the static `instance_magic`, the last
one created, and the `vkCmd`, queue and status calls also find the *device*
through the static `device_magic`. The host runs on its own: its queue completes
submissions while the driver does nothing. The driver has no callbacks, no
threads, no timers and no persistent state, so there is no crash recovery.

What is hard to get right, and what would make each part correct:

* *Memory*: 64-bit sums that wrap; a block freed once and never forgotten;
  mappings inside their allocation; a call that fails changes nothing.
* *Bindings*: a buffer or image keeps a raw pointer and an offset. The pointer has to find the
  memory the application bound, and the binding to lie inside it, until the application frees that memory,
  while other memory objects come and go at the same addresses.
* *Handles*: counted per device, so one number names different objects on
  different devices; a handle must never come back to name something else.
* *Threads*: the counter and the maps are unsynchronised.
* *Magic handles*: right with one instance and one device at a time; the question
  is which calls are still right with more, and what survives a history of
  objects that came and went.
* *Fences*: the driver's flag and the host's fence are two states of one object
  that are never compared.
* *Recording*: a command outlives the call that recorded it; the buffers it names
  must still be the ones the application meant.
* *Views*: the host's answer is dropped, so `*pView` may be what the application
  left in it, and it is the key of the entry.
* *Extensions*: the driver reports one the host does not have and has to take it
  out again when an instance is created with it.
* *Partial failure*: the host refuses a call after the driver has counted a handle;
  refusals go through `VLK_LOG(ERROR)`, which throws.

`PROJECT.json` lists these as hazards, each at its line, with the properties
aimed at it.

## 2. Modules

```
HandleTable            abstract: a handle is unused, then live, then dead
DeviceMemory           memory objects, sequential        implements HandleTable
  BoundResources       extends it with buffers, images   implements HandleTable, twice
    BufferViews        extends that with buffer views
ConcurrentCreate       allocation and release in their steps, several threads
EventsQueries          events and query pools            implements HandleTable, twice
ObjectLifecycle        instances, devices, how every call finds its object
  Loader               extends it with the ICD interface, extensions, surfaces
FenceSubmit            fences, semaphores, submission, the host's queue
                                                         implements HandleTable, twice
CommandRecording       commands that name buffers, several devices
<module>_proofs        its theorems; those about BufferViews are in BoundResources_proofs
MC<module>             small instances for TLC
```

**DeviceMemory.** `memory_map` and `memory_handler_id` are the fields of
`VkDeviceObject`; `heap` is what malloc has handed out; `mapping` is a ghost, the
range the application was told it may touch. One action is one whole call with
its checks in the order of the code. `Plus` and `Minus` are the unsigned
arithmetic of `VkDeviceSize`, modulo `SizeModulus`.

**BoundResources** composes the same memory with the buffers and images of the
device. A `bound_memory` is the raw pointer that `BindBufferMemory` stores: an `ObjectAddress`. `memory_objects` says
where the object of each entry of `memory_map` is, and an address whose object is gone may be given to
the next (`MemoryObjectsFollow`), so a pointer left behind by `FreeMemory` can come to find a later, smaller memory object.
`app_buffer_memory` and `app_image_memory` are histories: the memory the application bound last, by its handle, which is never
reused. `instance_found` says whether `instance_magic` is found, which another
part of the driver decides. `host_buffers` are the buffers alive on the host.

**BufferViews** adds the two calls on buffer views. `host_views` are the views of the host
with what it was asked for, `buffer_views` the driver's entries under whatever key `*pView` was,
`app_views` is the buffer the application asked a view of. `app_clears` remembers whether the
application has ever passed a variable with an old view in it and had it come back
unwritten; the code cannot tell that view from a new one. An application destroys the views of a buffer before the buffer
(`ResourceStep`).

**EventsQueries** has the two kinds of object that live in the driver alone. What `vkGetEventStatus` says of an event is
the flag that the last call about it stored; there is nobody else to compare that flag with, so the properties are about handles.
`CreateQueryPool` registers a pool, writes its handle and returns an error; the pool is followed all the same.

**ConcurrentCreate** takes `AllocateMemory` and `FreeMemory` apart: malloc, the load and
the store of `memory_handler_id++`, the insertion, the lookup with its `free`, the
erasure. Racing use of a `std::unordered_map` is undefined; the outcomes modelled are a lost
insertion and an entry that is not found. `Serialized` and `DevicesOf` say which devices the
application keeps from races, and `raced` remembers whether two threads have ever been inside one device together.
The heap belongs to all devices: what can be said of it needs `~raced`, what can be said of the map of one device needs only that this
device is kept from races.

**ObjectLifecycle** has the two magic handles, the maps they index, and one action for each
way a call finds its way: by its argument, by `device_magic`, by the queues of
`device_magic`, by `devices.begin()`. `last` records what a call was about and whose host
function it went through; `crowd` is a ghost that remembers whether the application
has ever held two instances, or two devices, at a time. The queries of instances and
physical devices and the lookups of entry points are calls like the others: what matters is the
instance whose function they end up with.

**Loader** puts in front of these objects what a Vulkan loader meets: the negotiation, `ready` with
`Context::initialize` on the first lookup, the list of extensions read by however many calls, the
filter of `vkCreateInstance`, and surfaces, whose handle is the address of their block. An application enables
only what it was told of (`known`). Everything else of `ObjectLifecycle` is `ObjectCall`.

**FenceSubmit** puts the driver's tables beside the host's fences, semaphores and
queue. `app_fences` is what the application has been told, which is what Vulkan
lets it act on. `CreateFence` without the instance returns `VK_SUCCESS` and writes nothing: the application then takes what
its variable holds, a handle it destroyed earlier, for a fence, and `unwritten` remembers which ones (a variable with
`VK_NULL_HANDLE` in it is a submission without a fence, one with a live fence in it is not considered). `host_done` is the history of the
uses of a fence: a fence is in it from the completion of a submission to the next submission with this fence, whereas the host's own
status stays signaled, as nothing resets it. `HostCompletes` is the host and is marked external.

**CommandRecording** has several devices with their buffer tables, and in `recorded` what the
host has been asked to record, with the VkBuffer the application named and the
handle the host was given. The three shapes of lookup in the code are three
actions: before any check (`CmdBindVertexBuffers`), half before (`CmdDrawIndirect`), inside
(`CmdOnBuffers`); `CmdPipelineBarrier` has none. `latest` is the device the application created last, kept apart from
`device_magic` so that it can be compared with it; `missed` remembers whether a command for that device was ever dropped with the instance
found, or crashed. Instances come and go (`InstanceMagicChanges`, in both directions, here and in the other modules that have it).

**HandleTable** is what the tables promise, stated without the code: `DeviceMemory`,
`BoundResources`, `EventsQueries` and `FenceSubmit` instantiate it with `StatusOf(map, counter)`, where a handle
below the counter without an entry is dead.

Assumptions common to all: the application follows Vulkan's rules by what it has
been told (no use of destroyed handles as far as it can know, children destroyed first, no signaled
fence submitted). A dereferenced end iterator ends the run of the application. One
`VkSubmitInfo` per `vkQueueSubmit`. The host returns a function for every name asked
for, or its library is not found at all (`NO_HOST_LIBRARY`).

## 3. Runs

| Run | Result | Instance | Question |
|---|---|---|---|
| `device_memory` | pass | 3 handles, 2 blocks, sizes modulo 8 with ranges of 1, 2, 6 and the whole size | mappings and what flush accepts, sums that wrap included; ownership of blocks, failed calls, handles |
| `bound_resources` | pass | 2 memories at 2 addresses, 2 buffers of 3 or 6 modulo 8, 1 image | bindings over the life of the memory they were made to, while others are freed and made; host buffers |
| `buffer_views` | pass | 2 buffers, 2 host views, sizes modulo 8 | views the host refused, views of an instance that was lost, variables with old views in them |
| `events_queries` | pass | 3 events, 2 pools of 1 or 2 queries | handles, those of reported failures included |
| `concurrent_create` | pass | 2 threads, 2 devices, 3 blocks, 3 handles | what a device kept from races can rely on beside one that is not; whether its calls look atomic; who owns the blocks of the shared heap |
| `concurrent_create_unsynchronized` | `HeldHandlesUnique` violated | the same | unique handles under races |
| `object_lifecycle` | pass | `Loader` with versions 2 and 7, 1 host extension, 2 surfaces; 2 instances, 3 devices, 2 queues | which calls and lookups reach their object after which histories; what the host is asked for; surfaces |
| `invalid_instance` | `OnlyInvalidInstanceRefused` violated | the same objects | whom `DestroyInstance` refuses |
| `fence_submit` | pass | 2 fences, 1 semaphore handle, 2 submissions queued | flag against host; translation; progress of the host; fences lost on the way |
| `fence_status` | `FenceStatusReported` violated | the same, fair | polling |
| `command_recording` | pass | 2 devices, 3 buffers each, 2 host buffers | recorded commands over the life of buffers and devices, with one device at a time and with several; which commands arrive |
| `command_barriers` | `ImplementedCallsPassHostHandles` violated | the same | handles in barriers |

Why the bounds are enough. Handles are never reused, so `MaxMemory`, `MaxBuffer` and
the like bound the creations of a whole behaviour: two are needed for one object
to outlive another, three for a creation after a destruction beside a live one
(this is what breaks counting by the size of the map). Malloc blocks and host
handles are fewer than the handles, so both get used again under objects that still refer to them.
Sizes up to 3 with offsets up to 3 hit a range that ends exactly at the end
of the memory, one beyond it, and one before; a size of 6 modulo 8 wraps at an offset of 2, which is what a request
near 2^64 does at any offset. A buffer of size 3 fits the larger memory at offset 0 and no smaller one.
The addresses of memory objects are as many as the memories that can be alive, so the second object is put where the first was, or elsewhere. Two devices alive and a third created afterwards make `device_magic` stale in
every way it can be. One semaphore handle and two host semaphores cover
submit, wait and creation refused; the order of two submissions is what
`QueueNeverStuck` needs. One command per command buffer is enough for
`RecordedAsNamed`, which relates single commands to tables. A view of a buffer of size 2 may be all of it,
the rest from 1 on, or reach one byte beyond; with two host views a destroyed one comes back for another buffer while a stale
variable still holds it. Version 2 is too old for surfaces, 7 newer than the driver's 5. A third
event is created after one of two was destroyed.

Deadlock is not checked: an application may stop calling at any time, and the
bounds on handles stop every model in the end.

Symmetry is used only where no property is temporal in the liveness sense.

**Fairness.** `FenceSubmit!FairSpec` has weak fairness of `HostCompletes`, as a queue of the host
makes progress whatever the application does, and of `GetFenceStatus(f)`, an
application that polls. The driver itself needs none: each of its calls is one
step. `SubmittedFenceSignals` rests on the first, and asks for the completion of the submission at hand: a fence an earlier use left signaled on the host does not count; `FenceStatusReported` is violated even with both.

**What the violations show.** Four statements of comments, messages and the README do not
hold of the code; `PROJECT.json` quotes each under "findings": two threads get one memory
handle; `vkDestroyInstance` refuses a valid instance when there are two; a submitted fence is
never reported; barriers carry driver handles.

## 4. Proofs

TLAPS proves, for every value of the constants that meets the named
assumptions of the modules, the results below. Each rests on one inductive
invariant of its module; what makes it inductive is named, as it is seldom in the property.

Where the arithmetic is concerned, `EndsInside(offset, size, total)` is the statement: the end lies inside unless the sum is
one that `VkDeviceSize` cannot hold. The code has no check for the exception, so no theorem can go
without it; every other case is covered, and no theorem assumes anything of what the application asks for.

* `DeviceMemory_proofs`: `MemoryTypeCorrect`, `BlocksAreOwned`, `MappingsStayInside`, `MappedRangesFlushable`,
  `FailuresChangeNothing`, and `MemoryImplementsHandleTable`, the refinement of
  `HandleTable`. `OwnershipInv` adds `FreshHandles`: no handle from the
  counter on is in the map. Without it the insertion of `AllocateMemory` could overwrite an entry and
  forget its block. The lemma `ChecksBoundTheRange` says what the two tests of the code establish of an offset and a size in
  modular arithmetic, and `GrantedRanges` that what `MapMemory` grants passes the tests of the flush calls also when the sum has wrapped.
* `BoundResources_proofs`: `ResourceTypeCorrect`, `BuffersStayInside`, `ImagesStayInside`, `HostBuffersAreOwned`,
  `ResourcesImplementHandleTable`. `ResourceInv` contains that of the memory, and `BindingsTyped`: the addresses of the objects are apart,
  every entry has one, and the memory an application bound last has a handle below the counter. A new allocation may revive a stale
  pointer, but never that of a memory that is still there, whose address is taken, and it never gets the handle of a freed one; this is
  why the theorems can be about the memories the application has not freed, and why they cannot be about the pointer alone. The lemma
  `MemoryCallKeeps` says once what the memory calls do to memories that exist,
  and the buffer and image lemmas build on it.
  Of `BufferViews`: `ViewsTypeCorrect`, `ViewsStayAccounted`, and `ViewsStayTrue`. `ViewsInv` puts the
  tables of the views on top of `ResourceInv`, and `BufferKeepsItself` says that no resource call alters what a view
  was checked against.
  The composition: `DeviceKeepsMemoryPromises` carries the theorems on memory to `BoundResources`, since each of its steps is a
  step of `DeviceMemory` or leaves the memory alone (`StepOfMemory`), and `WholeDeviceKeepsPromises` those on memory, buffers, images
  and their three handle tables to `BufferViews` in the same way (`StepOfResources`).
* `ConcurrentCreate_proofs`: `TypeCorrect`, `GuardedHandlesNameTheirBlocks`, `GuardedEntriesAccounted`, `HeapStaysAccounted`,
  `GuardedTablesImplementHandleTable` and `GuardedHandlesAreUnique`. The invariant says of each
  guarded device that at most one thread is inside, where that thread is in its call,
  and which handles are counted; `ElsewhereKeeps` is that steps on other
  devices, races included, do not touch it. The refinement picks the moment at which a call takes effect: a handle that is counted
  and not yet inserted is still unused, `Insert` creates it and `Erase` ends it; every other step of a call stutters.
  `HeapStaysAccounted` uses the same invariant with every device taken for guarded as long as no race has happened (`Quiet`): a block that
  another device is given while an entry still names it is nobody's at that moment, since only the call between its `free` and its `erase` knows the entry.
  `GuardedHandlesAreUnique` is the reverse of the run that violates `HeldHandlesUnique`: where every device is guarded, the property holds.
* `ObjectLifecycle_proofs`: `ObjectTypeCorrect`, `MagicIsAlive`, `DevicesAreTracked`, `OneInstanceIsKnown`,
  `CorrectApplicationsRun`, `CallsByArgumentArrive`, `CallsByMagicArrive`, `OneInstanceIsAccepted`. `LifecycleInv` is what lookups find; it adds `ParentsLive` (a device
  outlives its instance nowhere) and `OneDeviceKnown` (with one device at a time, the live one is that of
  `device_magic`). `OutcomeInv` is what the last call did and follows from `LifecycleInv` before the call.
  `OneInstanceIsAccepted` is the reverse of the run that violates `OnlyInvalidInstanceRefused`, and says more: with one instance at a
  time and any number of devices, the two calls that look for a queue among those of `device_magic` are all that can stop an
  application that the host does not refuse.
* `Loader_proofs`: `ObjectsBehindLoader` carries all of these over, since each step of the loader is a step of the
  objects, leaves them alone, or throws for one of two new reasons; `ReportedIsEnabled` shows that the second
  of these, an extension the host does not have, never occurs. `SurfacesAreKept` needs `FreshSurfaces`, and
  `LoaderTypeCorrect` completes the set.
* `EventsQueries_proofs`: `EventsTypeCorrect`, `EventsImplementHandleTable`, with `FreshEvents` and
  `FreshQueries`.
* `FenceSubmit_proofs`: `SubmitTypeCorrect`, `StatusIsSound`, `ReportsAreTrue`, `FencesTravel`, `QueueMovesOn`,
  `SubmitImplementsHandleTable`, `StatusNeverReports`, `PlacesAdvance`, `HeadIsSignaled`. `FencePart` relates the driver's entries, the host's fences and what the application knows:
  no two entries share a fence of the host (`FencesApart`), the flag is never news (`FlagIsKnown`), and
  what is on the queue is submitted (`QueuedAreSubmitted`). `SemaphorePart` looks at the whole queue: `SignaledAfter(n, h)` is what its
  first `n` submissions leave of a semaphore, every submission finds what it waits for after those
  before it (`WaitsAreAnswered`), and after all of them the application's expectation is met (`PendingWillBeSignaled`).
  `UnwrittenAreStale` says that a fence `CreateFence` did not write is in no entry and never will be, so it is the only kind that a submission loses.
  `StatusNeverReports` is the safety half of the run that violates `FenceStatusReported`: of all steps only `QueueWaitIdle` ends
  what the application knows as submitted. `PlacesAdvance` and `HeadIsSignaled` are the steps of `SubmittedFenceSignals`: a submission moves from each place of the
  queue to the one before, and from the first it is completed and its fence is signaled (`DoneNow`). They assume `HostGetsOn`, that a queue that never again becomes
  empty is served infinitely often: weak fairness with the guard of `HostCompletes` written out for `ENABLED`, which the prover does
  not have; that the guard is right, that is that a queue with work is never stuck, is `QueueMovesOn`.
* `CommandRecording_proofs`: `RecordingTypeCorrect`, `CommandsAlwaysArrive`, `CommandsNameTheirBuffers`, and the action properties
  `HandlesOfDeviceCalled` and `NamedOnceNamedAlways`. `RecordingInv` has `DevicesAreTracked`, the tables (`BuffersAreHeld`, `BuffersAreFresh`,
  `BuffersAreOwned`: a host buffer is in one entry of one device) and the commands (`NamedAreHeld`: what is recorded names buffers that
  are still held, so destroying a buffer touches no command). `LatestFinds` is the heart of it: every lookup of a
  `vkCmd` call for the device created last succeeds, and with one device at a time there is no other to record for. `HandlesOfDeviceCalled` needs no such restriction, and neither does
  `NamedOnceNamedAlways`: `HeldBufferStays` says that no step on any device changes the entry of a buffer that is held, so a command
  that was recorded right stays right, and only the moment of recording, through the wrong `device_magic`, can make one wrong.

Only model-checked: `SubmittedFenceSignals` as a whole. Its steps are proved, for every place of the queue; that they add up takes
an induction over the length of the queue inside a temporal formula, and the step from `WF_vars(HostCompletes)` to `HostGetsOn` takes
`ENABLED`; neither is within the prover's reach. The four properties that are violated have runs that show it; for three of them a
theorem says under what condition, or how far, the opposite holds (`GuardedHandlesAreUnique`, `OneInstanceIsAccepted`,
`StatusNeverReports`). Every other property of a passing run is a theorem. The types of
`EventsQueries`, `BufferViews` and `CommandRecording` are theorems, and no run repeats them.

What the proofs take for granted is what the modules say of the application and of the host:
the guards of the actions (an application acts on what it was told; the host returns handles it has not given out)
and the assumptions on the constants, each named in its module and evaluated by TLC in the runs.

## 5. Not modelled, and why

* `vkGetDeviceMemoryCommitment` (`device.cpp` 602-630): it answers the size of a memory object and changes nothing.
* What a stale `bound_memory` finds. Once the application has freed the memory of a buffer, the pointer is in the buffer still and may find a
  later, smaller object at the same address; the statement that a buffer lies inside whatever its pointer finds is false of the code, after
  a handful of calls. No code follows the pointer of a buffer or an image, so no property is about it.
* The host's fences and semaphores, which `vkDestroyFence` and `vkDestroySemaphore` never give back, and the entries of surfaces, which nothing
  erases: the actions have it so, and no property restates it.
* Commands for a device that is not the one created last: they are looked up in the tables of another device, and are lost, crash or name other
  buffers. The model has all of this; the properties say which commands are safe from it.
* Image views (`device.cpp` 932-995) and `vkGetImageMemoryRequirements` with its 32-bit product: `vkCreateImage`
  returns an error in every case, so an application that heeds results has no image to call them with. The table of image
  views is written and cleared and never read.
* Commands on images and queries, for the same reason; commands on events hand the host a handle
  it never made, which no state of the driver depends on.
* The buffer requirement calls, sparse requirements, subresource layout, render area granularity,
  `vkEnumerateInstanceVersion`, the layer list, presentation support: they answer without changing state.
* What the tables of names contain, name by name: a name is implemented or it is not.
* `vkDestroySurfaceKHR` and swapchains: not in this code; their names resolve to the host's functions.
* The Android glue (`android/`): nothing in the driver calls it.
* `vkDeviceWaitIdle` calls a queue function on a device, and `vkDestroyImage` passes an uninitialised handle; what the
  host does then is not predictable. The first is marked `MISDIRECTED` and neither is judged.
* `vkQueueSubmit` hands the host null command buffers; a comment in the code (`device.cpp` 211) says that command buffers are not
  managed yet, and the model has submissions without commands.
* Two threads in other calls than `AllocateMemory` and `FreeMemory`: the same steps on another map.
* Vendored code: of some 77000 lines of C and C++ in the repository, fewer than 6000 are the driver's. The rest
  are the headers of X11, xcb and Vulkan under `include/` and `deps/`, which hold declarations and no program logic of the driver.

## 6. What is left

1. The results of `vkGetPhysicalDevice...` that the driver alters (`physical_device.cpp` 108-109 takes sparse features away, 199-200 writes a
   device name and nothing else): data on which no state depends. Images, their views and their
   requirements once `vkCreateImage` succeeds: an extension of `BoundResources` like `BufferViews`.
2. Commands in submissions: `CommandRecording` composed with `FenceSubmit` once `vkQueueSubmit` passes command buffers on.
3. Races in the other calls that create handles, as instances of `ConcurrentCreate` with the host's call between the
   steps.

New modules share runs with the existing ones where they extend them, so that the
set of runs stays one per question.
