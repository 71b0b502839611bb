----------------------------- MODULE FenceSubmit -----------------------------
(***************************************************************************)
(* Fences, semaphores and queue submission of one VkDevice, against the    *)
(* host's queue running on its own: device.cpp,                            *)
(* vlk_trampoline_call_QueueSubmit, _QueueWaitIdle, _QueueBindSparse and   *)
(* _CreateFence up to _DestroySemaphore.                                   *)
(*                                                                         *)
(* The driver gives the application handles of its own and translates them *)
(* to the host's when it submits.  Of a fence it also keeps a flag,        *)
(* signaled, and the status, wait and reset calls look at nothing else.    *)
(*                                                                         *)
(* The application follows Vulkan's rules by what it has been told: it     *)
(* submits an unsignaled fence that is not in use, waits on a semaphore an *)
(* earlier submission signals, and destroys nothing that may be in use.    *)
(***************************************************************************)
EXTENDS Integers, Sequences, FiniteSets

CONSTANTS
    MaxFence,        \* bound: VkFence handles counted
    MaxSemaphore,    \* bound: VkSemaphore handles counted
    HostFence,       \* VkFence values the host returns
    HostSemaphore,   \* VkSemaphore values the host returns
    MaxQueued,       \* bound: submissions on the host's queue at a time
    Absent           \* "find() == end()": the map has no such key

ASSUME BoundsAssumption == MaxFence \in Nat /\ MaxSemaphore \in Nat /\ MaxQueued \in Nat

Fence == 1 .. MaxFence
Semaphore == 1 .. MaxSemaphore
VK_NULL_HANDLE == 0

FenceObject == [signaled : BOOLEAN, dispatch_handle : HostFence]

ASSUME HandleAssumption ==
    /\ Absent \notin FenceObject
    /\ Absent \notin HostSemaphore
    /\ VK_NULL_HANDLE \notin HostFence

\* One VkSubmitInfo as the host gets it, with the fence of the call.
HostSubmit == [wait : SUBSET HostSemaphore, signal : SUBSET HostSemaphore,
               commands : SUBSET {VK_NULL_HANDLE},
               fence : HostFence \cup {VK_NULL_HANDLE}]

VARIABLES
    instance_found,                     \* instances has instance_magic
    fences, fence_handler_id,
    semaphores, semaphore_handler_id,   \* semaphore -> dispatch_handle
    host_fences,        \* "none" until created, then "unsignaled" or "signaled"
    host_semaphores,    \* the same
    host_queue,         \* what the host has still to run
    host_done,          \* fences whose last submission the host has completed
    app_fences,         \* what the application knows of each fence it holds
    unwritten,          \* those of them that CreateFence never wrote
    app_semaphores,     \* what it knows of each semaphore
    in_use,             \* semaphores submitted since the queue was last idle
    running             \* FALSE once an end iterator was used

driverVars == <<fences, fence_handler_id, semaphores, semaphore_handler_id>>
hostVars == <<host_fences, host_semaphores, host_queue, host_done>>
appVars == <<app_fences, unwritten, app_semaphores, in_use>>
vars == <<instance_found, driverVars, hostVars, appVars, running>>

Init ==
    /\ instance_found = TRUE
    /\ fences = [f \in Fence |-> Absent] /\ fence_handler_id = 1
    /\ semaphores = [s \in Semaphore |-> Absent] /\ semaphore_handler_id = 1
    /\ host_fences = [h \in HostFence |-> "none"]
    /\ host_semaphores = [h \in HostSemaphore |-> "none"]
    /\ host_queue = <<>>
    /\ host_done = {}
    /\ app_fences = [f \in Fence |-> "none"]
    /\ unwritten = {}
    /\ app_semaphores = [s \in Semaphore |-> "none"]
    /\ in_use = {}
    /\ running = TRUE

\* A dereferenced end(): the application does not survive the call.
Crashes ==
    /\ running' = FALSE
    /\ UNCHANGED <<instance_found, driverVars, hostVars, appVars>>

-----------------------------------------------------------------------------
(* Fences *)

\* Mutant: handles counted from the size of the map.
NextFenceBySize == Cardinality({f \in Fence : fences[f] # Absent}) + 1

NextFence == fence_handler_id

Told(signaled) == IF signaled THEN "signaled" ELSE "unsignaled"

\* A host that refuses leaves nothing behind.  Without the instance the result is
\* VK_SUCCESS with *pFence as it was: the application takes what its variable
\* holds for the new fence, VK_NULL_HANDLE or the handle of a fence it destroyed.
CreateFence(signaled) ==
    /\ running
    /\ \/ /\ instance_found
          /\ fence_handler_id =< MaxFence
          /\ \E host \in HostFence :
               /\ host_fences[host] = "none"
               /\ host_fences' = [host_fences EXCEPT ![host] = Told(signaled)]
               /\ fences' = [fences EXCEPT ![NextFence] =
                    [signaled |-> signaled, dispatch_handle |-> host]]
          /\ fence_handler_id' = fence_handler_id + 1
          /\ app_fences' = [app_fences EXCEPT ![NextFence] = Told(signaled)]
          /\ UNCHANGED unwritten
       \/ /\ ~instance_found
          /\ \E f \in Fence :
               /\ f < fence_handler_id /\ app_fences[f] = "none"
               /\ app_fences' = [app_fences EXCEPT ![f] = Told(signaled)]
               /\ unwritten' = unwritten \cup {f}
          /\ UNCHANGED <<fences, fence_handler_id, host_fences>>
    /\ UNCHANGED <<instance_found, semaphores, semaphore_handler_id, host_semaphores,
                   host_queue, host_done, app_semaphores, in_use, running>>

\* The host's fence is not destroyed.
DestroyFence(f) ==
    /\ running
    /\ app_fences[f] \in {"unsignaled", "signaled"}
    /\ fences' = [fences EXCEPT ![f] = Absent]
    /\ app_fences' = [app_fences EXCEPT ![f] = "none"]
    /\ unwritten' = unwritten \ {f}
    /\ UNCHANGED <<instance_found, fence_handler_id, semaphores, semaphore_handler_id,
                   hostVars, app_semaphores, in_use, running>>

\* Mutant: the flag of the fence is left as it is.
AfterResetUnchanged(object) == object

AfterReset(object) == [object EXCEPT !.signaled = FALSE]

\* Handles that are not found are skipped; the host is not told.
ResetFences(F) ==
    /\ running
    /\ \A f \in F : app_fences[f] \in {"unsignaled", "signaled"}
    /\ fences' = [f \in Fence |-> IF f \in F /\ fences[f] # Absent
                                  THEN AfterReset(fences[f]) ELSE fences[f]]
    /\ app_fences' = [f \in Fence |-> IF f \in F THEN "unsignaled" ELSE app_fences[f]]
    /\ UNCHANGED <<instance_found, fence_handler_id, semaphores, semaphore_handler_id,
                   hostVars, unwritten, app_semaphores, in_use, running>>

Signaled(f) == fences[f] # Absent /\ fences[f].signaled

\* GetFenceStatus and WaitForFences, which returns at once whatever its timeout.
\* The application learns of a fence that is reported signaled; of several of
\* which it waits for any, it does not learn which one it was.
GetFenceStatus(f) ==
    /\ running
    /\ app_fences[f] # "none"
    /\ app_fences' = [app_fences EXCEPT ![f] = IF Signaled(f) THEN "signaled" ELSE @]
    /\ UNCHANGED <<instance_found, driverVars, hostVars, unwritten, app_semaphores, in_use, running>>

WaitForFences(F, waitAll) ==
    /\ running
    /\ \A f \in F : app_fences[f] # "none"
    /\ app_fences' = [f \in Fence |->
         IF f \in F /\ (waitAll \/ F = {f}) /\ \A g \in F : Signaled(g) THEN "signaled" ELSE app_fences[f]]
    /\ UNCHANGED <<instance_found, driverVars, hostVars, unwritten, app_semaphores, in_use, running>>

-----------------------------------------------------------------------------
(* Semaphores *)

\* Mutant: the semaphore is registered before the host is asked.
AfterRefusalRegistered == [semaphores EXCEPT ![semaphore_handler_id] = VK_NULL_HANDLE]

AfterRefusal == semaphores

\* The handle is taken before the host is asked and is lost if the host refuses.
\* "Not found" wants both the device and the instance to be missing.
CreateSemaphore ==
    /\ running
    /\ semaphore_handler_id =< MaxSemaphore
    /\ \/ /\ ~instance_found
          /\ Crashes
       \/ /\ instance_found
          /\ semaphore_handler_id' = semaphore_handler_id + 1
          /\ semaphores' = AfterRefusal
          /\ UNCHANGED <<instance_found, fences, fence_handler_id, hostVars, appVars, running>>
       \/ /\ instance_found
          /\ semaphore_handler_id' = semaphore_handler_id + 1
          /\ \E host \in HostSemaphore :
               /\ host_semaphores[host] = "none"
               /\ host_semaphores' = [host_semaphores EXCEPT ![host] = "unsignaled"]
               /\ semaphores' = [semaphores EXCEPT ![semaphore_handler_id] = host]
          /\ app_semaphores' = [app_semaphores EXCEPT ![semaphore_handler_id] = "unsignaled"]
          /\ UNCHANGED <<instance_found, fences, fence_handler_id, host_fences, host_queue,
                         host_done, app_fences, unwritten, in_use, running>>

\* The host's semaphore is not destroyed.
DestroySemaphore(s) ==
    /\ running
    /\ app_semaphores[s] # "none" /\ s \notin in_use
    /\ semaphores' = [semaphores EXCEPT ![s] = Absent]
    /\ app_semaphores' = [app_semaphores EXCEPT ![s] = "none"]
    /\ UNCHANGED <<instance_found, fences, fence_handler_id, semaphore_handler_id,
                   hostVars, app_fences, unwritten, in_use, running>>

-----------------------------------------------------------------------------
(* The queue *)

\* Mutant: the semaphores to signal are not passed on.
TranslateNoSignals(wait, signal, commandBuffers, fence) ==
    [wait |-> {semaphores[s] : s \in wait}, signal |-> {},
     commands |-> {VK_NULL_HANDLE : c \in commandBuffers},
     fence |-> IF fence = VK_NULL_HANDLE \/ fences[fence] = Absent
               THEN VK_NULL_HANDLE ELSE fences[fence].dispatch_handle]

\* Mutant: the fence is not passed on.
TranslateNoFence(wait, signal, commandBuffers, fence) ==
    [wait |-> {semaphores[s] : s \in wait}, signal |-> {semaphores[s] : s \in signal},
     commands |-> {VK_NULL_HANDLE : c \in commandBuffers}, fence |-> VK_NULL_HANDLE]

\* The real_submits of a call.  cmd_buffers is resized and never filled in.
Translate(wait, signal, commandBuffers, fence) ==
    [wait |-> {semaphores[s] : s \in wait},
     signal |-> {semaphores[s] : s \in signal},
     commands |-> {VK_NULL_HANDLE : c \in commandBuffers},
     fence |-> IF fence = VK_NULL_HANDLE \/ fences[fence] = Absent
               THEN VK_NULL_HANDLE ELSE fences[fence].dispatch_handle]

\* What a correct application may submit.
MaySubmit(wait, signal, fence) ==
    /\ \A s \in wait : app_semaphores[s] = "pending"
    /\ \A s \in signal : app_semaphores[s] = "unsignaled"
    /\ fence # VK_NULL_HANDLE => app_fences[fence] = "unsignaled"

\* History: the host's fence that the application means.
UsedBy(fence) == {fences[f].dispatch_handle : f \in {f \in Fence : f = fence /\ fences[f] # Absent}}

QueueSubmit(wait, signal, commandBuffers, fence) ==
    /\ running
    /\ Len(host_queue) < MaxQueued
    /\ MaySubmit(wait, signal, fence)
    /\ \/ /\ instance_found
          /\ host_queue' = Append(host_queue, Translate(wait, signal, commandBuffers, fence))
          /\ app_semaphores' = [s \in Semaphore |->
               IF s \in signal THEN "pending"
               ELSE IF s \in wait THEN "unsignaled" ELSE app_semaphores[s]]
          /\ app_fences' = [f \in Fence |-> IF f = fence THEN "submitted" ELSE app_fences[f]]
          /\ in_use' = in_use \cup wait \cup signal
          /\ host_done' = host_done \ UsedBy(fence)
          /\ UNCHANGED <<instance_found, driverVars, host_fences, host_semaphores,
                         unwritten, running>>
       \/ ~instance_found /\ Crashes

\* Mutant: the fence is marked signaled, as the sparse binding "is done".
QueueBindSparseSignals(fence) ==
    /\ running
    /\ app_fences[fence] = "unsignaled"
    /\ fences' = [f \in Fence |-> IF f = fence /\ fences[f] # Absent
                                  THEN [fences[f] EXCEPT !.signaled = TRUE] ELSE fences[f]]
    /\ app_fences' = [app_fences EXCEPT ![fence] = "bound"]
    /\ UNCHANGED <<instance_found, fence_handler_id, semaphores, semaphore_handler_id,
                   hostVars, unwritten, app_semaphores, in_use, running>>

\* "we dont support that for now so just pass": VK_SUCCESS, and nothing is done.
QueueBindSparse(fence) ==
    /\ running
    /\ app_fences[fence] = "unsignaled"
    /\ app_fences' = [app_fences EXCEPT ![fence] = "bound"]
    /\ UNCHANGED <<instance_found, driverVars, hostVars, unwritten, app_semaphores, in_use, running>>

\* The host returns once its queue is empty; VK_ERROR_DEVICE_LOST without the
\* instance tells the application nothing.
QueueWaitIdle ==
    /\ running
    /\ instance_found
    /\ host_queue = <<>>
    /\ app_fences' = [f \in Fence |-> IF app_fences[f] \in {"submitted", "bound"}
                                        THEN "signaled" ELSE app_fences[f]]
    /\ in_use' = {}
    /\ UNCHANGED <<instance_found, driverVars, hostVars, unwritten, app_semaphores, running>>

InstanceMagicChanges ==
    /\ instance_found' = ~instance_found
    /\ UNCHANGED <<driverVars, hostVars, appVars, running>>

CanRun(submit) == \A h \in submit.wait : host_semaphores[h] = "signaled"

\* The host runs its queue in order, each submission once what it waits for is
\* signaled.
HostCompletes ==
    /\ host_queue # <<>>
    /\ CanRun(Head(host_queue))
    /\ host_semaphores' = [h \in HostSemaphore |->
         IF h \in Head(host_queue).signal THEN "signaled"
         ELSE IF h \in Head(host_queue).wait THEN "unsignaled" ELSE host_semaphores[h]]
    /\ host_fences' = [h \in HostFence |->
         IF h = Head(host_queue).fence THEN "signaled" ELSE host_fences[h]]
    /\ host_queue' = Tail(host_queue)
    /\ host_done' = host_done \cup ({Head(host_queue).fence} \ {VK_NULL_HANDLE})
    /\ UNCHANGED <<instance_found, driverVars, appVars, running>>

CommandBuffers == {{}, {"commands"}}

Next ==
    \/ \E signaled \in BOOLEAN : CreateFence(signaled)
    \/ \E f \in Fence : DestroyFence(f) \/ GetFenceStatus(f) \/ QueueBindSparse(f)
    \/ \E F \in SUBSET Fence : ResetFences(F) \/ \E waitAll \in BOOLEAN : WaitForFences(F, waitAll)
    \/ CreateSemaphore
    \/ \E s \in Semaphore : DestroySemaphore(s)
    \/ \E wait, signal \in SUBSET Semaphore, c \in CommandBuffers,
          fence \in Fence \cup {VK_NULL_HANDLE} : QueueSubmit(wait, signal, c, fence)
    \/ QueueWaitIdle
    \/ InstanceMagicChanges
    \/ HostCompletes

Spec == Init /\ [][Next]_vars

\* The host always gets on with a submission that can run, and an application
\* that waits for a fence keeps asking for its status.
FairSpec ==
    /\ Spec
    /\ WF_vars(HostCompletes)
    /\ \A f \in Fence : WF_vars(GetFenceStatus(f))

-----------------------------------------------------------------------------
(* Properties *)

HostStatus == {"none", "unsignaled", "signaled"}

TypeOK ==
    /\ instance_found \in BOOLEAN
    /\ fences \in [Fence -> FenceObject \cup {Absent}]
    /\ fence_handler_id \in 1 .. MaxFence + 1
    /\ semaphores \in [Semaphore -> HostSemaphore \cup {Absent}]
    /\ semaphore_handler_id \in 1 .. MaxSemaphore + 1
    /\ host_fences \in [HostFence -> HostStatus]
    /\ host_semaphores \in [HostSemaphore -> HostStatus]
    /\ host_queue \in Seq(HostSubmit)
    /\ host_done \in SUBSET HostFence
    /\ app_fences \in [Fence -> {"none", "unsignaled", "submitted", "bound", "signaled"}]
    /\ unwritten \in SUBSET Fence
    /\ app_semaphores \in [Semaphore -> {"none", "unsignaled", "pending"}]
    /\ in_use \in SUBSET Semaphore
    /\ running \in BOOLEAN

OnQueue(host) == \E n \in DOMAIN host_queue : host_queue[n].fence = host

\* The flag the driver keeps never runs ahead of the host: a fence GetFenceStatus
\* or WaitForFences reports signaled is signaled on the host, whatever was
\* submitted, completed and reset before.
SignaledIsSound ==
    \A f \in Fence : Signaled(f) => host_fences[fences[f].dispatch_handle] = "signaled"

\* An application that has been told a fence is signaled, by its status, a wait or
\* an idle queue, is right that the work submitted with it is done: the status of
\* an earlier use is never taken for that of a later one.
ReportedMeansDone ==
    \A f \in Fence :
        (app_fences[f] = "signaled" /\ fences[f] # Absent)
            => ~OnQueue(fences[f].dispatch_handle)

\* The fence of a submission gets to the host: the host has this submission of it
\* on its queue or has completed it, an earlier use does not count.  Fences are
\* lost on the way (one that is not found is submitted as VK_NULL_HANDLE with no
\* more than a log line) only if CreateFence reported VK_SUCCESS and wrote none.
FenceTravels ==
    \A f \in Fence : app_fences[f] = "submitted" =>
        \/ f \in unwritten
        \/ /\ fences[f] # Absent
           /\ OnQueue(fences[f].dispatch_handle) \/ fences[f].dispatch_handle \in host_done

\* Translated semaphores keep the order the application asked for: the host's
\* queue never waits for a semaphore no submission ahead of it signals.
QueueNeverStuck == host_queue # <<>> => CanRun(Head(host_queue))

\* Every fence on the host's queue is signaled there in the end by this use of it,
\* if the host runs what can run.
SubmittedFenceSignals ==
    \A h \in HostFence : OnQueue(h) ~> (h \in host_done /\ host_fences[h] = "signaled")

\* "return fence status" (GetFenceStatus): an application that goes on asking
\* about a fence it submitted learns that the work is done.
FenceStatusReported ==
    \A f \in Fence :
        (fences[f] # Absent /\ OnQueue(fences[f].dispatch_handle))
            ~> (app_fences[f] # "submitted" \/ ~running)

StatusOf(map, next_id) ==
    [h \in DOMAIN map |-> IF map[h] # Absent THEN "live"
                          ELSE IF h < next_id THEN "dead" ELSE "unused"]

FenceHandles == INSTANCE HandleTable WITH
    Handle <- Fence, status <- StatusOf(fences, fence_handler_id)
SemaphoreHandles == INSTANCE HandleTable WITH
    Handle <- Semaphore, status <- StatusOf(semaphores, semaphore_handler_id)

\* A VkFence or VkSemaphore handle names one object and never another, also when
\* a creation fails after its handle was counted.
HandlesNeverReused == FenceHandles!Spec /\ SemaphoreHandles!Spec

=============================================================================
