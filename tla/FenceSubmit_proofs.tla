------------------------- MODULE FenceSubmit_proofs -------------------------
(***************************************************************************)
(* Proofs about FenceSubmit.  Two arguments run side by side.  Of fences:   *)
(* the flag of the driver is set at creation only, so a fence it calls      *)
(* signaled is not in use, and a fence on the host's queue is one the       *)
(* application knows as submitted.  Of semaphores: what the host's queue    *)
(* will have made of each of them is what the application expects of it.    *)
(***************************************************************************)
EXTENDS FenceSubmit, TLAPS

Live(f) == fences[f] # Absent
HandleOf(f) == fences[f].dispatch_handle

\* The application holds what the driver has, and what CreateFence never wrote.
FencesHeld == \A f \in Fence : app_fences[f] # "none" <=> (Live(f) \/ f \in unwritten)

FreshFences == \A f \in Fence : f >= fence_handler_id => ~Live(f)

UnwrittenAreStale == \A f \in unwritten : f < fence_handler_id /\ ~Live(f)

\* Two fences never share a fence of the host, and the host has each of them.
FencesApart ==
    /\ \A f, g \in Fence : Live(f) /\ Live(g) /\ HandleOf(f) = HandleOf(g) => f = g
    /\ \A f \in Fence : Live(f) => host_fences[HandleOf(f)] # "none"

\* The driver's flag is not news to the application.
FlagIsKnown == \A f \in Fence : Signaled(f) => app_fences[f] = "signaled"

Submitted(host) ==
    \E f \in Fence : Live(f) /\ HandleOf(f) = host /\ app_fences[f] = "submitted"

QueuedAreSubmitted ==
    \A n \in DOMAIN host_queue :
        host_queue[n].fence = VK_NULL_HANDLE \/ Submitted(host_queue[n].fence)

SemaphoresHeld == \A s \in Semaphore : app_semaphores[s] # "none" <=> semaphores[s] # Absent

FreshSemaphores == \A s \in Semaphore : s >= semaphore_handler_id => semaphores[s] = Absent

SemaphoresApart ==
    /\ \A s, t \in Semaphore : semaphores[s] # Absent /\ semaphores[s] = semaphores[t] => s = t
    /\ \A s \in Semaphore :
         semaphores[s] # Absent => host_semaphores[semaphores[s]] # "none"

Touches(n, h) == h \in host_queue[n].wait \cup host_queue[n].signal

\* What the first n submissions of the queue leave of the semaphore h.
SignaledAfter(n, h) ==
    \/ \E m \in 1 .. n : h \in host_queue[m].signal /\ \A k \in m + 1 .. n : ~Touches(k, h)
    \/ host_semaphores[h] = "signaled" /\ \A k \in 1 .. n : ~Touches(k, h)

WaitsAreAnswered ==
    \A n \in 1 .. Len(host_queue) : \A h \in host_queue[n].wait : SignaledAfter(n - 1, h)

PendingWillBeSignaled ==
    \A s \in Semaphore :
        app_semaphores[s] = "pending" => SignaledAfter(Len(host_queue), semaphores[s])

FencePart ==
    /\ FencesHeld /\ FreshFences /\ UnwrittenAreStale /\ FencesApart /\ FlagIsKnown
    /\ QueuedAreSubmitted /\ SignaledIsSound /\ FenceTravels

SemaphorePart ==
    /\ SemaphoresHeld /\ FreshSemaphores /\ SemaphoresApart
    /\ WaitsAreAnswered /\ PendingWillBeSignaled

SubmitInv == TypeOK /\ FencePart /\ SemaphorePart

-----------------------------------------------------------------------------
(* What a step leaves alone *)

fenceState ==
    <<fences, fence_handler_id, host_fences, host_queue, host_done, app_fences, unwritten>>
semaphoreState ==
    <<semaphores, semaphore_handler_id, host_semaphores, host_queue, app_semaphores>>

LEMMA FencePartKept == FencePart /\ UNCHANGED fenceState => FencePart'
BY DEF FencePart, fenceState, FencesHeld, FreshFences, UnwrittenAreStale, FencesApart, FlagIsKnown,
   QueuedAreSubmitted, SignaledIsSound, FenceTravels, Live, HandleOf, Submitted, Signaled, OnQueue

LEMMA SemaphorePartKept == SemaphorePart /\ UNCHANGED semaphoreState => SemaphorePart'
BY DEF SemaphorePart, semaphoreState, SemaphoresHeld, FreshSemaphores, SemaphoresApart,
   WaitsAreAnswered, PendingWillBeSignaled, SignaledAfter, Touches

\* Type facts of one fence.
LEMMA FenceTypes ==
    ASSUME TypeOK, NEW f \in Fence, Live(f)
    PROVE  /\ fences[f] \in FenceObject
           /\ fences[f].signaled \in BOOLEAN
           /\ HandleOf(f) \in HostFence
           /\ fences[f] = [signaled |-> fences[f].signaled, dispatch_handle |-> HandleOf(f)]
BY DEF TypeOK, Live, HandleOf, FenceObject

LEMMA QueuedTypes ==
    ASSUME TypeOK, NEW n \in 1 .. Len(host_queue)
    PROVE  /\ host_queue[n].wait \subseteq HostSemaphore
           /\ host_queue[n].signal \subseteq HostSemaphore
<1>1. host_queue[n] \in HostSubmit
    BY DEF TypeOK
<1> QED BY <1>1 DEF HostSubmit

LEMMA SubmitInitially == Init => SubmitInv
<1> SUFFICES ASSUME Init PROVE SubmitInv
    OBVIOUS
<1>1. TypeOK
    BY BoundsAssumption DEF Init, TypeOK, HostStatus
<1>2. FencePart
    BY DEF Init, FencePart, FencesHeld, FreshFences, UnwrittenAreStale, FencesApart, FlagIsKnown,
       QueuedAreSubmitted, SignaledIsSound, FenceTravels, Live, Signaled
<1>3. SemaphorePart
    BY DEF Init, SemaphorePart, SemaphoresHeld, FreshSemaphores, SemaphoresApart,
       WaitsAreAnswered, PendingWillBeSignaled
<1> QED BY <1>1, <1>2, <1>3 DEF SubmitInv

-----------------------------------------------------------------------------
(* Fences *)

LEMMA FenceCreated ==
    ASSUME SubmitInv, NEW signaled \in BOOLEAN, CreateFence(signaled), instance_found
    PROVE  SubmitInv'
<1> DEFINE state == Told(signaled)
           new == fence_handler_id
           object(host) == [signaled |-> signaled, dispatch_handle |-> host]
<1>1. PICK host \in HostFence :
        /\ host_fences[host] = "none"
        /\ host_fences' = [host_fences EXCEPT ![host] = state]
        /\ fences' = [fences EXCEPT ![new] = object(host)]
    BY DEF CreateFence, NextFence
<1>2. /\ new \in Fence /\ fence_handler_id' = new + 1
      /\ app_fences' = [app_fences EXCEPT ![new] = state]
      /\ UNCHANGED <<instance_found, semaphores, semaphore_handler_id, host_semaphores,
                     host_queue, host_done, app_semaphores, in_use, running>>
      /\ UNCHANGED unwritten
    BY BoundsAssumption DEF CreateFence, NextFence, SubmitInv, TypeOK, Fence
<1>0. state \in {"signaled", "unsignaled"} /\ (state = "signaled" <=> signaled)
    BY DEF Told
<1> HIDE DEF state
<1>3. object(host) \in FenceObject /\ object(host) # Absent
    BY HandleAssumption DEF FenceObject
<1>4. ~Live(new) /\ app_fences[new] = "none" /\ new \notin unwritten
    BY <1>2 DEF SubmitInv, FencePart, FreshFences, FencesHeld, UnwrittenAreStale, TypeOK, Fence
<1>5. TypeOK'
    <2>1. fences' \in [Fence -> FenceObject \cup {Absent}]
        BY <1>1, <1>3 DEF SubmitInv, TypeOK
    <2>2. fence_handler_id' \in 1 .. MaxFence + 1
        BY <1>2, BoundsAssumption DEF Fence
    <2>3. host_fences' \in [HostFence -> HostStatus]
        BY <1>0, <1>1 DEF SubmitInv, TypeOK, HostStatus
    <2>4. app_fences' \in
            [Fence -> {"none", "unsignaled", "submitted", "bound", "signaled"}]
        BY <1>0, <1>2 DEF SubmitInv, TypeOK
    <2> QED BY <1>2, <2>1, <2>2, <2>3, <2>4 DEF SubmitInv, TypeOK
<1>6. /\ fences'[new] = object(host) /\ fences'[new] # Absent
      /\ app_fences'[new] = state /\ host_fences'[host] = state
    <2>1. new \in DOMAIN fences /\ new \in DOMAIN app_fences /\ host \in DOMAIN host_fences
        BY <1>2 DEF SubmitInv, TypeOK
    <2>2. fences'[new] = object(host)
        BY <1>1, <2>1
    <2>3. fences'[new] # Absent
        BY <1>3, <2>2
    <2> QED BY <1>1, <1>2, <2>1, <2>2, <2>3
<1>7. \A f \in Fence \ {new} :
         fences'[f] = fences[f] /\ app_fences'[f] = app_fences[f]
    BY <1>1, <1>2 DEF SubmitInv, TypeOK
<1>8. \A f \in Fence : Live(f) => HandleOf(f) # host /\ f # new
    BY <1>1, <1>4 DEF SubmitInv, FencePart, FencesApart
<1>9. \A f \in Fence : Live(f) => host_fences'[HandleOf(f)] = host_fences[HandleOf(f)]
    BY <1>1, <1>8, FenceTypes DEF SubmitInv, TypeOK
<1>10. FencePart'
    <2>1. FencesHeld'
        <3>1. app_fences'[new] # "none" /\ fences'[new] # Absent
            BY <1>0, <1>6
        <3> QED BY <1>2, <1>7, <3>1 DEF SubmitInv, FencePart, FencesHeld, Live
    <2>2. FreshFences'
        <3> SUFFICES ASSUME NEW f \in Fence, f >= new + 1 PROVE ~Live(f)'
            BY <1>2 DEF FreshFences
        <3>1. f # new /\ f >= fence_handler_id
            BY <1>2 DEF Fence
        <3> QED BY <1>7, <3>1 DEF SubmitInv, FencePart, FreshFences, Live
    <2>3. FencesApart'
        BY <1>0, <1>6, <1>7, <1>8, <1>9 DEF SubmitInv, FencePart, FencesApart, Live, HandleOf
    <2>8. UnwrittenAreStale'
        BY <1>2, <1>4, <1>7 DEF SubmitInv, FencePart, UnwrittenAreStale, Live, TypeOK, Fence
    <2>4. FlagIsKnown'
        BY <1>0, <1>6, <1>7 DEF SubmitInv, FencePart, FlagIsKnown, Signaled
    <2>5. QueuedAreSubmitted'
        BY <1>2, <1>4, <1>7
           DEF SubmitInv, FencePart, QueuedAreSubmitted, Submitted, Live, HandleOf
    <2>6. SignaledIsSound'
        BY <1>0, <1>6, <1>7, <1>9
           DEF SubmitInv, FencePart, SignaledIsSound, Signaled, Live, HandleOf
    <2>7. FenceTravels'
        BY <1>0, <1>2, <1>6, <1>7, <1>9
           DEF SubmitInv, FencePart, FenceTravels, OnQueue, Live, HandleOf
    <2> QED BY <2>1, <2>2, <2>3, <2>4, <2>5, <2>6, <2>7, <2>8 DEF FencePart
<1> QED BY <1>2, <1>5, <1>10, SemaphorePartKept DEF SubmitInv, semaphoreState

\* Without the instance the application comes to hold a fence there is not.
LEMMA FenceUnwritten ==
    ASSUME SubmitInv, NEW signaled \in BOOLEAN, CreateFence(signaled), ~instance_found
    PROVE  SubmitInv'
<1>1. PICK f \in Fence :
        /\ f < fence_handler_id /\ app_fences[f] = "none"
        /\ app_fences' = [app_fences EXCEPT ![f] = Told(signaled)]
        /\ unwritten' = unwritten \cup {f}
    BY DEF CreateFence
<1>2. UNCHANGED <<instance_found, driverVars, hostVars, app_semaphores, in_use, running>>
    BY DEF CreateFence, driverVars, hostVars
<1>3. Told(signaled) \in {"signaled", "unsignaled"}
    BY DEF Told
<1>4. TypeOK'
    BY <1>1, <1>2, <1>3 DEF SubmitInv, TypeOK, driverVars, hostVars
<1>5. ~Live(f) /\ app_fences'[f] = Told(signaled)
      /\ \A g \in Fence \ {f} : app_fences'[g] = app_fences[g]
    BY <1>1 DEF SubmitInv, TypeOK, FencePart, FencesHeld
<1>6. FencePart'
    <2>1. FencesHeld' /\ UnwrittenAreStale'
        BY <1>1, <1>2, <1>3, <1>5 DEF SubmitInv, FencePart, FencesHeld, UnwrittenAreStale, Live,
           driverVars
    <2>2. FreshFences' /\ FencesApart' /\ SignaledIsSound'
        BY <1>2 DEF SubmitInv, FencePart, FreshFences, FencesApart, SignaledIsSound, Signaled,
           Live, HandleOf, driverVars, hostVars
    <2>3. FlagIsKnown'
        BY <1>2, <1>5 DEF SubmitInv, FencePart, FlagIsKnown, Signaled, Live, driverVars
    <2>4. QueuedAreSubmitted'
        BY <1>2, <1>5 DEF SubmitInv, FencePart, QueuedAreSubmitted, Submitted, Live, HandleOf,
           driverVars, hostVars
    <2>5. FenceTravels'
        BY <1>1, <1>2, <1>3, <1>5 DEF SubmitInv, FencePart, FenceTravels, OnQueue, driverVars,
           hostVars
    <2> QED BY <2>1, <2>2, <2>3, <2>4, <2>5 DEF FencePart
<1> QED BY <1>2, <1>4, <1>6, SemaphorePartKept DEF SubmitInv, semaphoreState, driverVars, hostVars

LEMMA CreateFenceKeeps ==
    ASSUME SubmitInv, NEW signaled \in BOOLEAN, CreateFence(signaled)
    PROVE  SubmitInv'
BY FenceCreated, FenceUnwritten

LEMMA DestroyFenceKeeps ==
    ASSUME SubmitInv, NEW f \in Fence, DestroyFence(f)
    PROVE  SubmitInv'
<1>1. /\ app_fences[f] \in {"unsignaled", "signaled"}
      /\ fences' = [fences EXCEPT ![f] = Absent]
      /\ app_fences' = [app_fences EXCEPT ![f] = "none"]
      /\ unwritten' = unwritten \ {f}
      /\ UNCHANGED <<instance_found, fence_handler_id, semaphores, semaphore_handler_id,
                     hostVars, app_semaphores, in_use, running>>
    BY DEF DestroyFence
<1>2. TypeOK'
    BY <1>1 DEF SubmitInv, TypeOK, hostVars
<1>3. ~Live(f)' /\ app_fences'[f] = "none"
    BY <1>1 DEF SubmitInv, TypeOK, Live
<1>4. \A g \in Fence \ {f} : fences'[g] = fences[g] /\ app_fences'[g] = app_fences[g]
    BY <1>1 DEF SubmitInv, TypeOK
<1>5. FencePart'
    <2>1. FencesHeld' /\ FreshFences' /\ UnwrittenAreStale' /\ FencesApart' /\ FlagIsKnown'
        BY <1>1, <1>3, <1>4 DEF SubmitInv, TypeOK, FencePart, FencesHeld, FreshFences,
           UnwrittenAreStale, FencesApart, FlagIsKnown, Signaled, Live, HandleOf, hostVars
    <2>2. QueuedAreSubmitted'
        BY <1>1, <1>4 DEF SubmitInv, FencePart, QueuedAreSubmitted, Submitted, Live, HandleOf,
           hostVars
    <2>3. SignaledIsSound' /\ FenceTravels'
        BY <1>1, <1>3, <1>4 DEF SubmitInv, FencePart, SignaledIsSound, FenceTravels, OnQueue,
           Signaled, Live, hostVars
    <2> QED BY <2>1, <2>2, <2>3 DEF FencePart
<1> QED BY <1>1, <1>2, <1>5, SemaphorePartKept DEF SubmitInv, semaphoreState, hostVars

LEMMA ResetFencesKeeps ==
    ASSUME SubmitInv, NEW F \in SUBSET Fence, ResetFences(F)
    PROVE  SubmitInv'
<1>1. /\ \A f \in F : app_fences[f] \in {"unsignaled", "signaled"}
      /\ fences' = [f \in Fence |-> IF f \in F /\ fences[f] # Absent
                                    THEN AfterReset(fences[f]) ELSE fences[f]]
      /\ app_fences' = [f \in Fence |-> IF f \in F THEN "unsignaled" ELSE app_fences[f]]
      /\ UNCHANGED <<instance_found, fence_handler_id, semaphores, semaphore_handler_id,
                     hostVars, unwritten, app_semaphores, in_use, running>>
    BY DEF ResetFences
<1>2. \A f \in F : app_fences[f] # "none" /\ app_fences'[f] = "unsignaled"
    BY <1>1
<1>3. \A f \in F : Live(f) =>
                   /\ Live(f)' /\ HandleOf(f)' = HandleOf(f) /\ ~Signaled(f)'
                   /\ fences'[f] \in FenceObject
    <2> SUFFICES ASSUME NEW f \in F, Live(f)
                 PROVE  /\ Live(f)' /\ HandleOf(f)' = HandleOf(f) /\ ~Signaled(f)'
                        /\ fences'[f] \in FenceObject
        OBVIOUS
    <2>1. fences[f] \in FenceObject
        BY FenceTypes DEF SubmitInv
    <2>2. fences'[f] = [fences[f] EXCEPT !.signaled = FALSE]
        BY <1>1 DEF AfterReset, Live
    <2>3. /\ fences'[f] \in FenceObject
          /\ fences'[f].dispatch_handle = fences[f].dispatch_handle
          /\ fences'[f].signaled = FALSE
        BY <2>1, <2>2 DEF FenceObject
    <2>4. fences'[f] # Absent
        BY <2>3, HandleAssumption
    <2> QED BY <2>3, <2>4 DEF Live, HandleOf, Signaled
<1>4. /\ \A f \in Fence \ F : fences'[f] = fences[f] /\ app_fences'[f] = app_fences[f]
      /\ \A f \in F : ~Live(f) => fences'[f] = fences[f]
    BY <1>1 DEF Live
<1>5. TypeOK'
    <2>1. fences' \in [Fence -> FenceObject \cup {Absent}]
        BY <1>1, <1>3, <1>4 DEF SubmitInv, TypeOK, Live
    <2>2. app_fences' \in
            [Fence -> {"none", "unsignaled", "submitted", "bound", "signaled"}]
        BY <1>1 DEF SubmitInv, TypeOK
    <2> QED BY <1>1, <2>1, <2>2 DEF SubmitInv, TypeOK, hostVars
<1>6. \A f \in Fence : (Live(f)' <=> Live(f)) /\ HandleOf(f)' = HandleOf(f)
    BY <1>3, <1>4 DEF Live, HandleOf
<1>7. \A f \in Fence : Signaled(f)' => Signaled(f) /\ f \notin F
    BY <1>3, <1>4 DEF Signaled, Live
<1>8. \A f \in Fence : app_fences[f] = "submitted" => app_fences'[f] = "submitted"
    BY <1>1
<1>9. FencePart'
    <2>1. FencesHeld' /\ FreshFences' /\ UnwrittenAreStale' /\ FencesApart'
        BY <1>1, <1>2, <1>4, <1>6 DEF SubmitInv, TypeOK, FencePart, FencesHeld, FreshFences,
           UnwrittenAreStale, FencesApart, hostVars
    <2>2. FlagIsKnown' /\ SignaledIsSound'
        BY <1>1, <1>4, <1>6, <1>7 DEF SubmitInv, FencePart, FlagIsKnown, SignaledIsSound,
           HandleOf, hostVars
    <2>3. QueuedAreSubmitted'
        BY <1>1, <1>6, <1>8 DEF SubmitInv, FencePart, QueuedAreSubmitted, Submitted, hostVars
    <2>4. FenceTravels'
        BY <1>1, <1>2, <1>4, <1>6 DEF SubmitInv, FencePart, FenceTravels, OnQueue, Live, HandleOf,
           hostVars
    <2> QED BY <2>1, <2>2, <2>3, <2>4 DEF FencePart
<1> QED BY <1>1, <1>5, <1>9, SemaphorePartKept DEF SubmitInv, semaphoreState, hostVars

LEMMA ReportKeeps ==
    ASSUME SubmitInv,
           \/ \E f \in Fence : GetFenceStatus(f)
           \/ \E F \in SUBSET Fence, waitAll \in BOOLEAN : WaitForFences(F, waitAll)
    PROVE  SubmitInv'
<1>1. \A f \in Fence : Signaled(f) => app_fences[f] = "signaled"
    BY DEF SubmitInv, FencePart, FlagIsKnown
<1>2. app_fences' = app_fences
    <2>1. app_fences = [f \in Fence |-> app_fences[f]]
        BY DEF SubmitInv, TypeOK
    <2>2. ASSUME NEW f \in Fence, GetFenceStatus(f) PROVE app_fences' = app_fences
        BY <1>1, <2>1, <2>2 DEF GetFenceStatus
    <2>3. ASSUME NEW F \in SUBSET Fence, NEW waitAll \in BOOLEAN, WaitForFences(F, waitAll)
          PROVE  app_fences' = app_fences
        <3>1. app_fences' = [f \in Fence |->
                IF f \in F /\ (waitAll \/ F = {f}) /\ \A g \in F : Signaled(g)
                THEN "signaled" ELSE app_fences[f]]
            BY <2>3 DEF WaitForFences
        <3>2. \A f \in Fence : app_fences'[f] = app_fences[f]
            BY <1>1, <3>1
        <3> QED BY <2>1, <3>1, <3>2
    <2> QED BY <2>2, <2>3
<1>3. UNCHANGED <<instance_found, driverVars, hostVars, unwritten, app_semaphores, in_use, running>>
    BY DEF GetFenceStatus, WaitForFences
<1>4. UNCHANGED <<fenceState, semaphoreState>>
    BY <1>2, <1>3 DEF fenceState, semaphoreState, driverVars, hostVars
<1>5. TypeOK'
    BY <1>2, <1>3 DEF SubmitInv, TypeOK, driverVars, hostVars
<1> QED BY <1>4, <1>5, FencePartKept, SemaphorePartKept DEF SubmitInv

\* The calls that change only what the application knows of its fences: a fence
\* that is not in use is bound, or all those in use are done.
LEMMA KnowledgeKeeps ==
    ASSUME SubmitInv, UNCHANGED <<driverVars, hostVars, unwritten, app_semaphores>>,
           UNCHANGED <<instance_found, running>>, in_use' \in SUBSET Semaphore,
           app_fences' \in [Fence -> {"none", "unsignaled", "submitted", "bound", "signaled"}],
           \A f \in Fence : app_fences'[f] = "none" <=> app_fences[f] = "none",
           \A f \in Fence : app_fences[f] = "signaled" => app_fences'[f] = "signaled",
           \A f \in Fence : app_fences'[f] = "submitted" => app_fences[f] = "submitted",
           \/ host_queue = <<>>
           \/ \A f \in Fence : app_fences[f] = "submitted" => app_fences'[f] = "submitted"
    PROVE  SubmitInv'
<1>1. TypeOK'
    BY DEF SubmitInv, TypeOK, driverVars, hostVars
<1>2. FencePart'
    <2>1. /\ FencesHeld' /\ FreshFences' /\ UnwrittenAreStale'
          /\ FencesApart' /\ FlagIsKnown' /\ SignaledIsSound'
        BY DEF SubmitInv, FencePart, FencesHeld, FreshFences, UnwrittenAreStale, FencesApart,
           FlagIsKnown, SignaledIsSound, Signaled, Live, HandleOf, driverVars, hostVars
    <2>2. QueuedAreSubmitted'
        <3>1. CASE host_queue = <<>>
            BY <3>1 DEF QueuedAreSubmitted, hostVars
        <3>2. CASE \A f \in Fence : app_fences[f] = "submitted" => app_fences'[f] = "submitted"
            BY <3>2 DEF SubmitInv, FencePart, QueuedAreSubmitted, Submitted, Live, HandleOf,
               driverVars, hostVars
        <3> QED BY <3>1, <3>2
    <2>3. FenceTravels'
        BY DEF SubmitInv, FencePart, FenceTravels, OnQueue, driverVars, hostVars
    <2> QED BY <2>1, <2>2, <2>3 DEF FencePart
<1> QED BY <1>1, <1>2, SemaphorePartKept DEF SubmitInv, semaphoreState, driverVars, hostVars

LEMMA QueueBindSparseKeeps ==
    ASSUME SubmitInv, NEW f \in Fence, QueueBindSparse(f)
    PROVE  SubmitInv'
<1>1. /\ app_fences[f] = "unsignaled"
      /\ app_fences' = [app_fences EXCEPT ![f] = "bound"]
      /\ UNCHANGED <<driverVars, hostVars, unwritten, app_semaphores>>
      /\ UNCHANGED <<instance_found, in_use, running>>
    BY DEF QueueBindSparse
<1> QED BY <1>1, KnowledgeKeeps DEF SubmitInv, TypeOK

LEMMA QueueWaitIdleKeeps ==
    ASSUME SubmitInv, QueueWaitIdle
    PROVE  SubmitInv'
<1>1. /\ host_queue = <<>>
      /\ app_fences' = [f \in Fence |-> IF app_fences[f] \in {"submitted", "bound"}
                                          THEN "signaled" ELSE app_fences[f]]
      /\ in_use' = {}
      /\ UNCHANGED <<driverVars, hostVars, unwritten, app_semaphores>>
      /\ UNCHANGED <<instance_found, running>>
    BY DEF QueueWaitIdle
<1> QED BY <1>1, KnowledgeKeeps DEF SubmitInv, TypeOK

\* The instance is lost or found, or the application is.
LEMMA EnvironmentKeeps ==
    ASSUME SubmitInv, UNCHANGED <<driverVars, hostVars, appVars>>,
           instance_found' \in BOOLEAN, running' \in BOOLEAN
    PROVE  SubmitInv'
<1>1. TypeOK'
    BY DEF SubmitInv, TypeOK, driverVars, hostVars, appVars
<1>2. UNCHANGED <<fenceState, semaphoreState>>
    BY DEF fenceState, semaphoreState, driverVars, hostVars, appVars
<1> QED BY <1>1, <1>2, FencePartKept, SemaphorePartKept DEF SubmitInv

-----------------------------------------------------------------------------
(* Semaphores *)

LEMMA CreateSemaphoreKeeps ==
    ASSUME SubmitInv, CreateSemaphore
    PROVE  SubmitInv'
<1> DEFINE new == semaphore_handler_id
<1>1. new \in Semaphore /\ semaphores[new] = Absent /\ app_semaphores[new] = "none"
    BY BoundsAssumption DEF CreateSemaphore, SubmitInv, TypeOK, SemaphorePart,
       FreshSemaphores, SemaphoresHeld, Semaphore
<1>2. CASE Crashes
    BY <1>2, EnvironmentKeeps DEF Crashes, SubmitInv, TypeOK
<1>3. CASE /\ semaphore_handler_id' = new + 1
           /\ semaphores' = AfterRefusal
           /\ UNCHANGED <<instance_found, fences, fence_handler_id, hostVars, appVars, running>>
    <2>1. semaphores' = semaphores
        BY <1>3 DEF AfterRefusal
    <2>2. semaphore_handler_id' \in 1 .. MaxSemaphore + 1
        BY <1>1, <1>3, BoundsAssumption DEF Semaphore
    <2>3. TypeOK'
        BY <1>3, <2>1, <2>2 DEF SubmitInv, TypeOK, hostVars, appVars
    <2>4. FreshSemaphores'
        <3>1. \A s \in Semaphore : s >= new + 1 => s >= new
            BY <1>1 DEF Semaphore
        <3> QED BY <1>3, <2>1, <3>1 DEF SubmitInv, SemaphorePart, FreshSemaphores
    <2>5. SemaphorePart'
        BY <1>3, <2>1, <2>4 DEF SubmitInv, SemaphorePart, SemaphoresHeld, SemaphoresApart,
           WaitsAreAnswered, PendingWillBeSignaled, SignaledAfter, Touches, hostVars, appVars
    <2> QED BY <1>3, <2>3, <2>5, FencePartKept DEF SubmitInv, fenceState, hostVars, appVars
<1>4. ASSUME NEW host \in HostSemaphore,
             host_semaphores[host] = "none",
             host_semaphores' = [host_semaphores EXCEPT ![host] = "unsignaled"],
             semaphores' = [semaphores EXCEPT ![new] = host],
             semaphore_handler_id' = new + 1,
             app_semaphores' = [app_semaphores EXCEPT ![new] = "unsignaled"],
             UNCHANGED <<instance_found, fences, fence_handler_id, host_fences, host_queue,
                         host_done, app_fences, unwritten, in_use, running>>
      PROVE  SubmitInv'
    <2>1. TypeOK'
        <3>1. semaphores' \in [Semaphore -> HostSemaphore \cup {Absent}]
            BY <1>4 DEF SubmitInv, TypeOK
        <3>2. semaphore_handler_id' \in 1 .. MaxSemaphore + 1
            BY <1>1, <1>4, BoundsAssumption DEF Semaphore
        <3>3. host_semaphores' \in [HostSemaphore -> HostStatus]
            BY <1>4 DEF SubmitInv, TypeOK, HostStatus
        <3>4. app_semaphores' \in [Semaphore -> {"none", "unsignaled", "pending"}]
            BY <1>4 DEF SubmitInv, TypeOK
        <3> QED BY <1>4, <3>1, <3>2, <3>3, <3>4 DEF SubmitInv, TypeOK
    <2>2. semaphores'[new] = host /\ host # Absent /\ app_semaphores'[new] = "unsignaled"
        BY <1>1, <1>4, HandleAssumption DEF SubmitInv, TypeOK
    <2>3. \A s \in Semaphore \ {new} :
             semaphores'[s] = semaphores[s] /\ app_semaphores'[s] = app_semaphores[s]
        BY <1>4 DEF SubmitInv, TypeOK
    <2>4. \A s \in Semaphore : semaphores[s] # Absent => semaphores[s] # host
        BY <1>4 DEF SubmitInv, SemaphorePart, SemaphoresApart
    <2>5. \A h : host_semaphores[h] # "none" =>
                    h # host /\ (h \in HostSemaphore => host_semaphores'[h] = host_semaphores[h])
        BY <1>4 DEF SubmitInv, TypeOK
    <2>6. SemaphoresHeld' /\ FreshSemaphores' /\ SemaphoresApart'
        <3>1. SemaphoresHeld'
            BY <2>2, <2>3 DEF SubmitInv, SemaphorePart, SemaphoresHeld
        <3>2. FreshSemaphores'
            <4> SUFFICES ASSUME NEW s \in Semaphore, s >= new + 1 PROVE semaphores'[s] = Absent
                BY <1>4 DEF FreshSemaphores
            <4>1. s # new /\ s >= semaphore_handler_id
                BY <1>1 DEF Semaphore
            <4> QED BY <2>3, <4>1 DEF SubmitInv, SemaphorePart, FreshSemaphores
        <3>3. \A s \in Semaphore :
                 semaphores'[s] # Absent => host_semaphores'[semaphores'[s]] # "none"
            <4> SUFFICES ASSUME NEW s \in Semaphore, semaphores'[s] # Absent
                         PROVE  host_semaphores'[semaphores'[s]] # "none"
                OBVIOUS
            <4>1. CASE s = new
                BY <1>4, <2>2, <4>1 DEF SubmitInv, TypeOK
            <4>2. CASE s # new
                <5>1. semaphores'[s] = semaphores[s] /\ semaphores[s] \in HostSemaphore
                    BY <2>3, <4>2 DEF SubmitInv, TypeOK
                <5>2. host_semaphores[semaphores[s]] # "none"
                    BY <5>1 DEF SubmitInv, SemaphorePart, SemaphoresApart
                <5> QED BY <2>5, <5>1, <5>2
            <4> QED BY <4>1, <4>2
        <3>4. SemaphoresApart'
            BY <2>2, <2>3, <2>4, <3>3 DEF SubmitInv, SemaphorePart, SemaphoresApart
        <3> QED BY <3>1, <3>2, <3>4
    <2>7. \A n, h : h \in HostSemaphore /\ SignaledAfter(n, h) => SignaledAfter(n, h)'
        BY <1>4, <2>5 DEF SignaledAfter, Touches
    <2>8. WaitsAreAnswered'
        <3>1. \A n \in 1 .. Len(host_queue) : host_queue[n].wait \subseteq HostSemaphore
            BY QueuedTypes DEF SubmitInv
        <3> QED BY <1>4, <2>7, <3>1 DEF SubmitInv, SemaphorePart, WaitsAreAnswered
    <2>9. PendingWillBeSignaled'
        <3> SUFFICES ASSUME NEW s \in Semaphore, app_semaphores'[s] = "pending"
                     PROVE  SignaledAfter(Len(host_queue), semaphores[s])'
            BY DEF PendingWillBeSignaled
        <3>1. s # new /\ semaphores'[s] = semaphores[s] /\ app_semaphores[s] = "pending"
            BY <2>2, <2>3
        <3>2. semaphores[s] \in HostSemaphore
            BY <3>1 DEF SubmitInv, TypeOK, SemaphorePart, SemaphoresHeld
        <3>3. SignaledAfter(Len(host_queue), semaphores[s])
            BY <3>1 DEF SubmitInv, SemaphorePart, PendingWillBeSignaled
        <3> QED BY <1>4, <2>7, <3>1, <3>2, <3>3
    <2>10. SemaphorePart'
        BY <2>6, <2>8, <2>9 DEF SemaphorePart
    <2> QED BY <1>4, <2>1, <2>10, FencePartKept DEF SubmitInv, fenceState
<1> QED BY <1>2, <1>3, <1>4 DEF CreateSemaphore

LEMMA DestroySemaphoreKeeps ==
    ASSUME SubmitInv, NEW s \in Semaphore, DestroySemaphore(s)
    PROVE  SubmitInv'
<1>1. /\ semaphores' = [semaphores EXCEPT ![s] = Absent]
      /\ app_semaphores' = [app_semaphores EXCEPT ![s] = "none"]
      /\ UNCHANGED <<instance_found, fences, fence_handler_id, semaphore_handler_id,
                     hostVars, app_fences, unwritten, in_use, running>>
    BY DEF DestroySemaphore
<1>2. TypeOK'
    BY <1>1 DEF SubmitInv, TypeOK, hostVars
<1>3. semaphores'[s] = Absent /\ app_semaphores'[s] = "none"
    BY <1>1 DEF SubmitInv, TypeOK
<1>4. \A t \in Semaphore \ {s} :
         semaphores'[t] = semaphores[t] /\ app_semaphores'[t] = app_semaphores[t]
    BY <1>1 DEF SubmitInv, TypeOK
<1>5. SemaphoresHeld' /\ FreshSemaphores' /\ SemaphoresApart'
    BY <1>1, <1>3, <1>4 DEF SubmitInv, SemaphorePart, SemaphoresHeld, FreshSemaphores,
       SemaphoresApart, hostVars
<1>6. WaitsAreAnswered' /\ PendingWillBeSignaled'
    BY <1>1, <1>3, <1>4 DEF SubmitInv, SemaphorePart, WaitsAreAnswered, PendingWillBeSignaled,
       SignaledAfter, Touches, hostVars
<1> QED BY <1>1, <1>2, <1>5, <1>6, FencePartKept DEF SubmitInv, SemaphorePart, fenceState, hostVars

-----------------------------------------------------------------------------
(* The queue *)

\* A submission behind the first n changes nothing of what they leave.
LEMMA AfterAppend ==
    ASSUME TypeOK, NEW submit, host_queue' = Append(host_queue, submit),
           UNCHANGED host_semaphores,
           NEW n \in 0 .. Len(host_queue), NEW h, SignaledAfter(n, h)
    PROVE  SignaledAfter(n, h)'
<1>1. \A k \in 1 .. n : host_queue'[k] = host_queue[k]
    BY DEF TypeOK
<1>2. \A k \in 1 .. n : Touches(k, h)' <=> Touches(k, h)
    BY <1>1 DEF Touches
<1>3. CASE \E m \in 1 .. n : h \in host_queue[m].signal /\ \A k \in m + 1 .. n : ~Touches(k, h)
    BY <1>1, <1>2, <1>3 DEF SignaledAfter
<1>4. CASE host_semaphores[h] = "signaled" /\ \A k \in 1 .. n : ~Touches(k, h)
    BY <1>2, <1>4 DEF SignaledAfter
<1> QED BY <1>3, <1>4 DEF SignaledAfter

\* Nor does the last one, if it leaves the semaphore alone.
LEMMA AfterOther ==
    ASSUME NEW n \in Nat, NEW h, SignaledAfter(n, h)', ~Touches(n + 1, h)'
    PROVE  SignaledAfter(n + 1, h)'
<1>1. \A m \in 1 .. n : \A k \in m + 1 .. n + 1 : k \in m + 1 .. n \/ k = n + 1
    OBVIOUS
<1>2. \A k \in 1 .. n + 1 : k \in 1 .. n \/ k = n + 1
    OBVIOUS
<1>3. \A m \in 1 .. n : m \in 1 .. n + 1
    OBVIOUS
<1>4. CASE \E m \in 1 .. n :
             h \in host_queue'[m].signal /\ \A k \in m + 1 .. n : ~Touches(k, h)'
    BY <1>1, <1>3, <1>4 DEF SignaledAfter
<1>5. CASE host_semaphores'[h] = "signaled" /\ \A k \in 1 .. n : ~Touches(k, h)'
    BY <1>2, <1>5 DEF SignaledAfter
<1> QED BY <1>4, <1>5 DEF SignaledAfter

LEMMA SignalsAtOnce ==
    ASSUME NEW n \in Nat \ {0}, NEW h, h \in host_queue'[n].signal
    PROVE  SignaledAfter(n, h)'
<1>1. n \in 1 .. n /\ n + 1 .. n = {}
    OBVIOUS
<1> QED BY <1>1 DEF SignaledAfter

\* What the application may submit is translated to handles the host has.
LEMMA TranslatedTypes ==
    ASSUME SubmitInv, NEW wait \in SUBSET Semaphore, NEW signal \in SUBSET Semaphore,
           NEW c, NEW fence \in Fence \cup {VK_NULL_HANDLE}, MaySubmit(wait, signal, fence)
    PROVE  Translate(wait, signal, c, fence) \in HostSubmit
<1>1. \A s \in wait \cup signal : semaphores[s] \in HostSemaphore
    BY DEF MaySubmit, SubmitInv, TypeOK, SemaphorePart, SemaphoresHeld
<1>2. fence # VK_NULL_HANDLE /\ fences[fence] # Absent
        => fences[fence].dispatch_handle \in HostFence
    BY FenceTypes DEF SubmitInv, Live, HandleOf
<1> QED BY <1>1, <1>2 DEF Translate, HostSubmit

LEMMA QueueSubmitKeeps ==
    ASSUME SubmitInv, NEW wait \in SUBSET Semaphore, NEW signal \in SUBSET Semaphore,
           NEW c, NEW fence \in Fence \cup {VK_NULL_HANDLE},
           QueueSubmit(wait, signal, c, fence)
    PROVE  SubmitInv'
<1>1. CASE Crashes
    BY <1>1, EnvironmentKeeps DEF Crashes, SubmitInv, TypeOK
<1>2. CASE ~Crashes
    <2> DEFINE submit == Translate(wait, signal, c, fence)
    <2>1. /\ MaySubmit(wait, signal, fence)
          /\ host_queue' = Append(host_queue, submit)
          /\ app_semaphores' = [s \in Semaphore |->
               IF s \in signal THEN "pending"
               ELSE IF s \in wait THEN "unsignaled" ELSE app_semaphores[s]]
          /\ app_fences' = [f \in Fence |-> IF f = fence THEN "submitted" ELSE app_fences[f]]
          /\ in_use' = in_use \cup wait \cup signal
          /\ host_done' = host_done \ UsedBy(fence)
          /\ UNCHANGED <<instance_found, driverVars, host_fences, host_semaphores,
                         unwritten, running>>
        BY <1>2 DEF QueueSubmit
    <2>2. submit \in HostSubmit
        BY <2>1, TranslatedTypes
    <2>3. /\ submit.wait = {semaphores[s] : s \in wait}
          /\ submit.signal = {semaphores[s] : s \in signal}
          /\ submit.fence = IF fence = VK_NULL_HANDLE \/ fences[fence] = Absent
                            THEN VK_NULL_HANDLE ELSE HandleOf(fence)
        BY DEF Translate, HandleOf
    <2> HIDE DEF submit
    <2>4. PICK len \in Nat : len = Len(host_queue)
        BY DEF SubmitInv, TypeOK
    <2>5. /\ Len(host_queue') = len + 1
          /\ host_queue'[len + 1] = submit
          /\ \A n \in 1 .. len : host_queue'[n] = host_queue[n]
          /\ DOMAIN host_queue = 1 .. len /\ DOMAIN host_queue' = 1 .. len + 1
        BY <2>1, <2>2, <2>4 DEF SubmitInv, TypeOK
    <2>6. TypeOK'
        <3>1. host_queue' \in Seq(HostSubmit)
            BY <2>1, <2>2 DEF SubmitInv, TypeOK
        <3>2. app_fences' \in
                [Fence -> {"none", "unsignaled", "submitted", "bound", "signaled"}]
            BY <2>1 DEF SubmitInv, TypeOK
        <3>3. app_semaphores' \in [Semaphore -> {"none", "unsignaled", "pending"}]
            BY <2>1 DEF SubmitInv, TypeOK
        <3> QED BY <2>1, <3>1, <3>2, <3>3 DEF SubmitInv, TypeOK, driverVars
    <2>7. fence # VK_NULL_HANDLE =>
            /\ app_fences[fence] = "unsignaled" /\ fence \in Fence
            /\ app_fences'[fence] = "submitted"
            /\ Live(fence) \/ fence \in unwritten
            /\ submit.fence = IF Live(fence) THEN HandleOf(fence) ELSE VK_NULL_HANDLE
        BY <2>1, <2>3 DEF MaySubmit, SubmitInv, FencePart, FencesHeld, Live
    <2>8. \A f \in Fence \ {fence} : app_fences'[f] = app_fences[f]
        BY <2>1
    <2>9. VK_NULL_HANDLE \notin Fence
        BY DEF VK_NULL_HANDLE, Fence
    <2>10. FencePart'
        <3>1. /\ FencesHeld' /\ FreshFences' /\ UnwrittenAreStale'
              /\ FencesApart' /\ FlagIsKnown' /\ SignaledIsSound'
            BY <2>1, <2>7, <2>8, <2>9 DEF SubmitInv, FencePart, FencesHeld, FreshFences,
               UnwrittenAreStale, FencesApart, FlagIsKnown, SignaledIsSound, Signaled, Live,
               HandleOf, driverVars
        <3>2. ASSUME NEW host, Submitted(host) PROVE Submitted(host)'
            BY <2>1, <2>7, <2>8, <3>2 DEF Submitted, Live, HandleOf, driverVars
        <3>3. QueuedAreSubmitted'
            <4>1. ASSUME NEW n \in 1 .. len + 1, NEW host, host_queue'[n].fence = host
                  PROVE  host = VK_NULL_HANDLE \/ Submitted(host)'
                <5>1. CASE n \in 1 .. len
                    BY <2>5, <3>2, <4>1, <5>1 DEF SubmitInv, FencePart, QueuedAreSubmitted
                <5>2. CASE n = len + 1 /\ (fence = VK_NULL_HANDLE \/ ~Live(fence))
                    BY <2>3, <2>5, <2>7, <4>1, <5>2
                <5>3. CASE n = len + 1 /\ fence # VK_NULL_HANDLE /\ Live(fence)
                    <6>1. fences' = fences
                        BY <2>1 DEF driverVars
                    <6>2. host = HandleOf(fence)
                        BY <2>5, <2>7, <4>1, <5>3
                    <6> QED BY <2>7, <5>3, <6>1, <6>2 DEF Submitted, Live, HandleOf
                <5> QED BY <5>1, <5>2, <5>3
            <4> QED BY <2>5, <4>1 DEF QueuedAreSubmitted, Submitted
        <3>4. FenceTravels'
            <4> SUFFICES ASSUME NEW f \in Fence, app_fences'[f] = "submitted", f \notin unwritten
                         PROVE  /\ fences[f] # Absent
                                /\ OnQueue(HandleOf(f))' \/ HandleOf(f) \in host_done'
                BY <2>1 DEF FenceTravels, HandleOf, driverVars
            <4>1. HandleOf(f)' = HandleOf(f)
                BY <2>1 DEF driverVars, HandleOf
            <4>2. CASE f = fence
                <5>1. Live(f) /\ host_queue'[len + 1].fence = HandleOf(f)
                    BY <2>5, <2>7, <2>9, <4>2
                <5> QED BY <2>5, <4>1, <5>1 DEF OnQueue, Live
            <4>3. CASE f # fence
                <5>1. /\ fences[f] # Absent
                      /\ OnQueue(HandleOf(f)) \/ HandleOf(f) \in host_done
                    BY <2>8, <4>3 DEF SubmitInv, FencePart, FenceTravels, HandleOf
                <5>2. OnQueue(HandleOf(f)) => OnQueue(HandleOf(f))'
                    BY <2>5, <4>1 DEF OnQueue
                <5>3. HandleOf(f) \notin UsedBy(fence)
                    BY <4>3, <5>1
                       DEF UsedBy, SubmitInv, FencePart, FencesApart, Live, HandleOf
                <5> QED BY <2>1, <5>1, <5>2, <5>3
            <4> QED BY <4>2, <4>3
        <3> QED BY <3>1, <3>3, <3>4 DEF FencePart
    <2>11. WaitsAreAnswered'
        <3> SUFFICES ASSUME NEW n \in 1 .. len + 1, NEW h \in host_queue'[n].wait
                     PROVE  SignaledAfter(n - 1, h)'
            BY <2>5 DEF WaitsAreAnswered
        <3>1. CASE n \in 1 .. len
            <4>1. SignaledAfter(n - 1, h)
                BY <2>4, <2>5, <3>1 DEF SubmitInv, SemaphorePart, WaitsAreAnswered
            <4> QED BY <2>1, <2>4, <3>1, <4>1, AfterAppend DEF SubmitInv
        <3>2. CASE n = len + 1
            <4>1. PICK s \in wait : h = semaphores[s]
                BY <2>3, <2>5, <3>2
            <4>2. SignaledAfter(len, h)
                BY <2>1, <2>4, <4>1 DEF MaySubmit, SubmitInv, SemaphorePart, PendingWillBeSignaled
            <4>3. SignaledAfter(len, h)'
                BY <2>1, <2>4, <4>2, AfterAppend DEF SubmitInv
            <4>4. n - 1 = len
                BY <3>2
            <4> QED BY <4>3, <4>4
        <3> QED BY <3>1, <3>2
    <2>12. PendingWillBeSignaled'
        <3> SUFFICES ASSUME NEW s \in Semaphore, app_semaphores'[s] = "pending"
                     PROVE  SignaledAfter(len + 1, semaphores[s])'
            BY <2>5 DEF PendingWillBeSignaled
        <3>1. PICK h : h = semaphores[s] /\ h = semaphores'[s]
            BY <2>1 DEF driverVars
        <3>2. CASE s \in signal
            <4>1. h \in host_queue'[len + 1].signal
                BY <2>3, <2>5, <3>1, <3>2
            <4>2. SignaledAfter(len + 1, h)'
                BY <4>1, SignalsAtOnce
            <4> QED BY <3>1, <4>2
        <3>3. CASE s \notin signal
            <4>1. s \notin wait /\ app_semaphores[s] = "pending"
                BY <2>1, <3>3
            <4>2. semaphores[s] # Absent
                BY <4>1 DEF SubmitInv, SemaphorePart, SemaphoresHeld
            <4>3. h \notin submit.wait /\ h \notin submit.signal
                BY <2>3, <3>1, <3>3, <4>1, <4>2 DEF SubmitInv, SemaphorePart, SemaphoresApart
            <4>4. ~Touches(len + 1, h)'
                BY <2>5, <4>3 DEF Touches
            <4>5. SignaledAfter(len, h)
                BY <2>4, <3>1, <4>1 DEF SubmitInv, SemaphorePart, PendingWillBeSignaled
            <4>6. SignaledAfter(len, h)'
                BY <2>1, <2>4, <4>5, AfterAppend DEF SubmitInv
            <4>7. SignaledAfter(len + 1, h)'
                BY <4>4, <4>6, AfterOther
            <4> QED BY <3>1, <4>7
        <3> QED BY <3>2, <3>3
    <2>13. SemaphoresHeld' /\ FreshSemaphores' /\ SemaphoresApart'
        BY <2>1 DEF MaySubmit, SubmitInv, SemaphorePart, SemaphoresHeld, FreshSemaphores,
           SemaphoresApart, driverVars
    <2> QED BY <2>6, <2>10, <2>11, <2>12, <2>13 DEF SubmitInv, SemaphorePart
<1> QED BY <1>1, <1>2

\* The first submission is run: the others leave what they left before.
LEMMA AfterTail ==
    ASSUME SubmitInv, HostCompletes,
           NEW n \in 0 .. Len(host_queue) - 1, NEW h \in HostSemaphore, SignaledAfter(n + 1, h)
    PROVE  SignaledAfter(n, h)'
<1>1. /\ \A k \in 1 .. n : host_queue'[k] = host_queue[k + 1]
      /\ Head(host_queue) = host_queue[1]
    BY DEF HostCompletes, SubmitInv, TypeOK
<1>2. host_semaphores' = [g \in HostSemaphore |->
         IF g \in host_queue[1].signal THEN "signaled"
         ELSE IF g \in host_queue[1].wait THEN "unsignaled" ELSE host_semaphores[g]]
    BY <1>1 DEF HostCompletes
<1>3. \A k \in 1 .. n : Touches(k, h)' <=> Touches(k + 1, h)
    BY <1>1 DEF Touches
<1>4. CASE /\ host_semaphores[h] = "signaled"
           /\ \A k \in 1 .. n + 1 : ~Touches(k, h)
    <2>1. ~Touches(1, h) /\ \A k \in 1 .. n : ~Touches(k + 1, h)
        BY <1>4
    <2> QED BY <1>2, <1>3, <1>4, <2>1 DEF SignaledAfter, Touches
<1>5. ASSUME NEW m \in 1 .. n + 1, h \in host_queue[m].signal,
             \A k \in m + 1 .. n + 1 : ~Touches(k, h)
      PROVE  SignaledAfter(n, h)'
    <2>1. CASE m = 1
        <3>1. \A k \in 1 .. n : ~Touches(k + 1, h)
            BY <1>5, <2>1
        <3> QED BY <1>2, <1>3, <1>5, <2>1, <3>1 DEF SignaledAfter
    <2>2. CASE m # 1
        <3>1. m - 1 \in 1 .. n /\ (m - 1) + 1 = m
            BY <2>2
        <3>2. h \in host_queue'[m - 1].signal
            BY <1>1, <1>5, <3>1
        <3>3. \A k \in (m - 1) + 1 .. n : ~Touches(k, h)'
            BY <1>3, <1>5, <3>1
        <3> QED BY <3>1, <3>2, <3>3 DEF SignaledAfter
    <2> QED BY <2>1, <2>2
<1> QED BY <1>4, <1>5 DEF SignaledAfter

LEMMA HostCompletesKeeps ==
    ASSUME SubmitInv, HostCompletes
    PROVE  SubmitInv'
<1>1. PICK len \in Nat : len = Len(host_queue)
    BY DEF SubmitInv, TypeOK
<1>2. /\ len # 0 /\ Head(host_queue) = host_queue[1] /\ host_queue[1] \in HostSubmit
      /\ Len(host_queue') = len - 1
      /\ \A n \in 1 .. len - 1 : host_queue'[n] = host_queue[n + 1]
      /\ DOMAIN host_queue = 1 .. len /\ DOMAIN host_queue' = 1 .. len - 1
      /\ host_queue' \in Seq(HostSubmit)
    BY <1>1 DEF HostCompletes, SubmitInv, TypeOK
<1>3. /\ host_fences' = [h \in HostFence |->
           IF h = host_queue[1].fence THEN "signaled" ELSE host_fences[h]]
      /\ host_semaphores' = [h \in HostSemaphore |->
           IF h \in host_queue[1].signal THEN "signaled"
           ELSE IF h \in host_queue[1].wait THEN "unsignaled" ELSE host_semaphores[h]]
      /\ host_done' = host_done \cup ({host_queue[1].fence} \ {VK_NULL_HANDLE})
      /\ UNCHANGED <<instance_found, driverVars, appVars, running>>
    BY <1>2 DEF HostCompletes
<1>4. TypeOK'
    <2>1. host_fences' \in [HostFence -> HostStatus]
        BY <1>3 DEF SubmitInv, TypeOK, HostStatus
    <2>2. host_semaphores' \in [HostSemaphore -> HostStatus]
        BY <1>3 DEF SubmitInv, TypeOK, HostStatus
    <2>3. host_done' \in SUBSET HostFence
        BY <1>2, <1>3 DEF SubmitInv, TypeOK, HostSubmit
    <2> QED BY <1>2, <1>3, <2>1, <2>2, <2>3 DEF SubmitInv, TypeOK, driverVars, appVars
<1>5. \A h \in HostFence :
         /\ host_fences[h] # "none" => host_fences'[h] # "none"
         /\ host_fences[h] = "signaled" => host_fences'[h] = "signaled"
    BY <1>3
<1>6. \A f \in Fence : Live(f) => HandleOf(f) \in HostFence
    BY FenceTypes DEF SubmitInv
<1>7. FencePart'
    <2>1. /\ UNCHANGED <<fences, fence_handler_id, app_fences, unwritten>>
          /\ \A f \in Fence : /\ Live(f)' <=> Live(f)
                              /\ HandleOf(f)' = HandleOf(f)
                              /\ Signaled(f)' <=> Signaled(f)
        BY <1>3 DEF driverVars, appVars, Live, HandleOf, Signaled
    <2>2. FencesHeld' /\ FreshFences' /\ UnwrittenAreStale' /\ FlagIsKnown'
        BY <2>1 DEF SubmitInv, TypeOK, FencePart, FencesHeld, FreshFences, UnwrittenAreStale,
           FlagIsKnown
    <2>3. FencesApart'
        BY <1>5, <1>6, <2>1 DEF SubmitInv, FencePart, FencesApart
    <2>4. SignaledIsSound'
        BY <1>5, <1>6, <2>1 DEF SubmitInv, FencePart, SignaledIsSound, Signaled, Live, HandleOf
    <2>5. QueuedAreSubmitted'
        <3>1. ASSUME NEW n \in 1 .. len - 1, NEW host, host_queue'[n].fence = host
              PROVE  host = VK_NULL_HANDLE \/ Submitted(host)'
            <4>1. n + 1 \in 1 .. len /\ host_queue[n + 1].fence = host
                BY <1>2, <3>1
            <4>2. host = VK_NULL_HANDLE \/ Submitted(host)
                BY <1>2, <4>1 DEF SubmitInv, FencePart, QueuedAreSubmitted
            <4> QED BY <2>1, <4>2 DEF Submitted
        <3> QED BY <1>2, <3>1 DEF QueuedAreSubmitted, Submitted
    <2>6. FenceTravels'
        <3> SUFFICES ASSUME NEW f \in Fence, app_fences'[f] = "submitted", f \notin unwritten
                     PROVE  /\ fences'[f] # Absent
                            /\ \/ OnQueue(HandleOf(f))'
                               \/ HandleOf(f)' \in host_done'
            BY <2>1 DEF FenceTravels, HandleOf
        <3>1. PICK host : host = HandleOf(f) /\ host = HandleOf(f)'
            BY <2>1
        <3>2. Live(f) /\ (OnQueue(host) \/ host \in host_done)
            BY <2>1, <3>1 DEF SubmitInv, FencePart, FenceTravels, HandleOf, Live
        <3>3. ASSUME NEW n \in 1 .. len, host_queue[n].fence = host
              PROVE  OnQueue(host)' \/ host \in host_done'
            <4>1. CASE n = 1
                BY <1>3, <1>6, <3>1, <3>2, <3>3, <4>1, HandleAssumption
            <4>2. CASE n # 1
                <5>1. n - 1 \in 1 .. len - 1 /\ (n - 1) + 1 = n
                    BY <4>2
                <5>2. host_queue'[n - 1].fence = host
                    BY <1>2, <3>3, <5>1
                <5> QED BY <1>2, <5>1, <5>2 DEF OnQueue
            <4> QED BY <4>1, <4>2
        <3>4. OnQueue(host)' \/ host \in host_done'
            BY <1>2, <1>3, <3>2, <3>3 DEF OnQueue
        <3> QED BY <2>1, <3>1, <3>2, <3>4 DEF Live, HandleOf
    <2> QED BY <2>2, <2>3, <2>4, <2>5, <2>6 DEF FencePart
<1>8. SemaphorePart'
    <2>1. UNCHANGED <<semaphores, semaphore_handler_id, app_semaphores>>
        BY <1>3 DEF driverVars, appVars
    <2>2. \A s \in Semaphore : semaphores[s] # Absent => semaphores[s] \in HostSemaphore
        BY DEF SubmitInv, TypeOK
    <2>3. SemaphoresHeld' /\ FreshSemaphores' /\ SemaphoresApart'
        BY <1>3, <2>1, <2>2
           DEF SubmitInv, SemaphorePart, SemaphoresHeld, FreshSemaphores, SemaphoresApart
    <2>4. WaitsAreAnswered'
        <3> SUFFICES ASSUME NEW n \in 1 .. len - 1, NEW h \in host_queue'[n].wait
                     PROVE  SignaledAfter(n - 1, h)'
            BY <1>2 DEF WaitsAreAnswered
        <3>1. n + 1 \in 1 .. len /\ (n + 1) - 1 = n /\ n = (n - 1) + 1 /\ n - 1 \in 0 .. len - 1
            OBVIOUS
        <3>2. h \in host_queue[n + 1].wait
            BY <1>2
        <3>3. SignaledAfter((n + 1) - 1, h)
            BY <1>1, <3>1, <3>2 DEF SubmitInv, SemaphorePart, WaitsAreAnswered
        <3>4. h \in HostSemaphore
            BY <1>1, <3>1, <3>2, QueuedTypes DEF SubmitInv
        <3>5. SignaledAfter((n - 1) + 1, h)
            BY <3>1, <3>3
        <3> QED BY <1>1, <3>1, <3>4, <3>5, AfterTail
    <2>5. PendingWillBeSignaled'
        <3> SUFFICES ASSUME NEW s \in Semaphore, app_semaphores'[s] = "pending"
                     PROVE  SignaledAfter(len - 1, semaphores[s])'
            BY <1>2 DEF PendingWillBeSignaled
        <3>1. PICK h : h = semaphores[s] /\ h = semaphores'[s]
            BY <2>1
        <3>2. h \in HostSemaphore
            BY <2>1, <2>2, <3>1 DEF SubmitInv, SemaphorePart, SemaphoresHeld
        <3>3. SignaledAfter((len - 1) + 1, h)
            BY <1>1, <2>1, <3>1 DEF SubmitInv, SemaphorePart, PendingWillBeSignaled
        <3>4. len - 1 \in 0 .. len - 1
            BY <1>2
        <3>5. SignaledAfter(len - 1, h)'
            BY <1>1, <3>2, <3>3, <3>4, AfterTail
        <3> QED BY <3>1, <3>5
    <2> QED BY <2>3, <2>4, <2>5 DEF SemaphorePart
<1> QED BY <1>4, <1>7, <1>8 DEF SubmitInv

-----------------------------------------------------------------------------
(* The theorems *)

LEMMA SubmitStep == SubmitInv /\ [Next]_vars => SubmitInv'
<1> SUFFICES ASSUME SubmitInv, [Next]_vars PROVE SubmitInv'
    OBVIOUS
<1>1. CASE UNCHANGED vars
    BY <1>1, EnvironmentKeeps DEF vars, SubmitInv, TypeOK
<1>2. CASE InstanceMagicChanges
    BY <1>2, EnvironmentKeeps DEF InstanceMagicChanges, SubmitInv, TypeOK
<1>3. CASE \E signaled \in BOOLEAN : CreateFence(signaled)
    BY <1>3, CreateFenceKeeps
<1>4. CASE \E f \in Fence : DestroyFence(f) \/ QueueBindSparse(f)
    BY <1>4, DestroyFenceKeeps, QueueBindSparseKeeps
<1>5. CASE \/ \E f \in Fence : GetFenceStatus(f)
           \/ \E F \in SUBSET Fence, waitAll \in BOOLEAN : WaitForFences(F, waitAll)
    BY <1>5, ReportKeeps
<1>6. CASE \E F \in SUBSET Fence : ResetFences(F)
    BY <1>6, ResetFencesKeeps
<1>7. CASE CreateSemaphore \/ \E s \in Semaphore : DestroySemaphore(s)
    BY <1>7, CreateSemaphoreKeeps, DestroySemaphoreKeeps
<1>8. CASE \E wait, signal \in SUBSET Semaphore, c \in CommandBuffers,
              fence \in Fence \cup {VK_NULL_HANDLE} : QueueSubmit(wait, signal, c, fence)
    BY <1>8, QueueSubmitKeeps
<1>9. CASE QueueWaitIdle \/ HostCompletes
    BY <1>9, QueueWaitIdleKeeps, HostCompletesKeeps
<1> QED BY <1>1, <1>2, <1>3, <1>4, <1>5, <1>6, <1>7, <1>8, <1>9 DEF Next

LEMMA SubmitIsInvariant == Spec => []SubmitInv
BY SubmitInitially, SubmitStep, PTL DEF Spec

\* Type correctness of fences, semaphores and the queue.
THEOREM SubmitTypeCorrect == Spec => []TypeOK
BY SubmitIsInvariant, PTL DEF SubmitInv

\* The driver never calls a fence signaled that the host does not.
THEOREM StatusIsSound == Spec => []SignaledIsSound
BY SubmitIsInvariant, PTL DEF SubmitInv, FencePart

\* A fence the application has been told is signaled has no work left on the queue:
\* what is on the queue was submitted, and no two fences share one of the host.
THEOREM ReportsAreTrue == Spec => []ReportedMeansDone
<1>1. SubmitInv => ReportedMeansDone
    <2> SUFFICES ASSUME SubmitInv, NEW f \in Fence,
                        app_fences[f] = "signaled", fences[f] # Absent,
                        OnQueue(fences[f].dispatch_handle)
                 PROVE  FALSE
        BY DEF ReportedMeansDone
    <2>1. HandleOf(f) \in HostFence /\ Live(f)
        BY FenceTypes DEF SubmitInv, Live
    <2>2. Submitted(HandleOf(f))
        BY <2>1, HandleAssumption DEF SubmitInv, FencePart, QueuedAreSubmitted, OnQueue, HandleOf
    <2> QED BY <2>1, <2>2 DEF SubmitInv, FencePart, FencesApart, Submitted
<1> QED BY <1>1, SubmitIsInvariant, PTL

\* The fence of a submission gets to the host's queue and leaves it signaled.
THEOREM FencesTravel == Spec => []FenceTravels
BY SubmitIsInvariant, PTL DEF SubmitInv, FencePart

\* The host's queue never waits for a semaphore nobody signals, however many
\* submissions wait for and signal however many semaphores.
THEOREM QueueMovesOn == Spec => []QueueNeverStuck
<1>1. SubmitInv => QueueNeverStuck
    <2> SUFFICES ASSUME SubmitInv, host_queue # <<>>,
                        NEW h \in Head(host_queue).wait
                 PROVE  host_semaphores[h] = "signaled"
        BY DEF QueueNeverStuck, CanRun
    <2>1. 1 \in 1 .. Len(host_queue) /\ Head(host_queue) = host_queue[1]
        BY DEF SubmitInv, TypeOK
    <2>2. SignaledAfter(1 - 1, h)
        BY <2>1 DEF SubmitInv, SemaphorePart, WaitsAreAnswered
    <2> QED BY <2>2 DEF SignaledAfter
<1> QED BY <1>1, SubmitIsInvariant, PTL

-----------------------------------------------------------------------------
(* What the application is told *)

\* A fence the application has submitted stays so until it waits for the queue.
OnlyIdleQueueReports ==
    [][\A f \in Fence : app_fences[f] = "submitted" =>
         app_fences'[f] = "submitted" \/ QueueWaitIdle]_vars

\* The status and the wait calls never tell of a fence that was submitted: of the
\* calls the application has, vkQueueWaitIdle alone does.
THEOREM StatusNeverReports == Spec => OnlyIdleQueueReports
<1> DEFINE Silent == \A f \in Fence : app_fences[f] = "submitted" =>
                       app_fences'[f] = "submitted" \/ QueueWaitIdle
<1>1. SubmitInv /\ [Next]_vars => [Silent]_vars
    <2> SUFFICES ASSUME SubmitInv, Next, NEW f \in Fence, app_fences[f] = "submitted"
                 PROVE  app_fences'[f] = "submitted" \/ QueueWaitIdle
        OBVIOUS
    <2>1. /\ ~Signaled(f) /\ f \in DOMAIN app_fences
          /\ f # fence_handler_id
        BY BoundsAssumption DEF SubmitInv, FencePart, FlagIsKnown, FencesHeld, FreshFences,
           UnwrittenAreStale, TypeOK, Fence
    <2>2. ASSUME NEW signaled \in BOOLEAN, CreateFence(signaled) PROVE app_fences'[f] = "submitted"
        BY <2>1, <2>2 DEF CreateFence, NextFence
    <2>3. ASSUME NEW g \in Fence, DestroyFence(g) \/ GetFenceStatus(g) \/ QueueBindSparse(g)
          PROVE  app_fences'[f] = "submitted"
        BY <2>1, <2>3 DEF DestroyFence, GetFenceStatus, QueueBindSparse
    <2>4. ASSUME NEW F \in SUBSET Fence, NEW waitAll \in BOOLEAN,
                 ResetFences(F) \/ WaitForFences(F, waitAll)
          PROVE  app_fences'[f] = "submitted"
        BY <2>1, <2>4 DEF ResetFences, WaitForFences
    <2>5. CASE CreateSemaphore \/ \E s \in Semaphore : DestroySemaphore(s)
        BY <2>5 DEF CreateSemaphore, Crashes, DestroySemaphore, appVars
    <2>6. ASSUME NEW wait \in SUBSET Semaphore, NEW signal \in SUBSET Semaphore,
                 NEW c \in CommandBuffers, NEW fence \in Fence \cup {VK_NULL_HANDLE},
                 QueueSubmit(wait, signal, c, fence)
          PROVE  app_fences'[f] = "submitted"
        BY <2>6 DEF QueueSubmit, Crashes, appVars
    <2>7. CASE InstanceMagicChanges \/ HostCompletes
        BY <2>7 DEF InstanceMagicChanges, HostCompletes, appVars
    <2> QED BY <2>2, <2>3, <2>4, <2>5, <2>6, <2>7 DEF Next
<1> QED BY <1>1, SubmitIsInvariant, PTL DEF Spec, OnlyIdleQueueReports

-----------------------------------------------------------------------------
(* Progress, one place of the queue at a time *)

\* The n-th of what the host has still to run signals h.
At(n, h) == n \in DOMAIN host_queue /\ host_queue[n].fence = h

\* The host has completed the last submission of h and signaled it.
DoneNow(h) == h \in host_done /\ host_fences[h] = "signaled"

\* WF_vars(HostCompletes), with the guard in the place of ENABLED: by QueueMovesOn
\* the head of the queue can always run, so the action waits for a queue only.
HostGetsOn == <>[](host_queue # <<>>) => []<><<HostCompletes>>_vars

\* Only the host takes from the queue; the submissions to come go behind.
LEMMA PlaceKept ==
    ASSUME SubmitInv, NEW n \in Nat, NEW h, At(n, h), [Next]_vars, ~HostCompletes
    PROVE  At(n, h)'
<1>1. n \in DOMAIN host_queue /\ host_queue[n].fence = h
    BY DEF At
<1>2. CASE UNCHANGED host_queue
    BY <1>1, <1>2 DEF At
<1>3. ASSUME NEW submit, host_queue' = Append(host_queue, submit) PROVE At(n, h)'
    BY <1>1, <1>3 DEF At, SubmitInv, TypeOK
<1>4. CASE \E signaled \in BOOLEAN : CreateFence(signaled)
    BY <1>2, <1>4 DEF CreateFence
<1>5. CASE \E f \in Fence : DestroyFence(f) \/ GetFenceStatus(f) \/ QueueBindSparse(f)
    BY <1>2, <1>5 DEF DestroyFence, GetFenceStatus, QueueBindSparse, hostVars
<1>6. CASE \E F \in SUBSET Fence : ResetFences(F) \/ \E waitAll \in BOOLEAN : WaitForFences(F, waitAll)
    BY <1>2, <1>6 DEF ResetFences, WaitForFences, hostVars
<1>7. CASE CreateSemaphore \/ \E s \in Semaphore : DestroySemaphore(s)
    BY <1>2, <1>7 DEF CreateSemaphore, Crashes, DestroySemaphore, hostVars
<1>8. ASSUME NEW wait \in SUBSET Semaphore, NEW signal \in SUBSET Semaphore,
             NEW c \in CommandBuffers, NEW fence \in Fence \cup {VK_NULL_HANDLE},
             QueueSubmit(wait, signal, c, fence)
      PROVE  At(n, h)'
    BY <1>2, <1>3, <1>8 DEF QueueSubmit, Crashes, hostVars
<1>9. CASE QueueWaitIdle \/ InstanceMagicChanges \/ UNCHANGED vars
    BY <1>2, <1>9 DEF QueueWaitIdle, InstanceMagicChanges, vars, hostVars
<1> QED BY <1>4, <1>5, <1>6, <1>7, <1>8, <1>9 DEF Next

\* When the host completes a submission the others move up.
LEMMA PlaceMovesUp ==
    ASSUME SubmitInv, HostCompletes, NEW h \in HostFence
    PROVE  /\ \A n \in Nat \ {0} : At(n + 1, h) => At(n, h)'
           /\ At(1, h) => DoneNow(h)'
<1>1. PICK len \in Nat : len = Len(host_queue)
    BY DEF SubmitInv, TypeOK
<1>2. /\ len # 0 /\ Head(host_queue) = host_queue[1]
      /\ \A n \in 1 .. len - 1 : host_queue'[n] = host_queue[n + 1]
      /\ DOMAIN host_queue = 1 .. len /\ DOMAIN host_queue' = 1 .. len - 1
    BY <1>1 DEF HostCompletes, SubmitInv, TypeOK
<1>3. ASSUME NEW n \in Nat \ {0}, At(n + 1, h) PROVE At(n, h)'
    <2>1. n \in 1 .. len - 1
        BY <1>2, <1>3 DEF At
    <2> QED BY <1>2, <1>3, <2>1 DEF At
<1>4. At(1, h) => DoneNow(h)'
    BY <1>2, HandleAssumption DEF HostCompletes, At, DoneNow
<1> QED BY <1>3, <1>4

\* The submission behind the n-th moves up to its place in the end, whatever is
\* submitted after it: every place of the queue, for queues of any length.
THEOREM PlacesAdvance ==
    ASSUME NEW h \in HostFence, NEW n \in Nat \ {0}
    PROVE  Spec /\ HostGetsOn => (At(n + 1, h) ~> At(n, h))
<1>1. SubmitInv /\ At(n + 1, h) /\ [Next]_vars => At(n + 1, h)' \/ At(n, h)'
    BY PlaceKept, PlaceMovesUp
<1>2. SubmitInv /\ At(n + 1, h) /\ <<HostCompletes>>_vars => At(n, h)'
    BY PlaceMovesUp
<1>3. At(n + 1, h) => host_queue # <<>>
    BY DEF At
<1> QED BY <1>1, <1>2, <1>3, SubmitIsInvariant, PTL DEF Spec, HostGetsOn

\* The fence of the submission at the head of the queue is signaled in the end, by
\* this submission of it.
THEOREM HeadIsSignaled ==
    ASSUME NEW h \in HostFence
    PROVE  Spec /\ HostGetsOn => (At(1, h) ~> DoneNow(h))
<1>1. SubmitInv /\ At(1, h) /\ [Next]_vars => At(1, h)' \/ DoneNow(h)'
    BY PlaceKept, PlaceMovesUp
<1>2. SubmitInv /\ At(1, h) /\ <<HostCompletes>>_vars => DoneNow(h)'
    BY PlaceMovesUp
<1>3. At(1, h) => host_queue # <<>>
    BY DEF At
<1> QED BY <1>1, <1>2, <1>3, SubmitIsInvariant, PTL DEF Spec, HostGetsOn

-----------------------------------------------------------------------------
(* The refinement of HandleTable *)

LEMMA FenceStatusStep ==
    SubmitInv /\ [Next]_vars => [FenceHandles!Next]_(StatusOf(fences, fence_handler_id))
<1> SUFFICES ASSUME SubmitInv, [Next]_vars
             PROVE  [FenceHandles!Next]_(StatusOf(fences, fence_handler_id))
    OBVIOUS
<1> DEFINE status == StatusOf(fences, fence_handler_id)
<1>1. /\ DOMAIN fences = Fence /\ DOMAIN fences' = Fence
      /\ Fence \in SUBSET Nat /\ fence_handler_id \in Nat
      /\ \A f \in Fence : f >= fence_handler_id => fences[f] = Absent
    BY SubmitStep DEF SubmitInv, TypeOK, FencePart, FreshFences, Live, Fence
<1>2. /\ status = [f \in Fence |-> IF fences[f] # Absent THEN "live"
                                   ELSE IF f < fence_handler_id THEN "dead" ELSE "unused"]
      /\ status' = [f \in Fence |-> IF fences'[f] # Absent THEN "live"
                                    ELSE IF f < fence_handler_id' THEN "dead" ELSE "unused"]
    BY <1>1 DEF StatusOf
<1> HIDE DEF status
<1>3. ASSUME UNCHANGED fence_handler_id,
             \A f \in Fence : fences'[f] = Absent <=> fences[f] = Absent
      PROVE  status' = status
    BY <1>2, <1>3
<1>4. ASSUME NEW signaled \in BOOLEAN, CreateFence(signaled), instance_found
      PROVE  FenceHandles!Next
    <2> DEFINE object(host) == [signaled |-> signaled, dispatch_handle |-> host]
    <2>1. PICK host \in HostFence : fences' = [fences EXCEPT ![fence_handler_id] = object(host)]
        BY <1>4 DEF CreateFence, NextFence
    <2>2. fence_handler_id \in Fence /\ fence_handler_id' = fence_handler_id + 1
        BY <1>4, BoundsAssumption DEF CreateFence, SubmitInv, TypeOK, Fence
    <2>3. object(host) # Absent
        BY HandleAssumption DEF FenceObject
    <2>4. fences'[fence_handler_id] # Absent
        BY <1>1, <2>1, <2>2, <2>3
    <2>5. \A f \in Fence \ {fence_handler_id} :
            fences'[f] = fences[f] /\ (f < fence_handler_id' <=> f < fence_handler_id)
        BY <1>1, <2>1, <2>2
    <2>6. status[fence_handler_id] = "unused"
        BY <1>1, <1>2, <2>2
    <2>7. status' = [status EXCEPT ![fence_handler_id] = "live"]
        BY <1>2, <2>4, <2>5
    <2>8. FenceHandles!Create(fence_handler_id)
        BY <2>6, <2>7 DEF FenceHandles!Create, status
    <2> QED BY <2>2, <2>8 DEF FenceHandles!Next
<1>5. ASSUME NEW f \in Fence, DestroyFence(f) PROVE FenceHandles!Next \/ status' = status
    <2>1. fences' = [fences EXCEPT ![f] = Absent] /\ UNCHANGED fence_handler_id
        BY <1>5 DEF DestroyFence
    <2>2. CASE fences[f] # Absent
        <3>1. f < fence_handler_id /\ status[f] = "live"
            BY <1>1, <1>2, <2>2
        <3>2. status' = [g \in Fence |-> IF g \in {f} THEN "dead" ELSE status[g]]
            BY <1>1, <1>2, <2>1, <3>1
        <3>3. FenceHandles!Destroy({f}) /\ {f} \in SUBSET Fence
            BY <3>1, <3>2 DEF FenceHandles!Destroy, status
        <3> QED BY <3>3 DEF FenceHandles!Next
    <2>3. CASE fences[f] = Absent
        BY <1>1, <1>3, <2>1, <2>3
    <2> QED BY <2>2, <2>3
<1>6. ASSUME NEW F \in SUBSET Fence, ResetFences(F) PROVE status' = status
    <2>1. UNCHANGED fence_handler_id
        BY <1>6 DEF ResetFences
    <2>2. ASSUME NEW f \in Fence PROVE fences'[f] = Absent <=> fences[f] = Absent
        <3>1. CASE f \in F /\ fences[f] # Absent
            <4>1. fences[f] \in FenceObject
                BY <3>1, FenceTypes DEF SubmitInv, Live
            <4>2. fences'[f] = [fences[f] EXCEPT !.signaled = FALSE]
                BY <1>6, <3>1 DEF ResetFences, AfterReset
            <4>3. fences'[f] \in FenceObject
                BY <4>1, <4>2 DEF FenceObject
            <4> QED BY <3>1, <4>3, HandleAssumption
        <3>2. CASE ~(f \in F /\ fences[f] # Absent)
            BY <1>6, <3>2 DEF ResetFences
        <3> QED BY <3>1, <3>2
    <2> QED BY <1>3, <2>1, <2>2
<1>7. ASSUME NEW f, NEW F, NEW s, NEW all, NEW wait, NEW signal, NEW c,
             \/ GetFenceStatus(f) \/ QueueBindSparse(f) \/ WaitForFences(F, all)
             \/ CreateSemaphore \/ DestroySemaphore(s)
             \/ QueueSubmit(wait, signal, c, f) \/ QueueWaitIdle
             \/ InstanceMagicChanges \/ HostCompletes \/ UNCHANGED vars
      PROVE  status' = status
    <2>1. UNCHANGED <<fences, fence_handler_id>>
        BY <1>7 DEF GetFenceStatus, QueueBindSparse, WaitForFences, CreateSemaphore,
           DestroySemaphore, QueueSubmit, QueueWaitIdle, InstanceMagicChanges, HostCompletes,
           Crashes, driverVars, vars
    <2> QED BY <1>3, <2>1
<1>8. CASE \E signaled \in BOOLEAN : CreateFence(signaled)
    <2>1. ASSUME ~instance_found PROVE status' = status
        BY <1>3, <1>8, <2>1 DEF CreateFence
    <2> QED BY <1>4, <1>8, <2>1 DEF status
<1>9. CASE \E f \in Fence : DestroyFence(f)
    BY <1>5, <1>9 DEF status
<1>10. CASE \E F \in SUBSET Fence : ResetFences(F)
    BY <1>6, <1>10 DEF status
<1>11. CASE \/ \E f \in Fence : GetFenceStatus(f) \/ QueueBindSparse(f)
            \/ \E F \in SUBSET Fence, all \in BOOLEAN : WaitForFences(F, all)
            \/ CreateSemaphore \/ \E s \in Semaphore : DestroySemaphore(s)
            \/ \E wait, signal \in SUBSET Semaphore, c \in CommandBuffers,
                  f \in Fence \cup {VK_NULL_HANDLE} : QueueSubmit(wait, signal, c, f)
            \/ QueueWaitIdle \/ InstanceMagicChanges \/ HostCompletes \/ UNCHANGED vars
    BY <1>7, <1>11 DEF status
<1> QED BY <1>8, <1>9, <1>10, <1>11 DEF Next

LEMMA SemaphoreStatusStep ==
    SubmitInv /\ [Next]_vars
        => [SemaphoreHandles!Next]_(StatusOf(semaphores, semaphore_handler_id))
<1> SUFFICES ASSUME SubmitInv, [Next]_vars
             PROVE  [SemaphoreHandles!Next]_(StatusOf(semaphores, semaphore_handler_id))
    OBVIOUS
<1> DEFINE status == StatusOf(semaphores, semaphore_handler_id)
           new == semaphore_handler_id
<1>1. /\ DOMAIN semaphores = Semaphore /\ DOMAIN semaphores' = Semaphore
      /\ Semaphore \in SUBSET Nat /\ semaphore_handler_id \in Nat
      /\ \A s \in Semaphore : s >= semaphore_handler_id => semaphores[s] = Absent
    BY SubmitStep DEF SubmitInv, TypeOK, SemaphorePart, FreshSemaphores, Semaphore
<1>2. /\ status = [s \in Semaphore |-> IF semaphores[s] # Absent THEN "live"
                          ELSE IF s < semaphore_handler_id THEN "dead" ELSE "unused"]
      /\ status' = [s \in Semaphore |-> IF semaphores'[s] # Absent THEN "live"
                           ELSE IF s < semaphore_handler_id' THEN "dead" ELSE "unused"]
    BY <1>1 DEF StatusOf
<1> HIDE DEF status
<1>3. ASSUME UNCHANGED <<semaphores, semaphore_handler_id>> PROVE status' = status
    BY <1>2, <1>3
<1>4. ASSUME CreateSemaphore, ~Crashes PROVE SemaphoreHandles!Next
    <2>0. new =< MaxSemaphore /\ semaphore_handler_id' = new + 1
        BY <1>4 DEF CreateSemaphore
    <2>1. new \in Semaphore /\ semaphore_handler_id' = new + 1
        BY <2>0, BoundsAssumption DEF SubmitInv, TypeOK, Semaphore
    <2>2. status[new] = "unused"
        BY <1>1, <1>2, <2>1
    <2>3. \A s \in Semaphore \ {new} : s < semaphore_handler_id' <=> s < new
        BY <1>1, <2>1
    <2>4. CASE semaphores' = semaphores
        <3>1. new < semaphore_handler_id' /\ semaphores'[new] = Absent
            BY <1>1, <2>1, <2>4
        <3>2. status' = [status EXCEPT ![new] = "dead"]
            BY <1>2, <2>3, <2>4, <3>1
        <3>3. SemaphoreHandles!Burn(new)
            BY <2>2, <3>2 DEF SemaphoreHandles!Burn, status
        <3> QED BY <2>1, <3>3 DEF SemaphoreHandles!Next
    <2>5. ASSUME NEW host \in HostSemaphore, semaphores' = [semaphores EXCEPT ![new] = host]
          PROVE  SemaphoreHandles!Next
        <3>1. semaphores'[new] # Absent /\ \A s \in Semaphore \ {new} : semaphores'[s] = semaphores[s]
            BY <1>1, <2>1, <2>5, HandleAssumption
        <3>2. status' = [status EXCEPT ![new] = "live"]
            BY <1>2, <2>3, <3>1
        <3>3. SemaphoreHandles!Create(new)
            BY <2>2, <3>2 DEF SemaphoreHandles!Create, status
        <3> QED BY <2>1, <3>3 DEF SemaphoreHandles!Next
    <2> QED BY <1>4, <2>4, <2>5 DEF CreateSemaphore, AfterRefusal
<1>5. ASSUME Crashes PROVE status' = status
    BY <1>3, <1>5 DEF Crashes, driverVars
<1>6. ASSUME NEW s \in Semaphore, DestroySemaphore(s) PROVE SemaphoreHandles!Next
    <2>1. /\ semaphores' = [semaphores EXCEPT ![s] = Absent] /\ UNCHANGED semaphore_handler_id
          /\ semaphores[s] # Absent
        BY <1>6 DEF DestroySemaphore, SubmitInv, SemaphorePart, SemaphoresHeld
    <2>2. s < semaphore_handler_id /\ status[s] = "live"
        BY <1>1, <1>2, <2>1
    <2>3. status' = [t \in Semaphore |-> IF t \in {s} THEN "dead" ELSE status[t]]
        BY <1>1, <1>2, <2>1, <2>2
    <2>4. SemaphoreHandles!Destroy({s}) /\ {s} \in SUBSET Semaphore
        BY <2>2, <2>3 DEF SemaphoreHandles!Destroy, status
    <2> QED BY <2>4 DEF SemaphoreHandles!Next
<1>7. ASSUME NEW f, NEW F, NEW all, NEW signaled, NEW wait, NEW signal, NEW c,
             \/ GetFenceStatus(f) \/ QueueBindSparse(f) \/ WaitForFences(F, all)
             \/ CreateFence(signaled) \/ DestroyFence(f) \/ ResetFences(F)
             \/ QueueSubmit(wait, signal, c, f) \/ QueueWaitIdle
             \/ InstanceMagicChanges \/ HostCompletes \/ UNCHANGED vars
      PROVE  status' = status
    <2>1. UNCHANGED <<semaphores, semaphore_handler_id>>
        BY <1>7 DEF GetFenceStatus, QueueBindSparse, WaitForFences, CreateFence, DestroyFence,
           ResetFences, QueueSubmit, QueueWaitIdle, InstanceMagicChanges, HostCompletes,
           Crashes, driverVars, vars
    <2> QED BY <1>3, <2>1
<1>8. CASE CreateSemaphore
    BY <1>4, <1>5, <1>8 DEF status
<1>9. CASE \E s \in Semaphore : DestroySemaphore(s)
    BY <1>6, <1>9
<1>10. CASE \/ \E f \in Fence : GetFenceStatus(f) \/ QueueBindSparse(f) \/ DestroyFence(f)
            \/ \E F \in SUBSET Fence, all \in BOOLEAN : WaitForFences(F, all)
            \/ \E F \in SUBSET Fence : ResetFences(F)
            \/ \E signaled \in BOOLEAN : CreateFence(signaled)
            \/ \E wait, signal \in SUBSET Semaphore, c \in CommandBuffers,
                  f \in Fence \cup {VK_NULL_HANDLE} : QueueSubmit(wait, signal, c, f)
            \/ QueueWaitIdle \/ InstanceMagicChanges \/ HostCompletes \/ UNCHANGED vars
    BY <1>7, <1>10 DEF status
<1> QED BY <1>8, <1>9, <1>10 DEF Next

\* Fences and semaphores implement HandleTable, also when the host refuses a
\* semaphore whose handle is counted already.
THEOREM SubmitImplementsHandleTable == Spec => HandlesNeverReused
<1>1. Init => FenceHandles!Init
    BY DEF Init, FenceHandles!Init, StatusOf, Fence
<1>2. Init => SemaphoreHandles!Init
    BY DEF Init, SemaphoreHandles!Init, StatusOf, Semaphore
<1> QED
    BY <1>1, <1>2, SubmitIsInvariant, FenceStatusStep, SemaphoreStatusStep, PTL
        DEF Spec, HandlesNeverReused, FenceHandles!Spec, SemaphoreHandles!Spec

=============================================================================
