-------------------------- MODULE MCBoundResources --------------------------
(* Instances of BoundResources for TLC.  What the memory calls do with ranges *)
(* is the matter of MCDeviceMemory: no range is mapped here.  A buffer of size *)
(* 6 bound at 2 wraps around modulo 8.  Two addresses for memory objects, so   *)
(* that the second object may be put where a freed one was or elsewhere.       *)
EXTENDS BoundResources, TLC

CONSTANTS a1, a2, o1, o2

MCAddress == {a1, a2}
MCObjectAddress == {o1, o2}
Interchangeable == Permutations(MCAddress) \cup Permutations(MCObjectAddress)
MCAllocationSizes == {2, 3}
MCBufferSizes == {3, 6}
MCOffsets == {0, 2}

=============================================================================
