--------------------------- MODULE MCDeviceMemory ---------------------------
(* Instances of DeviceMemory for TLC: sizes modulo 8 stand for modulo 2^64, *)
(* and 6 from 3 on wraps around.                                            *)
EXTENDS DeviceMemory

CONSTANTS a1, a2

MCAddress == {a1, a2}
MCAllocationSizes == {1, 3}
MCOffsets == 0 .. 3
MCRangeSizes == {1, 2, 6, VK_WHOLE_SIZE}

=============================================================================
