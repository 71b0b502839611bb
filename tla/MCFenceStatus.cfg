SPECIFICATION FairSpec
CONSTANTS
    MaxFence = 1
    MaxSemaphore = 1
    HostFence <- MCHostFence
    HostSemaphore <- MCHostSemaphore
    MaxQueued = 2
    Absent = Absent
    hf1 = hf1
    hf2 = hf2
    hs1 = hs1
    hs2 = hs2
PROPERTIES
    FenceStatusReported
CHECK_DEADLOCK FALSE
