SPECIFICATION MemorySpec
CONSTANTS
    SizeModulus = 8
    AllocationSizes <- MCAllocationSizes
    Offsets <- MCOffsets
    RangeSizes <- MCRangeSizes
    Address <- MCAddress
    MaxMemory = 3
    Absent = Absent
    a1 = a1
    a2 = a2
INVARIANTS
    MemoryTypeOK
    BlocksOwned
    MappingInside
    MappedRangeFlushable
PROPERTIES
    FailedCallChangesNothing
    MemoryHandlesNeverReused
CHECK_DEADLOCK FALSE
