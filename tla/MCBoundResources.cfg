SPECIFICATION Spec
CONSTANTS
    SizeModulus = 8
    AllocationSizes <- MCAllocationSizes
    BufferSizes <- MCBufferSizes
    Offsets <- MCOffsets
    RangeSizes = {}
    Address <- MCAddress
    ObjectAddress <- MCObjectAddress
    MaxMemory = 2
    MaxBuffer = 2
    MaxImage = 1
    Absent = Absent
    a1 = a1
    a2 = a2
    o1 = o1
    o2 = o2
SYMMETRY Interchangeable
INVARIANTS
    TypeOK
    BoundBuffersInside
    BoundImagesInside
    HostBuffersOwned
PROPERTIES
    ResourceHandlesNeverReused
CHECK_DEADLOCK FALSE
