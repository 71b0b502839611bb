SPECIFICATION ViewsSpec
CONSTANTS
    SizeModulus = 8
    AllocationSizes <- MCSizes
    BufferSizes <- MCSizes
    Offsets <- MCOffsets
    RangeSizes = {}
    Address <- MCAddress
    ObjectAddress <- MCAddress
    MaxMemory = 0
    MaxBuffer = 2
    MaxImage = 0
    Absent = Absent
    HostView <- MCHostView
    ViewRanges <- MCViewRanges
    a1 = a1
    v1 = v1
    v2 = v2
SYMMETRY Interchangeable
INVARIANTS
    ViewsAccounted
    ViewsShowTheirBuffer
CHECK_DEADLOCK FALSE
