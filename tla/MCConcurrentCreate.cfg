SPECIFICATION Spec
CONSTANTS
    Thread <- MCThread
    Device <- MCDevice
    Block <- MCBlock
    MaxHandle = 3
    DevicesOf <- AllDevices
    Serialized <- OnlySecond
    Absent = Absent
    t1 = t1
    t2 = t2
    d1 = d1
    d2 = d2
    b1 = b1
    b2 = b2
    b3 = b3
SYMMETRY Interchangeable
INVARIANTS
    TypeOK
    HandleNamesItsBlock
    EntriesAccounted
    HeapAccounted
PROPERTIES
    GuardedHandlesNeverReused
CHECK_DEADLOCK FALSE
