SPECIFICATION Spec
CONSTANTS
    InstanceHandle <- MCInstance
    DeviceHandle <- MCDevice
    Queue <- MCQueue
    MaxLiveInstances = 2
    MaxLiveDevices = 2
    None = None
    i1 = i1
    i2 = i2
    d1 = d1
    d2 = d2
    d3 = d3
    q1 = q1
    q2 = q2
SYMMETRY Interchangeable
INVARIANTS
    OnlyInvalidInstanceRefused
CHECK_DEADLOCK FALSE
