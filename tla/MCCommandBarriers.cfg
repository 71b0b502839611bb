SPECIFICATION Spec
CONSTANTS
    DeviceHandle <- MCDevice
    HostBuffer <- MCHostBuffer
    MaxBuffer = 3
    MaxCommands = 1
    None = None
    d1 = d1
    d2 = d2
    h1 = h1
    h2 = h2
INVARIANTS
    ImplementedCallsPassHostHandles
CHECK_DEADLOCK FALSE
