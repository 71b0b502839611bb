SPECIFICATION Spec
CONSTANTS
    DeviceHandle <- MCDevice
    HostBuffer <- MCHostBuffer
    MaxBuffer = 3
    MaxCommands = 1
    None = None
    d1 = d1
    d2 = d2
    h1 = h1
    h2 = h2
SYMMETRY Interchangeable
INVARIANTS
    RecordedAsNamed
    CommandsArrive
PROPERTIES
    HostBuffersOfDeviceCalled
    CommandsStayAsNamed
CHECK_DEADLOCK FALSE
