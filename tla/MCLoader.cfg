SPECIFICATION LoaderSpec
CONSTANTS
    InstanceHandle <- MCInstance
    DeviceHandle <- MCDevice
    Queue <- MCQueue
    MaxLiveInstances = 2
    MaxLiveDevices = 2
    None = None
    HostExtensions <- MCHostExtensions
    XcbSurface = XcbSurface
    LoaderVersions <- MCVersions
    Window <- MCWindow
    SurfaceBlock <- MCSurfaceBlock
    MaxSurfaces = 2
    i1 = i1
    i2 = i2
    d1 = d1
    d2 = d2
    d3 = d3
    q1 = q1
    q2 = q2
    w1 = w1
    w2 = w2
    b1 = b1
    b2 = b2
    ext = ext
SYMMETRY Interchangeable
INVARIANTS
    LoaderTypeOK
    MagicNeverDangles
    DevicesTracked
    OneInstanceKnown
    OnlyHostRefusalStops
    ArgumentCallsArrive
    MagicCallsArrive
    ReportedCanBeEnabled
    SurfacesStay
CHECK_DEADLOCK FALSE
