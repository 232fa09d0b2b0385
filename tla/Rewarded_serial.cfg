SPECIFICATION Spec
CONSTANTS
    MaxConfigs = 3
    SerialClient = TRUE
INVARIANTS
    ReadyMeansLoaded
    AvailableIsPresentable
PROPERTIES
    CallbacksTellReady
    OnScreenAdIsKept
