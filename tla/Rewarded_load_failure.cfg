SPECIFICATION Spec
CONSTANTS
    MaxConfigs = 2
    SerialClient = TRUE
INVARIANT
    LoadFailureEndsLoad
