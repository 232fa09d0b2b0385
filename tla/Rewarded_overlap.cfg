SPECIFICATION Spec
CONSTANTS
    MaxConfigs = 2
    SerialClient = FALSE
INVARIANT
    LoadedIsShowable
