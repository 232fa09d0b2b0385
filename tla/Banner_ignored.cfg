SPECIFICATION Spec
CONSTANTS
    MaxConfigs = 2
    MaxRequests = 2
PROPERTY
    LoadIsIgnoredOnlyWhileLoading
