SPECIFICATION Spec
CONSTANTS
    MaxConfigs = 2
    MaxRequests = 2
INVARIANTS
    TypeOK
    LoadingIsReal
    RefreshIsArmed
    BilledOnce
PROPERTIES
    BannerIsReplaced
    RequestIsAnswered
