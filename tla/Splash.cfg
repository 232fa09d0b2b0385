SPECIFICATION Spec
CONSTANTS
    MaxConfigs = 2
    MaxRequests = 2
INVARIANTS
    TypeOK
    OneAnswerDue
    ReadyMeansOnScreen
    BilledOnce
PROPERTIES
    OnScreenAdIsKept
    LoadIsAnswered
    LaunchImageGoes
