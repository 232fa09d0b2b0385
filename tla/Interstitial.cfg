SPECIFICATION Spec
CONSTANTS
    MaxConfigs = 3
    MaxRequests = 2
INVARIANTS
    TypeOK
    OneAnswerDue
    ReadyMeansLoaded
    BilledOnce
PROPERTIES
    OnScreenAdIsKept
    AnswersAreDue
    LoadIsAnswered
