SPECIFICATION Spec
CONSTANTS
    MaxConfigs = 3
    SerialClient = FALSE
INVARIANTS
    TypeOK
    OneAnswerDue
    BilledOnce
PROPERTY
    LoadIsAnswered
