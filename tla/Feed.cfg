SPECIFICATION Spec
CONSTANTS
    MaxConfigs = 2
    Views = {v1, v2}
INVARIANTS
    TypeOK
    OneAnswerDue
    AvailableIsFresh
    FreshViewsAreKept
    BilledOnce
PROPERTIES
    AnswersAreDue
    LoadTakenOnIsAnswered
