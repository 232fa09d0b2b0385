SPECIFICATION Spec
CONSTANTS
    MaxConfigs = 2
    Views = {v1, v2}
PROPERTY
    LoadIsAnswered
