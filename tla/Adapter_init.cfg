SPECIFICATION Spec
CONSTANTS
    Calls = {c1, c2, c3}
    AppIds = {a1, a2}
    NoAppId = NoAppId
INVARIANTS
    TypeOK
    ReturnsRegistered
    OutcomeIsTold
PROPERTY
    CallsReturn
