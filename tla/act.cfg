SPECIFICATION Spec
CONSTANTS
    Models = 2
    MaxAttempts = 2
    MaxRepairs = 1
    MaxRetries = 1
    MaxSteps = 2
    MaxCalls = 2
INVARIANTS
    RequestsBounded
    ResendsOnlyBroken
    CallsReported
    EndsInProse
PROPERTY ActReturns
CHECK_DEADLOCK FALSE
