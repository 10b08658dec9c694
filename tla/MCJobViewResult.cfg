SPECIFICATION Spec
CONSTANTS
    MaxAttempts = 1
INVARIANTS
    SuccessSeenWithResult
