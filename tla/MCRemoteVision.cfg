SPECIFICATION VisionSpec

CONSTANTS
    MaxAttempts = 2
    w1 = w1
    w2 = w2
    Worker = {w1, w2}
    OnMps = {w1}
    Request = {r1, r2}
    Unsupported = unsupported
    Supported = supported
    Stock = stock
    Nothing = Nothing

SYMMETRY VisionSymmetry

INVARIANTS
    DetectionsFitTheRequest

PROPERTIES
    OutcomeSeenIsFinal
