SPECIFICATION Spec

CONSTANTS
    j1 = j1
    j2 = j2
    j3 = j3
    w1 = w1
    w2 = w2
    vision = vision
    voice = voice
    NoWorker = NoWorker
    Job = {j1, j2, j3}
    Worker = {w1, w2}
    Capability = {vision, voice}
    CapabilityOf <- MCCapabilityOf
    MaxAttempts <- MCMaxAttempts
    Slots <- MCSlots
    LeaseSeconds = 2
    WorkerTTL = 1

INVARIANTS
    QueueHoldsTheQueuedJobs
    ActiveJobsAreLeasedToTheirWorker

PROPERTIES
    LeaseLostOnlyForCause
    OldestMatchingJobFirst
    ImplementsLifecycle
