SPECIFICATION ClusterSpec

CONSTANTS
    p1 = p1
    p2 = p2
    j1 = j1
    j2 = j2
    w1 = w1
    w2 = w2
    w3 = w3
    w4 = w4
    w5 = w5
    vision = vision
    voice = voice
    NoWorker = NoWorker
    Process = {p1}
    Capability = {vision}
    Job = {j1}
    Worker = {w1, w2, w3, w4, w5}
    Steady = {}
    FaultKinds = {"stop"}
    MaxFaults = 1
    Serves <- MCServes
    CapabilityOf <- MCCapabilityOf
    MaxAttempts <- MCMaxAttempts
    Slots <- MCSlots
    LeaseSeconds = 2
    WorkerTTL = 1

PROPERTIES
    UnregisterReturnsLeasedWork
