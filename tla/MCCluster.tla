----------------------------- MODULE MCCluster -----------------------------
(* Every process serves every capability and every worker record advertises *)
(* one slot of each, as ClusterWorker does (worker.py:159); all jobs ask    *)
(* for the same capability and may be tried three times (scheduler.py:178). *)
EXTENDS Cluster

CONSTANTS p1, p2, j1, j2, w1, w2, w3, w4, w5, vision, voice

MCServes == [p \in Process |-> Capability]

MCCapabilityOf == [j \in Job |-> vision]

MCMaxAttempts == [j \in Job |-> 3]

MCSlots == [w \in Worker |-> [c \in Capability |-> 1]]
=============================================================================
