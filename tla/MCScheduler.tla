---------------------------- MODULE MCScheduler ----------------------------
(* Two capabilities, of which the second is advertised by one worker only;  *)
(* two jobs that compete for the slots of one capability and one that does  *)
(* not; and a job that may be tried twice.                                  *)
EXTENDS Scheduler

CONSTANTS j1, j2, j3, w1, w2, vision, voice

MCCapabilityOf == [j \in Job |-> IF j = j3 THEN voice ELSE vision]

MCMaxAttempts == [j \in Job |-> IF j = j1 THEN 2 ELSE 1]

MCSlots == [w \in Worker |-> [c \in Capability |->
               IF c = voice /\ w # w1 THEN 0 ELSE 1]]
=============================================================================
