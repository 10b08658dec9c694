---------------------------- MODULE JobLifecycle ----------------------------
(***************************************************************************)
(* What the cluster promises about every submitted job: at most MaxTries   *)
(* executions are started for it, only the worker that holds it may finish *)
(* it, and an outcome never changes once it is there.                      *)
(*                                                                         *)
(* One step of the scheduler may move several jobs (a reap takes back all  *)
(* that ran out), so a step of the abstract system is one lifecycle step   *)
(* of each job, or none of it.                                             *)
(***************************************************************************)
EXTENDS Naturals

CONSTANTS Job, Worker, NoWorker, MaxTries

VARIABLES state,   (* where each job is                                     *)
          tries,   (* how many executions were started for it               *)
          holder   (* the worker that holds it, or finished it              *)

jobStateVars == <<state, tries, holder>>

JobInit ==
    /\ state = [j \in Job |-> "none"]
    /\ tries = [j \in Job |-> 0]
    /\ holder = [j \in Job |-> NoWorker]

Stay(j) ==
    state'[j] = state[j] /\ tries'[j] = tries[j] /\ holder'[j] = holder[j]

Accept(j) ==
    /\ state[j] = "none" /\ state'[j] = "queued"
    /\ tries'[j] = tries[j] /\ holder'[j] = holder[j]

(* The job is handed out from the queue, or taken from a holder that lost   *)
(* it and handed out again at once.                                         *)
HandOut(j, w) ==
    /\ state[j] \in {"queued", "leased"}
    /\ tries[j] < MaxTries[j]
    /\ state'[j] = "leased" /\ tries'[j] = tries[j] + 1 /\ holder'[j] = w

(* The holder loses the job: another try if one is left.                    *)
TakeBack(j) ==
    /\ state[j] = "leased"
    /\ state'[j] = IF tries[j] < MaxTries[j] THEN "queued" ELSE "failed"
    /\ tries'[j] = tries[j] /\ holder'[j] = NoWorker

Conclude(j) ==
    /\ state[j] = "leased" /\ state'[j] \in {"succeeded", "failed"}
    /\ tries'[j] = tries[j] /\ holder'[j] = holder[j]

JobStep(j) ==
    \/ Stay(j) \/ Accept(j) \/ TakeBack(j) \/ Conclude(j)
    \/ \E w \in Worker : HandOut(j, w)

JobNext == \A j \in Job : JobStep(j)

JobSpec == JobInit /\ [][JobNext]_jobStateVars
=============================================================================
