----------------------------- MODULE Scheduler -----------------------------
(***************************************************************************)
(* The job scheduler of the inference cluster                              *)
(* (src/src/detect_objects/distributed/scheduler.py).                      *)
(*                                                                         *)
(* Every public method runs under one condition variable, so one method    *)
(* call is one action.  A waiting claim releases the lock between two      *)
(* looks at the queue; each look is a Claim step of its own, and a look    *)
(* that finds nothing is ClaimNothing.                                     *)
(*                                                                         *)
(* Absolute times are kept as what the code compares them with: lease[j]   *)
(* is the time left of the lease of j (lease_expires_at - now, at least 0) *)
(* and silent[w] is now - last_seen_at, counted to just past the TTL.      *)
(* So no clock value is unbounded, and no bound on time is needed.         *)
(*                                                                         *)
(* Job and worker identifiers are fresh UUIDs in the code.  A job          *)
(* identifier is used once; a worker identifier is issued only while no    *)
(* record mentions it, which no caller can tell from a fresh one.          *)
(***************************************************************************)
EXTENDS Naturals, FiniteSets, SequencesExt

CONSTANTS Job,            (* identifiers of the jobs that may be submitted  *)
          Worker,         (* identifiers the scheduler may issue to workers *)
          Capability,     (* model capabilities                             *)
          CapabilityOf,   (* the capability each job asks for               *)
          MaxAttempts,    (* max_attempts of each job                       *)
          Slots,          (* slots a worker advertises; 0: not advertised   *)
          LeaseSeconds,   (* lease_seconds, in ticks                        *)
          WorkerTTL,      (* worker_ttl_seconds, in ticks                   *)
          NoWorker        (* None                                           *)

ASSUME SchedulerAssumption ==
       /\ IsFiniteSet(Job)
       /\ CapabilityOf \in [Job -> Capability]
       /\ MaxAttempts \in [Job -> 1..20]
       /\ Slots \in [Worker -> [Capability -> 0..32]]
       /\ LeaseSeconds \in Nat \ {0}
       /\ WorkerTTL \in Nat \ {0}
       /\ NoWorker \notin Worker

VARIABLES status,     (* status of each job; "none" before its submission   *)
          attempts,   (* attempts of each job                               *)
          owner,      (* worker_id of each job                              *)
          lease,      (* time left of each job's lease; 0 without one       *)
          queue,      (* _queued_job_ids                                    *)
          live,       (* the keys of _workers                               *)
          silent,     (* time since each live worker was last seen          *)
          active      (* active_job_ids of each worker record               *)

jobVars    == <<status, attempts, owner, lease, queue>>
workerVars == <<live, silent, active>>
vars       == <<jobVars, workerVars>>

Status   == {"none", "queued", "leased", "succeeded", "failed"}
Terminal == {"succeeded", "failed"}

TypeOK ==
    /\ status \in [Job -> Status]
    /\ attempts \in [Job -> 0..20]
    /\ owner \in [Job -> Worker \cup {NoWorker}]
    /\ lease \in [Job -> 0..LeaseSeconds]
    /\ queue \in Seq(Job)
    /\ live \in SUBSET Worker
    /\ silent \in [Worker -> 0..(WorkerTTL + 1)]
    /\ active \in [Worker -> SUBSET Job]

Init ==
    /\ status = [j \in Job |-> "none"]
    /\ attempts = [j \in Job |-> 0]
    /\ owner = [j \in Job |-> NoWorker]
    /\ lease = [j \in Job |-> 0]
    /\ queue = <<>>
    /\ live = {}
    /\ silent = [w \in Worker |-> 0]
    /\ active = [w \in Worker |-> {}]

-----------------------------------------------------------------------------
(* _retry_or_fail_locked over a set S of jobs: each goes back to the queue  *)
(* while it has attempts left and fails otherwise, and loses worker and     *)
(* lease either way.                                                        *)

Retried(S) == {j \in S : attempts[j] < MaxAttempts[j]}

StatusAfterRetry(S) ==
    [j \in Job |-> IF j \in Retried(S) THEN "queued"
                   ELSE IF j \in S THEN "failed" ELSE status[j]]

OwnerAfterRetry(S) == [j \in Job |-> IF j \in S THEN NoWorker ELSE owner[j]]

LeaseAfterRetry(S) == [j \in Job |-> IF j \in S THEN 0 ELSE lease[j]]

(* The orders in which a loop over the set S appends what it requeues; a    *)
(* job already in the queue is not appended again.                          *)
Requeues(S) == SetToSeqs(Retried(S) \ ToSet(queue))

-----------------------------------------------------------------------------
(* _reap_expired_locked: workers not seen for longer than the TTL go, with  *)
(* the leased jobs of their active set; then the jobs still leased whose    *)
(* lease has run out leave the active set of their worker.                  *)

LeasedJobs == {j \in Job : status[j] = "leased"}

(* Variant: a worker goes as soon as it was silent for the TTL.             *)
LiveBeforeTTL == {w \in live : silent[w] < WorkerTTL}

(* Variant: nobody is ever too silent.                                      *)
LiveForGood == live

LiveAfterReap == {w \in live : silent[w] <= WorkerTTL}

Orphaned == LeasedJobs \cap UNION {active[w] : w \in live \ LiveAfterReap}

(* Variant: a job of a silent worker is requeued for its lease as well.     *)
ExpiredOrOrphaned == {j \in LeasedJobs : lease[j] = 0}

(* Variant: only leases that a worker record still counts are looked at.    *)
ExpiredInActiveSets ==
    {j \in LeasedJobs \ Orphaned : lease[j] = 0 /\ \E w \in LiveAfterReap : j \in active[w]}

Expired == {j \in LeasedJobs \ Orphaned : lease[j] = 0}

Reaped == Orphaned \cup Expired

(* Variant: an expired lease stays in the active set of its worker.         *)
ActiveKeepsExpired ==
    [w \in Worker |-> IF w \in live \ LiveAfterReap THEN {} ELSE active[w]]

ActiveAfterReap ==
    [w \in Worker |-> IF w \in live \ LiveAfterReap THEN {}
                      ELSE active[w] \ {j \in Expired : owner[j] = w}]

(* The queue after a reap: first what expired workers held, then what       *)
(* expired leases held.                                                     *)
QueuesAfterReap ==
    {queue \o a \o b : a \in Requeues(Orphaned), b \in Requeues(Expired)}

SilentAfterReap ==
    [w \in Worker |-> IF w \in LiveAfterReap THEN silent[w] ELSE 0]

-----------------------------------------------------------------------------
(* register_worker: a record under a fresh identifier; it does not reap.    *)
RegisterWorker(w) ==
    /\ w \notin live
    /\ \A j \in Job : owner[j] # w
    /\ live' = live \cup {w}
    /\ silent' = [silent EXCEPT ![w] = 0]
    /\ active' = [active EXCEPT ![w] = {}]
    /\ UNCHANGED jobVars

(* The reap that get_job and list_workers do, and the only change that a    *)
(* heartbeat or claim of an unknown worker makes before it raises           *)
(* UnknownWorkerError.                                                      *)
Reap ==
    /\ queue' \in QueuesAfterReap
    /\ status' = StatusAfterRetry(Reaped)
    /\ owner' = OwnerAfterRetry(Reaped)
    /\ lease' = LeaseAfterRetry(Reaped)
    /\ live' = LiveAfterReap
    /\ active' = ActiveAfterReap
    /\ silent' = SilentAfterReap
    /\ UNCHANGED attempts

(* The time left of a lease that a heartbeat renews.                        *)
RenewedLease(j) == LeaseSeconds

(* heartbeat: after the reap, the leases of the reported jobs that this     *)
(* worker still holds are renewed, and the active set keeps only what was   *)
(* reported.                                                                *)
Heartbeat(w, reported) ==
    /\ w \in LiveAfterReap
    /\ queue' \in QueuesAfterReap
    /\ status' = StatusAfterRetry(Reaped)
    /\ owner' = OwnerAfterRetry(Reaped)
    /\ lease' = [j \in Job |->
                    IF j \in reported /\ status'[j] = "leased" /\ owner'[j] = w
                    THEN RenewedLease(j) ELSE LeaseAfterRetry(Reaped)[j]]
    /\ live' = LiveAfterReap
    /\ active' = [ActiveAfterReap EXCEPT ![w] = @ \cap reported]
    /\ silent' = [SilentAfterReap EXCEPT ![w] = 0]
    /\ UNCHANGED attempts

(* unregister_worker: the record goes, and the leased jobs of its active    *)
(* set are retried.                                                         *)
Unregister(w) ==
    LET held == active[w] \cap LeasedJobs IN
    /\ w \in live
    /\ \E q \in Requeues(held) : queue' = queue \o q
    /\ status' = StatusAfterRetry(held)
    /\ owner' = OwnerAfterRetry(held)
    /\ lease' = LeaseAfterRetry(held)
    /\ live' = live \ {w}
    /\ active' = [active EXCEPT ![w] = {}]
    /\ silent' = [silent EXCEPT ![w] = 0]
    /\ UNCHANGED attempts

(* submit *)
Submit(j) ==
    /\ status[j] = "none"
    /\ status' = [status EXCEPT ![j] = "queued"]
    /\ queue' = Append(queue, j)
    /\ UNCHANGED <<attempts, owner, lease, workerVars>>

(* A slot of w is free for capability c, as claim counts slots.             *)
HasFreeSlot(w, c) ==
    Cardinality({j \in ActiveAfterReap[w] : CapabilityOf[j] = c}) < Slots[w][c]

(* Variant: any matching job will do.                                       *)
IsSomeMatch(q, st, i, c) == st[q[i]] = "queued" /\ CapabilityOf[q[i]] = c

(* _pop_queued_locked: the first position of q holding a queued job of c.   *)
IsOldestMatch(q, st, i, c) ==
    LET Matches(k) == st[q[k]] = "queued" /\ CapabilityOf[q[k]] = c
    IN  Matches(i) /\ \A k \in 1..(i - 1) : ~Matches(k)

(* claim, when a slot is free and the queue holds a job of the capability.  *)
ClaimJob(w, c) ==
    /\ w \in LiveAfterReap
    /\ HasFreeSlot(w, c)
    /\ \E q \in QueuesAfterReap : \E i \in DOMAIN q :
          /\ IsOldestMatch(q, StatusAfterRetry(Reaped), i, c)
          /\ queue' = RemoveAt(q, i)
          /\ status' = [StatusAfterRetry(Reaped) EXCEPT ![q[i]] = "leased"]
          /\ owner' = [OwnerAfterRetry(Reaped) EXCEPT ![q[i]] = w]
          /\ attempts' = [attempts EXCEPT ![q[i]] = @ + 1]
          /\ lease' = [LeaseAfterRetry(Reaped) EXCEPT ![q[i]] = LeaseSeconds]
          /\ active' = [ActiveAfterReap EXCEPT ![w] = @ \cup {q[i]}]
    /\ live' = LiveAfterReap
    /\ silent' = [SilentAfterReap EXCEPT ![w] = 0]

(* claim, when it goes back to waiting, returns None or raises ValueError   *)
(* for a capability the worker does not advertise: the worker was seen.     *)
ClaimNothing(w, c) ==
    /\ w \in LiveAfterReap
    /\ \E q \in QueuesAfterReap :
          /\ HasFreeSlot(w, c) =>
                ~ \E i \in DOMAIN q : IsOldestMatch(q, StatusAfterRetry(Reaped), i, c)
          /\ queue' = q
    /\ status' = StatusAfterRetry(Reaped)
    /\ owner' = OwnerAfterRetry(Reaped)
    /\ lease' = LeaseAfterRetry(Reaped)
    /\ live' = LiveAfterReap
    /\ active' = ActiveAfterReap
    /\ silent' = [SilentAfterReap EXCEPT ![w] = 0]
    /\ UNCHANGED attempts

Claim(w, c) == ClaimJob(w, c) \/ ClaimNothing(w, c)

(* Variant: complete does not ask who holds the job.                        *)
MayCompleteUnowned(w, j) == status[j] = "leased"

(* Variant: complete does not ask whether the job is still leased.          *)
MayCompleteAgain(w, j) == owner[j] = w

(* complete needs the job to be leased by the caller, who need not be       *)
(* registered any more; it does not reap, so a lease that ran out but was   *)
(* not reaped still counts.                                                 *)
MayComplete(w, j) == status[j] = "leased" /\ owner[j] = w

ActiveAfterComplete(w, j) ==
    IF w \in live THEN [active EXCEPT ![w] = @ \ {j}] ELSE active

(* complete, with success or with a failure that is not retryable.          *)
Finish(w, j, outcome) ==
    /\ MayComplete(w, j)
    /\ status' = [status EXCEPT ![j] = outcome]
    /\ lease' = [lease EXCEPT ![j] = 0]
    /\ active' = ActiveAfterComplete(w, j)
    /\ UNCHANGED <<attempts, owner, queue, live, silent>>

(* complete, with a retryable failure.                                      *)
GiveBack(w, j) ==
    /\ MayComplete(w, j)
    /\ \E q \in Requeues({j}) : queue' = queue \o q
    /\ status' = StatusAfterRetry({j})
    /\ owner' = OwnerAfterRetry({j})
    /\ lease' = LeaseAfterRetry({j})
    /\ active' = ActiveAfterComplete(w, j)
    /\ UNCHANGED <<attempts, live, silent>>

(* Time passes by one tick.                                                 *)
Tick ==
    /\ lease' = [j \in Job |-> IF lease[j] > 0 THEN lease[j] - 1 ELSE 0]
    /\ silent' = [w \in Worker |->
                     IF w \in live /\ silent[w] <= WorkerTTL
                     THEN silent[w] + 1 ELSE silent[w]]
    /\ UNCHANGED <<status, attempts, owner, queue, live, active>>

Next ==
    \/ \E w \in Worker : RegisterWorker(w) \/ Unregister(w)
    \/ \E w \in Worker, R \in SUBSET Job : Heartbeat(w, R)
    \/ \E j \in Job : Submit(j)
    \/ \E w \in Worker, c \in Capability : ClaimJob(w, c) \/ ClaimNothing(w, c)
    \/ \E w \in Worker, j \in Job, o \in Terminal : Finish(w, j, o)
    \/ \E w \in Worker, j \in Job : GiveBack(w, j)
    \/ Reap
    \/ Tick

Spec == Init /\ [][Next]_vars

-----------------------------------------------------------------------------
(* PROPERTIES *)

(* The queue holds every queued job exactly once and no other: a job is     *)
(* neither lost nor handed out twice, however registrations, heartbeats,    *)
(* reaps, claims and completions interleave (_queued_job_ids).              *)
QueueHoldsTheQueuedJobs ==
    IsInjective(queue) /\ ToSet(queue) = {j \in Job : status[j] = "queued"}

(* What a worker record counts against its slots is leased to that very     *)
(* worker, so retrying the active set of a worker that goes (unregistered   *)
(* or silent) never takes a job from another worker (active_job_ids).       *)
ActiveJobsAreLeasedToTheirWorker ==
    \A w \in Worker : \A j \in active[w] :
        w \in live /\ status[j] = "leased" /\ owner[j] = w

(* A job that waits or runs can still be brought to an end by the           *)
(* scheduler: it has attempts left and no worker while queued, and a worker *)
(* and one of its attempts to its name while leased.                        *)
UnfinishedJobsAreAccountedFor ==
    \A j \in Job :
        /\ status[j] = "none" => attempts[j] = 0 /\ owner[j] = NoWorker
        /\ status[j] = "queued" => attempts[j] < MaxAttempts[j] /\ owner[j] = NoWorker
        /\ status[j] = "leased" => /\ attempts[j] \in 1..MaxAttempts[j]
                                   /\ owner[j] \in Worker

(* A worker loses a job it holds only by completing it, by unregistering,   *)
(* by staying silent past the TTL or by letting the lease run out: no other *)
(* worker's call can take it away.                                          *)
LeaseLostOnlyForCause ==
    [][\A j \in LeasedJobs, w \in Worker :
          owner[j] = w /\ ~(status'[j] = "leased" /\ owner'[j] = w)
             => \/ lease[j] = 0
                \/ w \notin live \/ silent[w] > WorkerTTL
                \/ w \notin live'
                \/ GiveBack(w, j)
                \/ \E o \in Terminal : Finish(w, j, o)]_vars

(* Work goes out in the order it came in: no job is leased while a job of   *)
(* the same capability that stood before it in the queue stays there        *)
(* (claim: "Lease the oldest matching job", scheduler.py:211).              *)
OldestMatchingJobFirst ==
    [][\A i, k \in DOMAIN queue :
          (i < k /\ CapabilityOf[queue[i]] = CapabilityOf[queue[k]]
                 /\ status'[queue[k]] = "leased")
             => status'[queue[i]] # "queued"]_vars

(* The scheduler implements JobLifecycle: whatever happens to the other     *)
(* jobs and to the workers in the same step, no job gains a try beyond its  *)
(* max_attempts, changes hands without one, or leaves a final outcome.      *)
Lifecycle == INSTANCE JobLifecycle
                 WITH MaxTries <- MaxAttempts,
                      state <- status, tries <- attempts, holder <- owner

ImplementsLifecycle == Lifecycle!JobSpec
=============================================================================
