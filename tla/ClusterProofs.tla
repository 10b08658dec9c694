--------------------------- MODULE ClusterProofs ---------------------------
(***************************************************************************)
(* Proofs about the scheduler and the cluster around it, in four parts.    *)
(*                                                                         *)
(* SCHEDULER: the invariants of Scheduler by itself, for any jobs, workers,*)
(* capabilities, slots, attempts, lease time and TTL.  Nothing of Cluster  *)
(* is used there.                                                          *)
(*                                                                         *)
(* CLUSTER: the cluster implements the scheduler: each of its steps but a  *)
(* restart of the coordinator is a step of Scheduler or leaves the         *)
(* scheduler's state alone.  So the invariants proved of Scheduler hold of *)
(* the cluster, for any number of processes, threads, requests under way   *)
(* and faults; a restart starts them anew.                                 *)
(*                                                                         *)
(* DEPARTURES: what a job costs, and who executes it, when processes stop  *)
(* and crash.                                                              *)
(*                                                                         *)
(* ANSWERS: whatever is lost, late or started again, no thread waits for   *)
(* an answer that cannot come or reads one that is not for it.             *)
(***************************************************************************)
EXTENDS Cluster, FiniteSetTheorems, SequenceTheorems, TLAPS

-----------------------------------------------------------------------------
(***************************************************************************)
(* SCHEDULER                                                               *)
(***************************************************************************)

(* The inductive invariant: the run's three state invariants together with *)
(* the types.  None is inductive alone: that a reap requeues no job twice  *)
(* needs the queue to hold only queued jobs, and that retrying an active   *)
(* set takes jobs from their holder only needs active jobs to be leased.   *)
IInv ==
    /\ TypeOK
    /\ QueueHoldsTheQueuedJobs
    /\ ActiveJobsAreLeasedToTheirWorker
    /\ UnfinishedJobsAreAccountedFor

-----------------------------------------------------------------------------
(* Sequences without repetition, which is what a queue of identifiers is:   *)
(* what SetToSeqs lists, and what concatenation and removal do to the       *)
(* elements.                                                                *)

(* Every sequence that SetToSeqs lists for a finite set holds each element  *)
(* of the set exactly once.                                                 *)
LEMMA OrderingOfSet ==
    ASSUME NEW T, NEW S \in SUBSET T, IsFiniteSet(S), NEW q \in SetToSeqs(S)
    PROVE  q \in Seq(T) /\ IsInjective(q) /\ ToSet(q) = S
<1> DEFINE n == Cardinality(S)
<1>1. n \in Nat /\ IsFiniteSet(1..n) /\ Cardinality(1..n) = n
  BY FS_CardinalityType, FS_Interval
<1>2. q \in Injection(1..n, S)
  BY DEF SetToSeqs, Injection, IsInjective
<1>3. q \in Surjection(1..n, S)
  BY <1>1, <1>2, FS_Injection
<1>4. q \in [1..n -> S]
  BY <1>2 DEF Injection
<1>5. q \in Seq(T)
  BY <1>1, <1>4
<1>6. ToSet(q) = S
  BY <1>3, <1>4 DEF Surjection, ToSet
<1>7. QED
  BY <1>2, <1>5, <1>6 DEF Injection

(* Appending to a sequence without repetition another with other elements   *)
(* gives a sequence without repetition that holds the elements of both.     *)
LEMMA DisjointConcat ==
    ASSUME NEW T, NEW s \in Seq(T), NEW t \in Seq(T),
           IsInjective(s), IsInjective(t), ToSet(s) \cap ToSet(t) = {}
    PROVE  /\ s \o t \in Seq(T)
           /\ IsInjective(s \o t)
           /\ ToSet(s \o t) = ToSet(s) \cup ToSet(t)
<1>1. /\ s \o t \in Seq(T)
      /\ Len(s \o t) = Len(s) + Len(t)
      /\ \A i \in 1..Len(s) + Len(t) :
            (s \o t)[i] = IF i <= Len(s) THEN s[i] ELSE t[i - Len(s)]
  BY ConcatProperties
<1>2. DOMAIN s = 1..Len(s) /\ DOMAIN t = 1..Len(t)
      /\ DOMAIN (s \o t) = 1..(Len(s) + Len(t))
  BY <1>1
<1>3. Len(s) \in Nat /\ Len(t) \in Nat
  OBVIOUS
<1>4. ASSUME NEW i \in DOMAIN (s \o t)
      PROVE  \/ i \in DOMAIN s /\ (s \o t)[i] = s[i]
             \/ i - Len(s) \in DOMAIN t /\ (s \o t)[i] = t[i - Len(s)]
  BY <1>1, <1>2, <1>3
<1>5. \A i \in DOMAIN s : \A k \in DOMAIN t : s[i] # t[k]
  BY DEF ToSet
<1>6. IsInjective(s \o t)
  <2> SUFFICES ASSUME NEW i \in DOMAIN (s \o t), NEW k \in DOMAIN (s \o t),
                      (s \o t)[i] = (s \o t)[k]
               PROVE  i = k
    BY DEF IsInjective
  <2>1. i \in Nat /\ k \in Nat
    BY <1>2, <1>3
  <2>2. QED
    <3>1. CASE i <= Len(s) /\ k <= Len(s)
      BY <1>1, <1>2, <2>1, <3>1 DEF IsInjective
    <3>2. CASE i > Len(s) /\ k > Len(s)
      <4>1. i - Len(s) \in DOMAIN t /\ k - Len(s) \in DOMAIN t
            /\ t[i - Len(s)] = t[k - Len(s)]
        BY <1>1, <1>2, <1>3, <2>1, <3>2
      <4>2. i - Len(s) = k - Len(s)
        BY <4>1 DEF IsInjective
      <4>3. QED
        BY <1>3, <2>1, <4>2
    <3>3. CASE i <= Len(s) /\ k > Len(s)
      BY <1>1, <1>2, <1>3, <1>5, <2>1, <3>3
    <3>4. CASE i > Len(s) /\ k <= Len(s)
      BY <1>1, <1>2, <1>3, <1>5, <2>1, <3>4
    <3>5. QED
      BY <1>3, <2>1, <3>1, <3>2, <3>3, <3>4
<1>7. ASSUME NEW x \in ToSet(s) PROVE x \in ToSet(s \o t)
  <2>1. PICK i \in DOMAIN s : s[i] = x
    BY <1>7 DEF ToSet
  <2>2. i \in DOMAIN (s \o t) /\ (s \o t)[i] = x
    BY <1>1, <1>2, <1>3, <2>1
  <2>3. QED
    BY <2>2 DEF ToSet
<1>8. ASSUME NEW x \in ToSet(t) PROVE x \in ToSet(s \o t)
  <2>1. PICK i \in DOMAIN t : t[i] = x
    BY <1>8 DEF ToSet
  <2>2. i + Len(s) \in DOMAIN (s \o t) /\ (s \o t)[i + Len(s)] = x
    BY <1>1, <1>2, <1>3, <2>1
  <2>3. QED
    BY <2>2 DEF ToSet
<1>9. ToSet(s \o t) \subseteq ToSet(s) \cup ToSet(t)
  BY <1>4 DEF ToSet
<1>10. QED
  BY <1>1, <1>6, <1>7, <1>8, <1>9

(* Removing one position of a sequence without repetition removes exactly   *)
(* that element.                                                            *)
LEMMA RemovedElement ==
    ASSUME NEW T, NEW s \in Seq(T), IsInjective(s), NEW i \in DOMAIN s
    PROVE  /\ RemoveAt(s, i) \in Seq(T)
           /\ IsInjective(RemoveAt(s, i))
           /\ ToSet(RemoveAt(s, i)) = ToSet(s) \ {s[i]}
<1> DEFINE front == SubSeq(s, 1, i - 1)
           back  == SubSeq(s, i + 1, Len(s))
<1>1. i \in 1..Len(s) /\ Len(s) \in Nat /\ DOMAIN s = 1..Len(s)
  OBVIOUS
<1>2. /\ front \in Seq(T) /\ Len(front) = i - 1
      /\ \A k \in 1..(i - 1) : front[k] = s[k]
  BY <1>1
<1>3. /\ back \in Seq(T) /\ Len(back) = Len(s) - i
      /\ \A k \in 1..(Len(s) - i) : back[k] = s[i + k]
  BY <1>1
<1>4. DOMAIN front = 1..(i - 1) /\ DOMAIN back = 1..(Len(s) - i)
  BY <1>2, <1>3
<1> HIDE DEF front, back
<1>5. IsInjective(front) /\ IsInjective(back)
  <2>1. \A k \in DOMAIN front : k \in DOMAIN s /\ front[k] = s[k]
    BY <1>1, <1>2, <1>4
  <2>2. \A k \in DOMAIN back : k \in Int /\ i + k \in DOMAIN s /\ back[k] = s[i + k]
    BY <1>1, <1>3, <1>4
  <2>3. ASSUME NEW k \in DOMAIN back, NEW m \in DOMAIN back, back[k] = back[m]
        PROVE  k = m
    <3>1. i + k = i + m
      BY <2>2, <2>3 DEF IsInjective
    <3>2. QED
      BY <1>1, <2>2, <3>1
  <2>4. QED
    BY <2>1, <2>3 DEF IsInjective
<1>6. ToSet(front) \cap ToSet(back) = {}
  <2> SUFFICES ASSUME NEW k \in DOMAIN front, NEW m \in DOMAIN back, front[k] = back[m]
               PROVE  FALSE
    BY DEF ToSet
  <2>1. s[k] = s[i + m] /\ k \in DOMAIN s /\ i + m \in DOMAIN s /\ k # i + m
    BY <1>1, <1>2, <1>3, <1>4
  <2>2. QED
    BY <2>1 DEF IsInjective
<1>7. /\ front \o back \in Seq(T) /\ IsInjective(front \o back)
      /\ ToSet(front \o back) = ToSet(front) \cup ToSet(back)
  BY <1>2, <1>3, <1>5, <1>6, DisjointConcat
<1>8. ASSUME NEW k \in DOMAIN s, k # i PROVE s[k] \in ToSet(front) \cup ToSet(back)
  <2>1. CASE k < i
    <3>1. k \in DOMAIN front /\ front[k] = s[k]
      BY <1>1, <1>2, <1>4, <2>1
    <3>2. QED
      BY <3>1 DEF ToSet
  <2>2. CASE k > i
    <3>1. k - i \in DOMAIN back /\ back[k - i] = s[k]
      BY <1>1, <1>3, <1>4, <2>2
    <3>2. QED
      BY <3>1 DEF ToSet
  <2>3. QED
    BY <1>1, <1>8, <2>1, <2>2
<1>9. ASSUME NEW x \in ToSet(front) \cup ToSet(back)
      PROVE  x \in ToSet(s) \ {s[i]}
  <2>1. CASE x \in ToSet(front)
    <3>1. PICK k \in DOMAIN front : front[k] = x
      BY <2>1 DEF ToSet
    <3>2. k \in DOMAIN s /\ k # i /\ s[k] = x
      BY <1>1, <1>2, <1>4, <3>1
    <3>3. QED
      BY <1>1, <3>2 DEF ToSet, IsInjective
  <2>2. CASE x \in ToSet(back)
    <3>1. PICK k \in DOMAIN back : back[k] = x
      BY <2>2 DEF ToSet
    <3>2. i + k \in DOMAIN s /\ i + k # i /\ s[i + k] = x
      BY <1>1, <1>3, <1>4, <3>1
    <3>3. QED
      BY <1>1, <3>2 DEF ToSet, IsInjective
  <2>3. QED
    BY <1>9, <2>1, <2>2
<1>10. ToSet(front) \cup ToSet(back) = ToSet(s) \ {s[i]}
  BY <1>8, <1>9 DEF ToSet
<1>11. RemoveAt(s, i) = front \o back
  BY DEF RemoveAt, front, back
<1>12. QED
  BY <1>7, <1>10, <1>11

-----------------------------------------------------------------------------
(* What the parts of an action do to a state that satisfies the invariant   *)

LEMMA InitIInv == Init => IInv
<1> SUFFICES ASSUME Init PROVE IInv
  OBVIOUS
<1>1. TypeOK
  BY SchedulerAssumption DEF Init, TypeOK, Status
<1>2. QueueHoldsTheQueuedJobs
  BY DEF Init, QueueHoldsTheQueuedJobs, IsInjective, ToSet
<1>3. ActiveJobsAreLeasedToTheirWorker /\ UnfinishedJobsAreAccountedFor
  BY DEF Init, ActiveJobsAreLeasedToTheirWorker, UnfinishedJobsAreAccountedFor
<1>4. QED
  BY <1>1, <1>2, <1>3 DEF IInv

(* _retry_or_fail_locked keeps the types of what it writes.                 *)
LEMMA RetryTypes ==
    ASSUME TypeOK, NEW S \in SUBSET Job
    PROVE  /\ StatusAfterRetry(S) \in [Job -> Status]
           /\ OwnerAfterRetry(S) \in [Job -> Worker \cup {NoWorker}]
           /\ LeaseAfterRetry(S) \in [Job -> 0..LeaseSeconds]
<1>1. StatusAfterRetry(S) \in [Job -> Status]
  BY DEF TypeOK, StatusAfterRetry, Status
<1>2. OwnerAfterRetry(S) \in [Job -> Worker \cup {NoWorker}]
  BY DEF TypeOK, OwnerAfterRetry
<1>3. LeaseAfterRetry(S) \in [Job -> 0..LeaseSeconds]
  BY SchedulerAssumption DEF TypeOK, LeaseAfterRetry
<1>4. QED
  BY <1>1, <1>2, <1>3

(* A loop that retries leased jobs requeues each of those with an attempt   *)
(* left, exactly once.                                                      *)
LEMMA RequeueOnce ==
    ASSUME IInv, NEW S \in SUBSET LeasedJobs, NEW q \in Requeues(S)
    PROVE  q \in Seq(Job) /\ IsInjective(q) /\ ToSet(q) = Retried(S)
<1>1. Retried(S) \cap ToSet(queue) = {}
  BY DEF IInv, QueueHoldsTheQueuedJobs, LeasedJobs, Retried
<1>2. Retried(S) \in SUBSET Job
  BY DEF LeasedJobs, Retried
<1>3. IsFiniteSet(Retried(S))
  BY <1>2, SchedulerAssumption, FS_Subset
<1>4. q \in SetToSeqs(Retried(S))
  <2>1. Retried(S) \ ToSet(queue) = Retried(S)
    BY <1>1
  <2>2. QED
    BY <2>1 DEF Requeues
<1>5. QED
  BY <1>2, <1>3, <1>4, OrderingOfSet

LEMMA RetryQueue ==
    ASSUME IInv, NEW S \in SUBSET LeasedJobs, NEW q \in Requeues(S)
    PROVE  /\ queue \o q \in Seq(Job)
           /\ IsInjective(queue \o q)
           /\ ToSet(queue \o q) = {j \in Job : StatusAfterRetry(S)[j] = "queued"}
<1>1. q \in Seq(Job) /\ IsInjective(q) /\ ToSet(q) = Retried(S)
  BY RequeueOnce
<1>2. /\ queue \in Seq(Job) /\ IsInjective(queue)
      /\ ToSet(queue) = {j \in Job : status[j] = "queued"}
  BY DEF IInv, TypeOK, QueueHoldsTheQueuedJobs
<1>3. ToSet(queue) \cap ToSet(q) = {}
  BY <1>1, <1>2 DEF Retried, LeasedJobs
<1>4. /\ queue \o q \in Seq(Job) /\ IsInjective(queue \o q)
      /\ ToSet(queue \o q) = ToSet(queue) \cup ToSet(q)
  BY <1>1, <1>2, <1>3, DisjointConcat
<1>5. ToSet(queue) \cup ToSet(q) = {j \in Job : StatusAfterRetry(S)[j] = "queued"}
  BY <1>1, <1>2 DEF StatusAfterRetry, Retried, LeasedJobs
<1>6. QED
  BY <1>4, <1>5

LEMMA ReapedAreLeased ==
    /\ Orphaned \in SUBSET LeasedJobs /\ Expired \in SUBSET LeasedJobs
    /\ Reaped \in SUBSET LeasedJobs /\ Reaped \in SUBSET Job
    /\ Orphaned \cap Expired = {}
  BY DEF Orphaned, Expired, Reaped, LeasedJobs

(* A reap requeues every job it takes back and that has an attempt left,    *)
(* exactly once, whatever the order of its two loops.                       *)
LEMMA ReapQueue ==
    ASSUME IInv, NEW q \in QueuesAfterReap
    PROVE  /\ q \in Seq(Job)
           /\ IsInjective(q)
           /\ ToSet(q) = {j \in Job : StatusAfterRetry(Reaped)[j] = "queued"}
<1>1. PICK a \in Requeues(Orphaned), b \in Requeues(Expired) : q = queue \o a \o b
  BY DEF QueuesAfterReap
<1>2. a \in Seq(Job) /\ IsInjective(a) /\ ToSet(a) = Retried(Orphaned)
  BY RequeueOnce, ReapedAreLeased
<1>3. b \in Seq(Job) /\ IsInjective(b) /\ ToSet(b) = Retried(Expired)
  BY RequeueOnce, ReapedAreLeased
<1>4. /\ queue \in Seq(Job) /\ IsInjective(queue)
      /\ ToSet(queue) = {j \in Job : status[j] = "queued"}
  BY DEF IInv, TypeOK, QueueHoldsTheQueuedJobs
<1>5. ToSet(queue) \cap ToSet(a) = {} /\ ToSet(queue) \cap ToSet(b) = {}
      /\ ToSet(a) \cap ToSet(b) = {}
  BY <1>2, <1>3, <1>4, ReapedAreLeased DEF Retried, LeasedJobs
<1> DEFINE s == queue \o a
<1>6. s \in Seq(Job) /\ IsInjective(s) /\ ToSet(s) = ToSet(queue) \cup ToSet(a)
  BY <1>2, <1>4, <1>5, DisjointConcat
<1>7. q = s \o b
  BY <1>1
<1> HIDE DEF s
<1>8. ToSet(s) \cap ToSet(b) = {}
  BY <1>5, <1>6
<1>9. q \in Seq(Job) /\ IsInjective(q) /\ ToSet(q) = ToSet(s) \cup ToSet(b)
  BY <1>3, <1>6, <1>7, <1>8, DisjointConcat
<1>10. ToSet(queue) \cup ToSet(a) \cup ToSet(b)
         = {j \in Job : StatusAfterRetry(Reaped)[j] = "queued"}
  BY <1>2, <1>3, <1>4, ReapedAreLeased DEF StatusAfterRetry, Retried, Reaped, LeasedJobs
<1>11. QED
  BY <1>6, <1>9, <1>10

LEMMA ReapTypes ==
    ASSUME TypeOK
    PROVE  /\ LiveAfterReap \in SUBSET Worker
           /\ ActiveAfterReap \in [Worker -> SUBSET Job]
           /\ SilentAfterReap \in [Worker -> 0..(WorkerTTL + 1)]
  BY SchedulerAssumption DEF TypeOK, LiveAfterReap, ActiveAfterReap, SilentAfterReap

(* A reap leaves in the active sets only jobs that are still leased to      *)
(* that very, still registered worker.                                      *)
LEMMA ReapActive ==
    ASSUME IInv, NEW w \in Worker, NEW j \in ActiveAfterReap[w]
    PROVE  /\ w \in LiveAfterReap /\ j \in Job /\ j \in active[w]
           /\ StatusAfterRetry(Reaped)[j] = "leased"
           /\ OwnerAfterRetry(Reaped)[j] = w
<1>1. w \notin live \ LiveAfterReap /\ j \in active[w]
      /\ j \notin {x \in Expired : owner[x] = w}
  BY DEF ActiveAfterReap
<1>2. w \in live /\ status[j] = "leased" /\ owner[j] = w /\ j \in Job
  BY <1>1 DEF IInv, TypeOK, ActiveJobsAreLeasedToTheirWorker
<1>3. j \notin Expired
  BY <1>1, <1>2
<1>4. j \notin Orphaned
  <2> SUFFICES ASSUME j \in Orphaned PROVE FALSE
    OBVIOUS
  <2>1. PICK v \in live \ LiveAfterReap : j \in active[v]
    BY DEF Orphaned
  <2>2. owner[j] = v
    BY <2>1 DEF IInv, TypeOK, ActiveJobsAreLeasedToTheirWorker
  <2>3. QED
    BY <1>1, <1>2, <2>1, <2>2
<1>5. QED
  BY <1>1, <1>2, <1>3, <1>4 DEF Reaped, StatusAfterRetry, OwnerAfterRetry, Retried

(* Retrying keeps every unfinished job accounted for.                       *)
LEMMA RetryAccounts ==
    ASSUME IInv, NEW S \in SUBSET LeasedJobs, NEW j \in Job
    PROVE  /\ StatusAfterRetry(S)[j] = "none"
                 => attempts[j] = 0 /\ OwnerAfterRetry(S)[j] = NoWorker
           /\ StatusAfterRetry(S)[j] = "queued"
                 => attempts[j] < MaxAttempts[j] /\ OwnerAfterRetry(S)[j] = NoWorker
           /\ StatusAfterRetry(S)[j] = "leased"
                 => attempts[j] \in 1..MaxAttempts[j] /\ OwnerAfterRetry(S)[j] \in Worker
  BY DEF IInv, UnfinishedJobsAreAccountedFor, StatusAfterRetry, OwnerAfterRetry, Retried,
         LeasedJobs

-----------------------------------------------------------------------------
(* Each action preserves the invariant *)

LEMMA RegisterKeeps ==
    ASSUME IInv, NEW w \in Worker, RegisterWorker(w)
    PROVE  IInv'
<1>1. TypeOK'
  BY SchedulerAssumption DEF IInv, TypeOK, RegisterWorker, jobVars
<1>2. QueueHoldsTheQueuedJobs'
  BY DEF IInv, QueueHoldsTheQueuedJobs, RegisterWorker, jobVars
<1>3. ActiveJobsAreLeasedToTheirWorker'
  BY DEF IInv, TypeOK, ActiveJobsAreLeasedToTheirWorker, RegisterWorker, jobVars
<1>4. UnfinishedJobsAreAccountedFor'
  BY DEF IInv, UnfinishedJobsAreAccountedFor, RegisterWorker, jobVars
<1>5. QED
  BY <1>1, <1>2, <1>3, <1>4 DEF IInv

LEMMA ReapKeeps ==
    ASSUME IInv, Reap
    PROVE  IInv'
<1>1. TypeOK'
  <2>1. queue' \in Seq(Job)
    BY ReapQueue DEF Reap
  <2>2. QED
    BY <2>1, RetryTypes, ReapTypes, ReapedAreLeased DEF IInv, TypeOK, Reap
<1>2. QueueHoldsTheQueuedJobs'
  BY ReapQueue DEF Reap, QueueHoldsTheQueuedJobs
<1>3. ActiveJobsAreLeasedToTheirWorker'
  BY ReapActive DEF Reap, ActiveJobsAreLeasedToTheirWorker
<1>4. UnfinishedJobsAreAccountedFor'
  BY RetryAccounts, ReapedAreLeased DEF Reap, UnfinishedJobsAreAccountedFor
<1>5. QED
  BY <1>1, <1>2, <1>3, <1>4 DEF IInv

LEMMA HeartbeatKeeps ==
    ASSUME IInv, NEW w \in Worker, NEW R \in SUBSET Job, Heartbeat(w, R)
    PROVE  IInv'
<1>1. TypeOK'
  <2>1. queue' \in Seq(Job)
    BY ReapQueue DEF Heartbeat
  <2>2. lease' \in [Job -> 0..LeaseSeconds]
    BY RetryTypes, ReapedAreLeased, SchedulerAssumption DEF IInv, Heartbeat, RenewedLease
  <2>3. active' \in [Worker -> SUBSET Job] /\ silent' \in [Worker -> 0..(WorkerTTL + 1)]
    BY ReapTypes, SchedulerAssumption DEF IInv, Heartbeat
  <2>4. QED
    BY <2>1, <2>2, <2>3, RetryTypes, ReapTypes, ReapedAreLeased
    DEF IInv, TypeOK, Heartbeat
<1>2. QueueHoldsTheQueuedJobs'
  BY ReapQueue DEF Heartbeat, QueueHoldsTheQueuedJobs
<1>3. ActiveJobsAreLeasedToTheirWorker'
  <2>1. \A v \in Worker : active'[v] \subseteq ActiveAfterReap[v]
    BY ReapTypes DEF IInv, Heartbeat
  <2>2. QED
    BY <2>1, ReapActive DEF Heartbeat, ActiveJobsAreLeasedToTheirWorker
<1>4. UnfinishedJobsAreAccountedFor'
  BY RetryAccounts, ReapedAreLeased DEF Heartbeat, UnfinishedJobsAreAccountedFor
<1>5. QED
  BY <1>1, <1>2, <1>3, <1>4 DEF IInv

LEMMA UnregisterKeeps ==
    ASSUME IInv, NEW w \in Worker, Unregister(w)
    PROVE  IInv'
<1> DEFINE held == active[w] \cap LeasedJobs
<1>1. held \in SUBSET LeasedJobs /\ held \in SUBSET Job
  BY DEF LeasedJobs
<1>2. /\ \E q \in Requeues(held) : queue' = queue \o q
      /\ status' = StatusAfterRetry(held) /\ owner' = OwnerAfterRetry(held)
      /\ lease' = LeaseAfterRetry(held) /\ live' = live \ {w} /\ attempts' = attempts
      /\ active' = [active EXCEPT ![w] = {}] /\ silent' = [silent EXCEPT ![w] = 0]
  BY DEF Unregister
<1>3. held = active[w]
  BY DEF IInv, TypeOK, ActiveJobsAreLeasedToTheirWorker, LeasedJobs
<1> HIDE DEF held
<1>4. /\ queue' \in Seq(Job) /\ IsInjective(queue')
      /\ ToSet(queue') = {j \in Job : status'[j] = "queued"}
  BY <1>1, <1>2, RetryQueue
<1>5. TypeOK'
  BY <1>1, <1>2, <1>4, RetryTypes, SchedulerAssumption DEF IInv, TypeOK
<1>6. ActiveJobsAreLeasedToTheirWorker'
  <2> SUFFICES ASSUME NEW v \in Worker, NEW j \in active'[v]
               PROVE  v \in live' /\ status'[j] = "leased" /\ owner'[j] = v
    BY DEF ActiveJobsAreLeasedToTheirWorker
  <2>1. v # w /\ j \in active[v]
    BY <1>2 DEF IInv, TypeOK
  <2>2. v \in live /\ status[j] = "leased" /\ owner[j] = v /\ j \in Job
    BY <2>1 DEF IInv, TypeOK, ActiveJobsAreLeasedToTheirWorker
  <2>3. j \notin held
    BY <1>3, <2>1, <2>2 DEF IInv, ActiveJobsAreLeasedToTheirWorker
  <2>4. QED
    BY <1>2, <2>1, <2>2, <2>3 DEF StatusAfterRetry, OwnerAfterRetry, Retried
<1>7. UnfinishedJobsAreAccountedFor'
  BY <1>1, <1>2, RetryAccounts DEF UnfinishedJobsAreAccountedFor
<1>8. QED
  BY <1>4, <1>5, <1>6, <1>7 DEF IInv, QueueHoldsTheQueuedJobs

LEMMA SubmitKeeps ==
    ASSUME IInv, NEW j \in Job, Submit(j)
    PROVE  IInv'
<1> USE DEF Submit, workerVars
<1>1. TypeOK'
  BY DEF IInv, TypeOK, Status
<1>2. QueueHoldsTheQueuedJobs'
  <2>1. queue \in Seq(Job) /\ IsInjective(queue)
        /\ ToSet(queue) = {x \in Job : status[x] = "queued"}
    BY DEF IInv, TypeOK, QueueHoldsTheQueuedJobs
  <2> DEFINE t == <<j>>
  <2>2. t \in Seq(Job) /\ IsInjective(t) /\ ToSet(t) = {j}
    BY DEF IsInjective, ToSet
  <2>3. queue' = queue \o t
    BY <2>1
  <2> HIDE DEF t
  <2>4. ToSet(queue) \cap ToSet(t) = {}
    BY <2>1, <2>2
  <2>5. IsInjective(queue') /\ ToSet(queue') = ToSet(queue) \cup {j}
    BY <2>1, <2>2, <2>3, <2>4, DisjointConcat
  <2>6. ToSet(queue) \cup {j} = {x \in Job : status'[x] = "queued"}
    BY <2>1 DEF IInv, TypeOK
  <2>7. QED
    BY <2>5, <2>6 DEF QueueHoldsTheQueuedJobs
<1>3. ActiveJobsAreLeasedToTheirWorker'
  BY DEF IInv, TypeOK, ActiveJobsAreLeasedToTheirWorker
<1>4. UnfinishedJobsAreAccountedFor'
  <2>1. attempts[j] = 0 /\ owner[j] = NoWorker
    BY DEF IInv, UnfinishedJobsAreAccountedFor
  <2>2. MaxAttempts[j] \in 1..20
    BY SchedulerAssumption
  <2>3. attempts[j] < MaxAttempts[j]
    BY <2>1, <2>2
  <2>4. QED
    BY <2>1, <2>3 DEF IInv, TypeOK, UnfinishedJobsAreAccountedFor
<1>5. QED
  BY <1>1, <1>2, <1>3, <1>4 DEF IInv

LEMMA ClaimJobKeeps ==
    ASSUME IInv, NEW w \in Worker, NEW c \in Capability, ClaimJob(w, c)
    PROVE  IInv'
<1>a. PICK q \in QueuesAfterReap : \E i \in DOMAIN q :
          /\ IsOldestMatch(q, StatusAfterRetry(Reaped), i, c)
          /\ queue' = RemoveAt(q, i)
          /\ status' = [StatusAfterRetry(Reaped) EXCEPT ![q[i]] = "leased"]
          /\ owner' = [OwnerAfterRetry(Reaped) EXCEPT ![q[i]] = w]
          /\ attempts' = [attempts EXCEPT ![q[i]] = @ + 1]
          /\ lease' = [LeaseAfterRetry(Reaped) EXCEPT ![q[i]] = LeaseSeconds]
          /\ active' = [ActiveAfterReap EXCEPT ![w] = @ \cup {q[i]}]
  BY DEF ClaimJob
<1>1. PICK i \in DOMAIN q :
          /\ queue' = RemoveAt(q, i)
          /\ status' = [StatusAfterRetry(Reaped) EXCEPT ![q[i]] = "leased"]
          /\ owner' = [OwnerAfterRetry(Reaped) EXCEPT ![q[i]] = w]
          /\ attempts' = [attempts EXCEPT ![q[i]] = @ + 1]
          /\ lease' = [LeaseAfterRetry(Reaped) EXCEPT ![q[i]] = LeaseSeconds]
          /\ active' = [ActiveAfterReap EXCEPT ![w] = @ \cup {q[i]}]
  BY <1>a, Zenon
<1>2. /\ w \in LiveAfterReap /\ live' = LiveAfterReap
      /\ silent' = [SilentAfterReap EXCEPT ![w] = 0]
  BY DEF ClaimJob
<1>3. /\ q \in Seq(Job) /\ IsInjective(q)
      /\ ToSet(q) = {j \in Job : StatusAfterRetry(Reaped)[j] = "queued"}
  BY ReapQueue
<1> DEFINE x == q[i]
<1>4. x \in Job /\ StatusAfterRetry(Reaped)[x] = "queued"
  BY <1>3 DEF ToSet
<1>5. /\ queue' \in Seq(Job) /\ IsInjective(queue')
      /\ ToSet(queue') = ToSet(q) \ {x}
  BY <1>1, <1>3, RemovedElement
<1> HIDE DEF x
<1>6. attempts[x] < MaxAttempts[x] /\ attempts[x] \in Nat /\ MaxAttempts[x] \in 1..20
  <2>1. MaxAttempts[x] \in 1..20 /\ attempts[x] \in 0..20
    BY <1>4, SchedulerAssumption DEF IInv, TypeOK
  <2>2. attempts[x] < MaxAttempts[x]
    BY <1>4, RetryAccounts, ReapedAreLeased
  <2>3. QED
    BY <2>1, <2>2
<1>7. /\ status' = [StatusAfterRetry(Reaped) EXCEPT ![x] = "leased"]
      /\ owner' = [OwnerAfterRetry(Reaped) EXCEPT ![x] = w]
      /\ attempts' = [attempts EXCEPT ![x] = @ + 1]
      /\ lease' = [LeaseAfterRetry(Reaped) EXCEPT ![x] = LeaseSeconds]
      /\ active' = [ActiveAfterReap EXCEPT ![w] = @ \cup {x}]
  BY <1>1 DEF x
<1>8. /\ StatusAfterRetry(Reaped) \in [Job -> Status]
      /\ OwnerAfterRetry(Reaped) \in [Job -> Worker \cup {NoWorker}]
      /\ LeaseAfterRetry(Reaped) \in [Job -> 0..LeaseSeconds]
      /\ LiveAfterReap \in SUBSET Worker
      /\ ActiveAfterReap \in [Worker -> SUBSET Job]
      /\ SilentAfterReap \in [Worker -> 0..(WorkerTTL + 1)]
  BY RetryTypes, ReapTypes, ReapedAreLeased DEF IInv
<1>9. TypeOK'
  <2>1. attempts' \in [Job -> 0..20]
    <3>1. attempts[x] + 1 \in 0..20
      BY <1>6
    <3>2. QED
      BY <1>7, <3>1 DEF IInv, TypeOK
  <2>2. status' \in [Job -> Status] /\ owner' \in [Job -> Worker \cup {NoWorker}]
    BY <1>7, <1>8 DEF Status
  <2>3. lease' \in [Job -> 0..LeaseSeconds] /\ silent' \in [Worker -> 0..(WorkerTTL + 1)]
    <3>1. LeaseSeconds \in 0..LeaseSeconds /\ 0 \in 0..(WorkerTTL + 1)
      BY SchedulerAssumption
    <3>2. QED
      BY <1>2, <1>7, <1>8, <3>1
  <2>4. active' \in [Worker -> SUBSET Job] /\ live' \in SUBSET Worker
    BY <1>2, <1>4, <1>7, <1>8
  <2>5. QED
    BY <1>5, <2>1, <2>2, <2>3, <2>4 DEF TypeOK
<1>10. QueueHoldsTheQueuedJobs'
  BY <1>3, <1>4, <1>5, <1>7, <1>8 DEF QueueHoldsTheQueuedJobs
<1>11. ActiveJobsAreLeasedToTheirWorker'
  <2> SUFFICES ASSUME NEW v \in Worker, NEW j \in active'[v]
               PROVE  v \in live' /\ status'[j] = "leased" /\ owner'[j] = v
    BY DEF ActiveJobsAreLeasedToTheirWorker
  <2>1. CASE v = w /\ j = x
    BY <1>2, <1>4, <1>7, <1>8, <2>1
  <2>2. CASE ~(v = w /\ j = x)
    <3>1. j \in ActiveAfterReap[v]
      BY <1>7, <1>8, <2>2
    <3>2. v \in LiveAfterReap /\ j \in Job /\ StatusAfterRetry(Reaped)[j] = "leased"
          /\ OwnerAfterRetry(Reaped)[j] = v
      BY <3>1, ReapActive
    <3>3. j # x
      BY <1>4, <3>2
    <3>4. QED
      BY <1>2, <1>7, <1>8, <3>2, <3>3
  <2>3. QED
    BY <2>1, <2>2
<1>12. UnfinishedJobsAreAccountedFor'
  <2> SUFFICES ASSUME NEW j \in Job
               PROVE  /\ status'[j] = "none" => attempts'[j] = 0 /\ owner'[j] = NoWorker
                      /\ status'[j] = "queued"
                            => attempts'[j] < MaxAttempts[j] /\ owner'[j] = NoWorker
                      /\ status'[j] = "leased"
                            => attempts'[j] \in 1..MaxAttempts[j] /\ owner'[j] \in Worker
    BY DEF UnfinishedJobsAreAccountedFor
  <2>1. CASE j = x
    <3>1. attempts'[x] = attempts[x] + 1 /\ owner'[x] = w /\ status'[x] = "leased"
      BY <1>4, <1>7, <1>8 DEF IInv, TypeOK
    <3>2. QED
      BY <1>6, <2>1, <3>1
  <2>2. CASE j # x
    <3>1. /\ status'[j] = StatusAfterRetry(Reaped)[j] /\ owner'[j] = OwnerAfterRetry(Reaped)[j]
          /\ attempts'[j] = attempts[j]
      BY <1>7, <1>8, <2>2 DEF IInv, TypeOK
    <3>2. QED
      BY <3>1, RetryAccounts, ReapedAreLeased
  <2>3. QED
    BY <2>1, <2>2
<1>13. QED
  BY <1>9, <1>10, <1>11, <1>12 DEF IInv

LEMMA ClaimNothingKeeps ==
    ASSUME IInv, NEW w \in Worker, NEW c \in Capability, ClaimNothing(w, c)
    PROVE  IInv'
<1>1. PICK q \in QueuesAfterReap : queue' = q
  BY DEF ClaimNothing
<1>2. /\ status' = StatusAfterRetry(Reaped) /\ owner' = OwnerAfterRetry(Reaped)
      /\ lease' = LeaseAfterRetry(Reaped) /\ live' = LiveAfterReap
      /\ active' = ActiveAfterReap /\ attempts' = attempts
      /\ silent' = [SilentAfterReap EXCEPT ![w] = 0]
  BY DEF ClaimNothing
<1>3. TypeOK'
  <2>1. silent' \in [Worker -> 0..(WorkerTTL + 1)]
    BY <1>2, ReapTypes, SchedulerAssumption DEF IInv
  <2>2. queue' \in Seq(Job)
    BY <1>1, ReapQueue
  <2>3. QED
    BY <1>2, <2>1, <2>2, RetryTypes, ReapTypes, ReapedAreLeased DEF IInv, TypeOK
<1>4. QueueHoldsTheQueuedJobs'
  BY <1>1, <1>2, ReapQueue DEF QueueHoldsTheQueuedJobs
<1>5. ActiveJobsAreLeasedToTheirWorker'
  BY <1>2, ReapActive DEF ActiveJobsAreLeasedToTheirWorker
<1>6. UnfinishedJobsAreAccountedFor'
  BY <1>2, RetryAccounts, ReapedAreLeased DEF UnfinishedJobsAreAccountedFor
<1>7. QED
  BY <1>3, <1>4, <1>5, <1>6 DEF IInv

LEMMA FinishKeeps ==
    ASSUME IInv, NEW w \in Worker, NEW j \in Job, NEW o \in Terminal, Finish(w, j, o)
    PROVE  IInv'
<1>1. /\ status[j] = "leased" /\ owner[j] = w
      /\ status' = [status EXCEPT ![j] = o] /\ lease' = [lease EXCEPT ![j] = 0]
      /\ active' = IF w \in live THEN [active EXCEPT ![w] = @ \ {j}] ELSE active
      /\ attempts' = attempts /\ owner' = owner /\ queue' = queue
      /\ live' = live /\ silent' = silent
  BY DEF Finish, MayComplete, ActiveAfterComplete
<1>2. o \in {"succeeded", "failed"}
  BY DEF Terminal
<1>3. TypeOK'
  BY <1>1, <1>2, SchedulerAssumption DEF IInv, TypeOK, Status
<1>4. QueueHoldsTheQueuedJobs'
  BY <1>1, <1>2 DEF IInv, TypeOK, QueueHoldsTheQueuedJobs
<1>5. ActiveJobsAreLeasedToTheirWorker'
  BY <1>1, <1>2 DEF IInv, TypeOK, ActiveJobsAreLeasedToTheirWorker
<1>6. UnfinishedJobsAreAccountedFor'
  BY <1>1, <1>2 DEF IInv, TypeOK, UnfinishedJobsAreAccountedFor
<1>7. QED
  BY <1>3, <1>4, <1>5, <1>6 DEF IInv

LEMMA GiveBackKeeps ==
    ASSUME IInv, NEW w \in Worker, NEW j \in Job, GiveBack(w, j)
    PROVE  IInv'
<1>1. /\ status[j] = "leased" /\ owner[j] = w
      /\ \E q \in Requeues({j}) : queue' = queue \o q
      /\ status' = StatusAfterRetry({j}) /\ owner' = OwnerAfterRetry({j})
      /\ lease' = LeaseAfterRetry({j})
      /\ active' = IF w \in live THEN [active EXCEPT ![w] = @ \ {j}] ELSE active
      /\ attempts' = attempts /\ live' = live /\ silent' = silent
  BY DEF GiveBack, MayComplete, ActiveAfterComplete
<1>2. {j} \in SUBSET LeasedJobs /\ {j} \in SUBSET Job
  BY <1>1 DEF LeasedJobs
<1>3. /\ queue' \in Seq(Job) /\ IsInjective(queue')
      /\ ToSet(queue') = {x \in Job : status'[x] = "queued"}
  BY <1>1, <1>2, RetryQueue
<1>4. TypeOK'
  BY <1>1, <1>2, <1>3, RetryTypes DEF IInv, TypeOK
<1>5. ActiveJobsAreLeasedToTheirWorker'
  <2> SUFFICES ASSUME NEW v \in Worker, NEW x \in active'[v]
               PROVE  v \in live' /\ status'[x] = "leased" /\ owner'[x] = v
    BY DEF ActiveJobsAreLeasedToTheirWorker
  <2>1. x \in active[v]
    BY <1>1 DEF IInv, TypeOK
  <2>2. v \in live /\ status[x] = "leased" /\ owner[x] = v /\ x \in Job
    BY <2>1 DEF IInv, TypeOK, ActiveJobsAreLeasedToTheirWorker
  <2>3. x # j
    BY <1>1, <2>2 DEF IInv, TypeOK
  <2>4. QED
    BY <1>1, <2>2, <2>3 DEF StatusAfterRetry, OwnerAfterRetry, Retried
<1>6. UnfinishedJobsAreAccountedFor'
  BY <1>1, <1>2, RetryAccounts DEF UnfinishedJobsAreAccountedFor
<1>7. QED
  BY <1>3, <1>4, <1>5, <1>6 DEF IInv, QueueHoldsTheQueuedJobs

LEMMA TickKeeps ==
    ASSUME IInv, Tick
    PROVE  IInv'
<1>1. \A n \in 0..LeaseSeconds : n > 0 => n - 1 \in 0..LeaseSeconds
  BY SchedulerAssumption
<1>2. \A n \in 0..(WorkerTTL + 1) : n <= WorkerTTL => n + 1 \in 0..(WorkerTTL + 1)
  BY SchedulerAssumption
<1>3. lease' \in [Job -> 0..LeaseSeconds]
  BY <1>1, SchedulerAssumption DEF IInv, TypeOK, Tick
<1>4. silent' \in [Worker -> 0..(WorkerTTL + 1)]
  BY <1>2 DEF IInv, TypeOK, Tick
<1>5. QED
  BY <1>3, <1>4 DEF IInv, TypeOK, Tick, QueueHoldsTheQueuedJobs,
     ActiveJobsAreLeasedToTheirWorker, UnfinishedJobsAreAccountedFor

LEMMA NextKeeps == IInv /\ [Next]_vars => IInv'
<1> SUFFICES ASSUME IInv, [Next]_vars PROVE IInv'
  OBVIOUS
<1>1. ASSUME NEW w \in Worker, RegisterWorker(w) PROVE IInv'
  BY <1>1, RegisterKeeps
<1>2. ASSUME NEW w \in Worker, Unregister(w) PROVE IInv'
  BY <1>2, UnregisterKeeps
<1>3. ASSUME NEW w \in Worker, NEW R \in SUBSET Job, Heartbeat(w, R) PROVE IInv'
  BY <1>3, HeartbeatKeeps
<1>4. ASSUME NEW j \in Job, Submit(j) PROVE IInv'
  BY <1>4, SubmitKeeps
<1>5. ASSUME NEW w \in Worker, NEW c \in Capability, ClaimJob(w, c) PROVE IInv'
  BY <1>5, ClaimJobKeeps
<1>6. ASSUME NEW w \in Worker, NEW c \in Capability, ClaimNothing(w, c) PROVE IInv'
  BY <1>6, ClaimNothingKeeps
<1>7. ASSUME NEW w \in Worker, NEW j \in Job, NEW o \in Terminal, Finish(w, j, o)
      PROVE  IInv'
  BY <1>7, FinishKeeps
<1>8. ASSUME NEW w \in Worker, NEW j \in Job, GiveBack(w, j) PROVE IInv'
  BY <1>8, GiveBackKeeps
<1>9. CASE Reap
  BY <1>9, ReapKeeps
<1>10. CASE Tick
  BY <1>10, TickKeeps
<1>11. CASE UNCHANGED vars
  BY <1>11 DEF vars, jobVars, workerVars, IInv, TypeOK, QueueHoldsTheQueuedJobs,
     ActiveJobsAreLeasedToTheirWorker, UnfinishedJobsAreAccountedFor
<1>12. QED
  BY <1>1, <1>2, <1>3, <1>4, <1>5, <1>6, <1>7, <1>8, <1>9, <1>10, <1>11 DEF Next

-----------------------------------------------------------------------------
(* Theorems *)

(* The inductive invariant holds in every state of every instance of the    *)
(* scheduler.                                                               *)
THEOREM SchedulerIInv == Spec => []IInv
  BY InitIInv, NextKeeps, PTL DEF Spec

(* Every variable keeps its type: leases and silences stay within their     *)
(* limits, attempts within 20 (scheduler.py).                               *)
THEOREM SchedulerTypeOK == Spec => []TypeOK
<1>1. IInv => TypeOK
  BY DEF IInv
<1>2. QED
  BY <1>1, SchedulerIInv, PTL

(* No queued job is lost and none is queued twice (_queued_job_ids).        *)
THEOREM NoJobLostOrDuplicated == Spec => []QueueHoldsTheQueuedJobs
<1>1. IInv => QueueHoldsTheQueuedJobs
  BY DEF IInv
<1>2. QED
  BY <1>1, SchedulerIInv, PTL

(* The active sets of the worker records never claim another worker's job   *)
(* (active_job_ids).                                                        *)
THEOREM ActiveJobsAreHeld == Spec => []ActiveJobsAreLeasedToTheirWorker
<1>1. IInv => ActiveJobsAreLeasedToTheirWorker
  BY DEF IInv
<1>2. QED
  BY <1>1, SchedulerIInv, PTL

(* Unfinished jobs can still be brought to an end (attempts, worker_id).    *)
THEOREM UnfinishedJobsAccounted == Spec => []UnfinishedJobsAreAccountedFor
<1>1. IInv => UnfinishedJobsAreAccountedFor
  BY DEF IInv
<1>2. QED
  BY <1>1, SchedulerIInv, PTL

-----------------------------------------------------------------------------
(* The scheduler implements JobLifecycle *)

(* Retrying leased jobs is a TakeBack of each and leaves the others alone.  *)
LEMMA RetryIsTakeBack ==
    ASSUME IInv, NEW S \in SUBSET LeasedJobs, NEW j \in Job,
           status'[j] = StatusAfterRetry(S)[j], owner'[j] = OwnerAfterRetry(S)[j],
           attempts'[j] = attempts[j]
    PROVE  Lifecycle!JobStep(j)
<1>1. CASE j \in S
  <2>1. Lifecycle!TakeBack(j)
    BY <1>1 DEF Lifecycle!TakeBack, StatusAfterRetry, OwnerAfterRetry, Retried, LeasedJobs
  <2>2. QED
    BY <2>1 DEF Lifecycle!JobStep
<1>2. CASE j \notin S
  <2>1. Lifecycle!Stay(j)
    BY <1>2 DEF Lifecycle!Stay, StatusAfterRetry, OwnerAfterRetry, Retried
  <2>2. QED
    BY <2>1 DEF Lifecycle!JobStep
<1>3. QED
  BY <1>1, <1>2

(* A claim hands out the job it leases, also when the same call has just    *)
(* taken it back from its former holder.                                    *)
LEMMA ClaimIsHandOut ==
    ASSUME IInv, NEW w \in Worker, NEW c \in Capability, ClaimJob(w, c), NEW j \in Job
    PROVE  Lifecycle!JobStep(j)
<1>1. PICK q \in QueuesAfterReap : \E i \in DOMAIN q :
          /\ IsOldestMatch(q, StatusAfterRetry(Reaped), i, c)
          /\ status' = [StatusAfterRetry(Reaped) EXCEPT ![q[i]] = "leased"]
          /\ owner' = [OwnerAfterRetry(Reaped) EXCEPT ![q[i]] = w]
          /\ attempts' = [attempts EXCEPT ![q[i]] = @ + 1]
  BY DEF ClaimJob
<1>2. PICK i \in DOMAIN q :
          /\ status' = [StatusAfterRetry(Reaped) EXCEPT ![q[i]] = "leased"]
          /\ owner' = [OwnerAfterRetry(Reaped) EXCEPT ![q[i]] = w]
          /\ attempts' = [attempts EXCEPT ![q[i]] = @ + 1]
  BY <1>1, Zenon
<1> DEFINE x == q[i]
<1>3. x \in Job /\ StatusAfterRetry(Reaped)[x] = "queued"
  BY ReapQueue DEF ToSet
<1>4. /\ status' = [StatusAfterRetry(Reaped) EXCEPT ![x] = "leased"]
      /\ owner' = [OwnerAfterRetry(Reaped) EXCEPT ![x] = w]
      /\ attempts' = [attempts EXCEPT ![x] = @ + 1]
  BY <1>2
<1> HIDE DEF x
<1>5. /\ StatusAfterRetry(Reaped) \in [Job -> Status]
      /\ OwnerAfterRetry(Reaped) \in [Job -> Worker \cup {NoWorker}]
      /\ attempts \in [Job -> 0..20]
  BY RetryTypes, ReapedAreLeased DEF IInv, TypeOK
<1>6. CASE j = x
  <2>1. status[j] \in {"queued", "leased"}
    BY <1>3, <1>6 DEF StatusAfterRetry, Reaped, Orphaned, Expired, LeasedJobs, Retried
  <2>2. attempts[j] < MaxAttempts[j]
    BY <1>3, <1>6, RetryAccounts, ReapedAreLeased
  <2>3. status'[j] = "leased" /\ attempts'[j] = attempts[j] + 1 /\ owner'[j] = w
    BY <1>3, <1>4, <1>5, <1>6
  <2>4. Lifecycle!HandOut(j, w)
    BY <2>1, <2>2, <2>3 DEF Lifecycle!HandOut
  <2>5. QED
    BY <2>4 DEF Lifecycle!JobStep
<1>7. CASE j # x
  <2>1. status'[j] = StatusAfterRetry(Reaped)[j] /\ owner'[j] = OwnerAfterRetry(Reaped)[j]
        /\ attempts'[j] = attempts[j]
    BY <1>4, <1>5, <1>7
  <2>2. QED
    BY <2>1, RetryIsTakeBack, ReapedAreLeased
<1>8. QED
  BY <1>6, <1>7

LEMMA StepIsLifecycleStep ==
    ASSUME IInv, [Next]_vars, NEW j \in Job
    PROVE  Lifecycle!JobStep(j)
<1> SUFFICES ASSUME ~Lifecycle!Stay(j) PROVE Lifecycle!JobStep(j)
  BY DEF Lifecycle!JobStep
<1>1. ASSUME NEW w \in Worker, RegisterWorker(w) PROVE FALSE
  BY <1>1 DEF RegisterWorker, jobVars, Lifecycle!Stay
<1>2. ASSUME NEW w \in Worker, Unregister(w) PROVE Lifecycle!JobStep(j)
  <2>1. active[w] \cap LeasedJobs \in SUBSET LeasedJobs
    OBVIOUS
  <2>2. QED
    BY <1>2, <2>1, RetryIsTakeBack DEF Unregister
<1>3. ASSUME NEW w \in Worker, NEW R \in SUBSET Job, Heartbeat(w, R)
      PROVE  Lifecycle!JobStep(j)
  BY <1>3, RetryIsTakeBack, ReapedAreLeased DEF Heartbeat
<1>4. ASSUME NEW x \in Job, Submit(x) PROVE Lifecycle!JobStep(j)
  <2>1. x = j
    BY <1>4 DEF Submit, workerVars, Lifecycle!Stay, IInv, TypeOK
  <2>2. Lifecycle!Accept(j)
    BY <1>4, <2>1 DEF Submit, Lifecycle!Accept, IInv, TypeOK
  <2>3. QED
    BY <2>2 DEF Lifecycle!JobStep
<1>5. ASSUME NEW w \in Worker, NEW c \in Capability, ClaimJob(w, c)
      PROVE  Lifecycle!JobStep(j)
  BY <1>5, ClaimIsHandOut
<1>6. ASSUME NEW w \in Worker, NEW c \in Capability, ClaimNothing(w, c)
      PROVE  Lifecycle!JobStep(j)
  BY <1>6, RetryIsTakeBack, ReapedAreLeased DEF ClaimNothing
<1>7. ASSUME NEW w \in Worker, NEW x \in Job, NEW o \in Terminal, Finish(w, x, o)
      PROVE  Lifecycle!JobStep(j)
  <2>1. x = j
    BY <1>7 DEF Finish, Lifecycle!Stay, IInv, TypeOK
  <2>2. Lifecycle!Conclude(j)
    BY <1>7, <2>1 DEF Finish, MayComplete, Terminal, Lifecycle!Conclude, IInv, TypeOK
  <2>3. QED
    BY <2>2 DEF Lifecycle!JobStep
<1>8. ASSUME NEW w \in Worker, NEW x \in Job, GiveBack(w, x) PROVE Lifecycle!JobStep(j)
  <2>1. {x} \in SUBSET LeasedJobs
    BY <1>8 DEF GiveBack, MayComplete, LeasedJobs
  <2>2. QED
    BY <1>8, <2>1, RetryIsTakeBack DEF GiveBack
<1>9. CASE Reap
  BY <1>9, RetryIsTakeBack, ReapedAreLeased DEF Reap
<1>10. CASE Tick
  BY <1>10 DEF Tick, Lifecycle!Stay
<1>11. CASE UNCHANGED vars
  BY <1>11 DEF vars, jobVars, Lifecycle!Stay
<1>12. QED
  BY <1>1, <1>2, <1>3, <1>4, <1>5, <1>6, <1>7, <1>8, <1>9, <1>10, <1>11 DEF Next

(* The scheduler implements JobLifecycle: no execution beyond max_attempts, *)
(* no outcome but from the holder, no change once there is an outcome.      *)
THEOREM SchedulerImplementsLifecycle == Spec => ImplementsLifecycle
<1>1. Init => Lifecycle!JobInit
  BY DEF Init, Lifecycle!JobInit
<1>2. IInv /\ [Next]_vars => [Lifecycle!JobNext]_(Lifecycle!jobStateVars)
  BY StepIsLifecycleStep DEF Lifecycle!JobNext
<1>3. QED
  BY <1>1, <1>2, SchedulerIInv, PTL DEF Spec, ImplementsLifecycle, Lifecycle!JobSpec

-----------------------------------------------------------------------------
(* What a step may never do                                                 *)

(* A job that a reap takes back had an expired lease or a silent worker.    *)
LEMMA ReapHasCause ==
    ASSUME IInv, NEW j \in Reaped
    PROVE  lease[j] = 0 \/ silent[owner[j]] > WorkerTTL
<1>1. CASE j \in Expired
  BY <1>1 DEF Expired
<1>2. CASE j \in Orphaned
  <2>1. PICK v \in live \ LiveAfterReap : j \in active[v]
    BY <1>2 DEF Orphaned
  <2>2. v \in Worker /\ owner[j] = v
    BY <2>1 DEF IInv, TypeOK, ActiveJobsAreLeasedToTheirWorker
  <2>3. silent[v] \in Nat /\ WorkerTTL \in Nat /\ ~(silent[v] <= WorkerTTL)
    BY <2>1, <2>2, SchedulerAssumption DEF LiveAfterReap, IInv, TypeOK
  <2>4. QED
    BY <2>2, <2>3
<1>3. QED
  BY <1>1, <1>2 DEF Reaped

(* Retrying some leased jobs leaves the others with their workers.          *)
LEMMA OthersKeepTheirLease ==
    ASSUME IInv, NEW S \in SUBSET LeasedJobs, NEW j \in LeasedJobs \ S
    PROVE  StatusAfterRetry(S)[j] = "leased" /\ OwnerAfterRetry(S)[j] = owner[j]
BY DEF StatusAfterRetry, OwnerAfterRetry, Retried, LeasedJobs

(* A worker loses a job it holds only for one of the five reasons.          *)
LEMMA LossHasCause ==
    ASSUME IInv, [Next]_vars, NEW j \in LeasedJobs, NEW w \in Worker,
           owner[j] = w, ~(status'[j] = "leased" /\ owner'[j] = w)
    PROVE  \/ lease[j] = 0
           \/ w \notin live \/ silent[w] > WorkerTTL
           \/ w \notin live'
           \/ GiveBack(w, j)
           \/ \E o \in Terminal : Finish(w, j, o)
<1>1. j \in Job /\ status[j] = "leased"
  BY DEF LeasedJobs
<1>2. ASSUME status' = StatusAfterRetry(Reaped), owner' = OwnerAfterRetry(Reaped)
      PROVE  j \in Reaped
  BY <1>2, OthersKeepTheirLease, ReapedAreLeased
<1>3. j \in Reaped => lease[j] = 0 \/ silent[w] > WorkerTTL
  BY ReapHasCause
<1>4. ASSUME NEW v \in Worker, RegisterWorker(v) PROVE FALSE
  BY <1>1, <1>4 DEF RegisterWorker, jobVars
<1>5. ASSUME NEW v \in Worker, Unregister(v) PROVE w \notin live'
  <2> DEFINE held == active[v] \cap LeasedJobs
  <2>1. status' = StatusAfterRetry(held) /\ owner' = OwnerAfterRetry(held)
    BY <1>5 DEF Unregister
  <2>2. j \in held
    BY <2>1, OthersKeepTheirLease
  <2>3. v = w
    BY <2>2 DEF IInv, ActiveJobsAreLeasedToTheirWorker
  <2>4. QED
    BY <1>5, <2>3 DEF Unregister
<1>6. ASSUME NEW v \in Worker, NEW R \in SUBSET Job, Heartbeat(v, R)
      PROVE  j \in Reaped
  BY <1>2, <1>6 DEF Heartbeat
<1>7. ASSUME NEW x \in Job, Submit(x) PROVE FALSE
  BY <1>1, <1>7 DEF Submit, IInv, TypeOK
<1>8. ASSUME NEW v \in Worker, NEW c \in Capability, ClaimJob(v, c)
      PROVE  j \in Reaped
  <2> SUFFICES ASSUME j \notin Reaped PROVE FALSE
    OBVIOUS
  <2>1. PICK x \in Job :
           /\ StatusAfterRetry(Reaped)[x] = "queued"
           /\ status' = [StatusAfterRetry(Reaped) EXCEPT ![x] = "leased"]
           /\ owner' = [OwnerAfterRetry(Reaped) EXCEPT ![x] = v]
    <3>1. PICK q \in QueuesAfterReap : \E i \in DOMAIN q :
             /\ status' = [StatusAfterRetry(Reaped) EXCEPT ![q[i]] = "leased"]
             /\ owner' = [OwnerAfterRetry(Reaped) EXCEPT ![q[i]] = v]
      BY <1>8 DEF ClaimJob
    <3>2. \A i \in DOMAIN q : q[i] \in Job /\ StatusAfterRetry(Reaped)[q[i]] = "queued"
      BY ReapQueue DEF ToSet
    <3>3. QED
      BY <3>1, <3>2
  <2>2. StatusAfterRetry(Reaped)[j] = "leased" /\ OwnerAfterRetry(Reaped)[j] = w
    BY OthersKeepTheirLease, ReapedAreLeased
  <2>3. x # j
    BY <2>1, <2>2
  <2>4. QED
    BY <1>1, <2>1, <2>2, <2>3 DEF StatusAfterRetry, OwnerAfterRetry
<1>9. ASSUME NEW v \in Worker, NEW c \in Capability, ClaimNothing(v, c)
      PROVE  j \in Reaped
  BY <1>2, <1>9 DEF ClaimNothing
<1>10. ASSUME NEW v \in Worker, NEW x \in Job, NEW o \in Terminal, Finish(v, x, o)
       PROVE  Finish(w, j, o)
  <2>1. x = j
    BY <1>1, <1>10 DEF Finish, IInv, TypeOK
  <2>2. v = w
    BY <1>10, <2>1 DEF Finish, MayComplete
  <2>3. QED
    BY <1>10, <2>1, <2>2
<1>11. ASSUME NEW v \in Worker, NEW x \in Job, GiveBack(v, x)
       PROVE  GiveBack(w, j)
  <2>1. {x} \in SUBSET LeasedJobs
    BY <1>11 DEF GiveBack, MayComplete, LeasedJobs
  <2>2. x = j
    BY <1>11, <2>1, OthersKeepTheirLease DEF GiveBack
  <2>3. v = w
    BY <1>11, <2>2 DEF GiveBack, MayComplete
  <2>4. QED
    BY <1>11, <2>2, <2>3
<1>12. CASE Reap
  BY <1>2, <1>3, <1>12 DEF Reap
<1>13. CASE Tick \/ UNCHANGED vars
  BY <1>1, <1>13 DEF Tick, vars, jobVars
<1>14. QED
  BY <1>3, <1>4, <1>5, <1>6, <1>7, <1>8, <1>9, <1>10, <1>11, <1>12, <1>13 DEF Next

(* No other worker's call takes a job from its holder, for any number of    *)
(* jobs and workers.                                                        *)
THEOREM LeasesAreLostForCause == Spec => LeaseLostOnlyForCause
<1>1. IInv /\ [Next]_vars =>
        [\A j \in LeasedJobs, w \in Worker :
            owner[j] = w /\ ~(status'[j] = "leased" /\ owner'[j] = w)
               => \/ lease[j] = 0
                  \/ w \notin live \/ silent[w] > WorkerTTL
                  \/ w \notin live'
                  \/ GiveBack(w, j)
                  \/ \E o \in Terminal : Finish(w, j, o)]_vars
  BY LossHasCause
<1>2. QED
  BY <1>1, SchedulerIInv, PTL DEF Spec, LeaseLostOnlyForCause

(* Only a claim leases a job that was queued.                               *)
LEMMA OnlyClaimsLease ==
    ASSUME IInv, [Next]_vars, NEW j \in Job, status[j] = "queued", status'[j] = "leased"
    PROVE  \E w \in Worker, c \in Capability : ClaimJob(w, c)
<1>1. ASSUME NEW S \in SUBSET LeasedJobs
      PROVE  StatusAfterRetry(S)[j] = "queued"
  BY DEF StatusAfterRetry, LeasedJobs, Retried
<1>2. ASSUME NEW w \in Worker, RegisterWorker(w) PROVE FALSE
  BY <1>2 DEF RegisterWorker, jobVars
<1>3. ASSUME NEW w \in Worker, Unregister(w) PROVE FALSE
  BY <1>1, <1>3 DEF Unregister
<1>4. ASSUME NEW w \in Worker, NEW R \in SUBSET Job, Heartbeat(w, R) PROVE FALSE
  BY <1>1, <1>4, ReapedAreLeased DEF Heartbeat
<1>5. ASSUME NEW x \in Job, Submit(x) PROVE FALSE
  BY <1>5 DEF Submit, IInv, TypeOK
<1>6. ASSUME NEW w \in Worker, NEW c \in Capability, ClaimNothing(w, c) PROVE FALSE
  BY <1>1, <1>6, ReapedAreLeased DEF ClaimNothing
<1>7. ASSUME NEW w \in Worker, NEW x \in Job, NEW o \in Terminal, Finish(w, x, o)
      PROVE  FALSE
  BY <1>7 DEF Finish, MayComplete, Terminal, IInv, TypeOK
<1>8. ASSUME NEW w \in Worker, NEW x \in Job, GiveBack(w, x) PROVE FALSE
  <2>1. {x} \in SUBSET LeasedJobs
    BY <1>8 DEF GiveBack, MayComplete, LeasedJobs
  <2>2. QED
    BY <1>1, <1>8, <2>1 DEF GiveBack
<1>9. ~Reap
  BY <1>1, ReapedAreLeased DEF Reap
<1>10. ~(Tick \/ UNCHANGED vars)
  BY DEF Tick, vars, jobVars
<1>11. QED
  BY <1>2, <1>3, <1>4, <1>5, <1>6, <1>7, <1>8, <1>9, <1>10 DEF Next

(* A reap only appends to the queue.                                        *)
LEMMA QueueStaysInFront ==
    ASSUME IInv, NEW q \in QueuesAfterReap
    PROVE  q \in Seq(Job) /\ \A l \in DOMAIN queue : l \in DOMAIN q /\ q[l] = queue[l]
<1>1. PICK a \in Requeues(Orphaned), b \in Requeues(Expired) : q = queue \o a \o b
  BY DEF QueuesAfterReap
<1>2. a \in Seq(Job) /\ b \in Seq(Job) /\ queue \in Seq(Job)
  BY RequeueOnce, ReapedAreLeased DEF IInv, TypeOK
<1> DEFINE s == queue \o a
<1>3. s \in Seq(Job) /\ \A l \in DOMAIN queue : l \in DOMAIN s /\ s[l] = queue[l]
  BY <1>2
<1> HIDE DEF s
<1>4. s \o b \in Seq(Job) /\ \A l \in DOMAIN s : l \in DOMAIN (s \o b) /\ (s \o b)[l] = s[l]
  BY <1>2, <1>3
<1>5. QED
  BY <1>1, <1>3, <1>4 DEF s

(* A claim that leases a job of the queue passes over no other of its       *)
(* capability that stands before it.                                        *)
LEMMA ClaimPassesOverNone ==
    ASSUME IInv, NEW w \in Worker, NEW c \in Capability, ClaimJob(w, c),
           NEW i \in DOMAIN queue, NEW k \in DOMAIN queue, i < k,
           CapabilityOf[queue[i]] = CapabilityOf[queue[k]],
           status'[queue[k]] = "leased"
    PROVE  FALSE
<1> DEFINE Leases(q, m) ==
              /\ IsOldestMatch(q, StatusAfterRetry(Reaped), m, c)
              /\ status' = [StatusAfterRetry(Reaped) EXCEPT ![q[m]] = "leased"]
<1>1. PICK q \in QueuesAfterReap : \E m \in DOMAIN q : Leases(q, m)
  BY DEF ClaimJob
<1>2. PICK m \in DOMAIN q : Leases(q, m)
  BY <1>1
<1>3. /\ queue \in Seq(Job)
      /\ \A l \in DOMAIN queue : queue[l] \in Job /\ status[queue[l]] = "queued"
      /\ \A l, n \in DOMAIN queue : queue[l] = queue[n] => l = n
  BY DEF IInv, TypeOK, QueueHoldsTheQueuedJobs, ToSet, IsInjective
<1>4. \A l \in DOMAIN queue : StatusAfterRetry(Reaped)[queue[l]] = "queued"
  BY <1>3, ReapedAreLeased DEF StatusAfterRetry, LeasedJobs, Retried
<1>5. q \in Seq(Job) /\ \A l \in DOMAIN queue : l \in DOMAIN q /\ q[l] = queue[l]
  BY QueueStaysInFront
<1>6. q[m] = queue[k]
  <2>1. StatusAfterRetry(Reaped) \in [Job -> Status] /\ q[m] \in Job
    BY <1>5, RetryTypes, ReapedAreLeased DEF IInv
  <2>2. CASE q[m] # queue[k]
    BY <1>2, <1>3, <1>4, <2>1, <2>2
  <2>3. QED
    BY <2>2
<1>7. /\ CapabilityOf[q[m]] = c
      /\ \A l \in 1..(m - 1) :
            ~(StatusAfterRetry(Reaped)[q[l]] = "queued" /\ CapabilityOf[q[l]] = c)
  BY <1>2 DEF IsOldestMatch
<1>8. i \in Nat /\ k \in Nat /\ m \in Nat /\ i >= 1
  BY <1>3, <1>5
<1>9. i \notin 1..(m - 1)
  BY <1>4, <1>5, <1>6, <1>7
<1>10. m <= i
  BY <1>8, <1>9
<1>11. m \in DOMAIN queue
  BY <1>3, <1>5, <1>8, <1>10
<1>12. m = k
  BY <1>3, <1>5, <1>6, <1>11
<1>13. QED
  BY <1>8, <1>10, <1>12

(* Work goes out in the order it came in, for any number of jobs.           *)
THEOREM OldestFirst == Spec => OldestMatchingJobFirst
<1>1. IInv /\ [Next]_vars =>
        [\A i, k \in DOMAIN queue :
            (i < k /\ CapabilityOf[queue[i]] = CapabilityOf[queue[k]]
                   /\ status'[queue[k]] = "leased")
               => status'[queue[i]] # "queued"]_vars
  <2> SUFFICES ASSUME IInv, [Next]_vars, NEW i \in DOMAIN queue, NEW k \in DOMAIN queue,
                      i < k, CapabilityOf[queue[i]] = CapabilityOf[queue[k]],
                      status'[queue[k]] = "leased"
               PROVE  FALSE
    OBVIOUS
  <2>1. queue[k] \in Job /\ status[queue[k]] = "queued"
    BY DEF IInv, TypeOK, QueueHoldsTheQueuedJobs, ToSet
  <2>2. QED
    BY <2>1, OnlyClaimsLease, ClaimPassesOverNone
<1>2. QED
  BY <1>1, SchedulerIInv, PTL DEF Spec, OldestMatchingJobFirst

-----------------------------------------------------------------------------
(***************************************************************************)
(* CLUSTER                                                                 *)
(***************************************************************************)

(* A message under way has the right type, a claim comes from a claim       *)
(* thread, and a completion carries an outcome.                             *)
WellFormed(m) ==
    /\ m \in Message
    /\ m.kind = "claim" => m.thread \in ClaimThread
    /\ m.kind = "complete" => m.word \in Terminal

ProcessesOK ==
    /\ reg \in [Process -> Worker \cup {NoWorker}]
    /\ slot \in [ClaimThread -> Slot]
    /\ beat \in [Process -> {"due", "sent", "beaten"}]
    /\ up \in [Process -> {"up", "stopping", "leaving", "down"}]
    /\ spent \in 0..MaxFaults

NetOK == \A m \in net : WellFormed(m)

(* The inductive invariant: that a request served is a step of Scheduler    *)
(* needs to know what requests can be under way, and that in turn what the  *)
(* threads that send them can hold.                                         *)
ClusterIInv == IInv /\ ProcessesOK /\ NetOK

-----------------------------------------------------------------------------
(* Messages *)

LEMMA Threads ==
    /\ \A t \in ClaimThread : t \in Thread /\ t[1] \in Process /\ t[2] \in Capability
    /\ \A p \in Process : BeatThread(p) \in Thread /\ MainThread(p) \in Thread
    /\ \A p \in Process, c \in Capability : c \in Serves[p] => <<p, c>> \in ClaimThread
    /\ \A p \in Process : Serves[p] \subseteq Capability
BY ClusterAssumption DEF ClaimThread, Thread

LEMMA RequestIsMessage ==
    ASSUME NEW kind \in RequestKind \cup {"reply"}, NEW t \in Thread,
           NEW w \in Worker \cup {NoWorker}, NEW J \in SUBSET Job,
           NEW word \in Terminal \cup {"", "ok", "none", "gone", "refused"},
           kind = "claim" => t \in ClaimThread,
           kind = "complete" => word \in Terminal
    PROVE  WellFormed(Request(kind, t, w, J, word))
BY DEF Request, WellFormed, Message

(* Answering a request leaves only well-formed messages.                    *)
LEMMA AnsweredOK ==
    ASSUME NetOK, NEW m \in net, NEW w \in Worker \cup {NoWorker}, NEW J \in SUBSET Job,
           NEW word \in {"ok", "none", "gone", "refused"},
           net' = Answered(m, w, J, word)
    PROVE  NetOK'
<1>1. m.thread \in Thread
  BY DEF NetOK, WellFormed, Message
<1>2. WellFormed(Request("reply", m.thread, w, J, word))
  BY <1>1, RequestIsMessage
<1>3. \A n \in net' : n \in net \/ n = Request("reply", m.thread, w, J, word)
  BY DEF Answered
<1>4. QED
  BY <1>2, <1>3 DEF NetOK, WellFormed

LEMMA UnheardOK ==
    ASSUME NEW m, WellFormed(m)
    PROVE  WellFormed(Unheard(m))
BY DEF WellFormed, Message, Unheard

-----------------------------------------------------------------------------
(* The scheduler's part of a step                                           *)

LEMMA ServeIsSchedulerStep ==
    ASSUME ClusterIInv, NEW m \in net, Serve(m)
    PROVE  [Next]_vars
<1> USE DEF ClusterIInv
<1>1. m \in Message
  BY DEF NetOK, WellFormed
<1>2. live \subseteq Worker /\ LiveAfterReap \subseteq Worker
  BY DEF IInv, TypeOK, LiveAfterReap
<1>3. CASE ServeRegister(m)
  BY <1>3 DEF ServeRegister, Next
<1>4. CASE ServeClaim(m)
  <2>1. m.thread[2] \in Capability
    BY <1>4, Threads DEF ServeClaim, NetOK, WellFormed
  <2>2. CASE ClaimJob(m.worker, m.thread[2]) \/ ClaimNothing(m.worker, m.thread[2])
    <3>1. m.worker \in Worker
      BY <2>2, <1>2 DEF ClaimJob, ClaimNothing
    <3>2. QED
      BY <2>1, <2>2, <3>1 DEF Next
  <2>3. CASE Reap
    BY <2>3 DEF Next
  <2>4. QED
    BY <1>4, <2>2, <2>3 DEF ServeClaim
<1>5. CASE ServeComplete(m)
  <2>1. m.word \in Terminal /\ m.jobs \in SUBSET Job
    BY <1>1, <1>5 DEF ServeComplete, NetOK, WellFormed, Message
  <2>2. PICK j \in m.jobs : Finish(m.worker, j, m.word) \/ UNCHANGED vars
    BY <1>5 DEF ServeComplete
  <2>3. CASE Finish(m.worker, j, m.word)
    <3>1. m.worker \in Worker
      BY <2>1, <2>3 DEF Finish, MayComplete, IInv, UnfinishedJobsAreAccountedFor
    <3>2. QED
      BY <2>1, <2>3, <3>1 DEF Next
  <2>4. QED
    BY <2>2, <2>3
<1>6. CASE ServeHeartbeat(m)
  <2>1. CASE Heartbeat(m.worker, m.jobs)
    <3>1. m.worker \in Worker /\ m.jobs \in SUBSET Job
      BY <1>1, <1>2, <2>1 DEF Heartbeat, Message
    <3>2. QED
      BY <2>1, <3>1 DEF Next
  <2>2. CASE Reap
    BY <2>2 DEF Next
  <2>3. QED
    BY <1>6, <2>1, <2>2 DEF ServeHeartbeat
<1>7. CASE ServeUnregister(m)
  <2>1. CASE Unregister(m.worker)
    <3>1. m.worker \in Worker
      BY <1>2, <2>1 DEF Unregister
    <3>2. QED
      BY <2>1, <3>1 DEF Next
  <2>2. QED
    BY <1>7, <2>1 DEF ServeUnregister
<1>8. QED
  BY <1>3, <1>4, <1>5, <1>6, <1>7 DEF Serve

(* Outside the coordinator, the clients and the clock nothing changes the   *)
(* scheduler.                                                               *)
LEMMA ProcessStepLeavesScheduler ==
    ASSUME NEW p \in Process, ProcessStep(p)
    PROVE  UNCHANGED vars
<1>1. ASSUME NEW c \in Serves[p], ClaimThreadStep(p, c)
      PROVE  UNCHANGED vars
  BY <1>1 DEF ClaimThreadStep, SendRegister, Registered, SendClaim,
              ClaimReturns, HandlerReturns, Completed
<1>2. ASSUME SendBeat(p) \/ BeatReturns(p)
      PROVE  UNCHANGED vars
  BY <1>2 DEF SendBeat, BeatReturns
<1>3. ASSUME Stop(p) \/ SendUnregister(p) \/ Exit(p) \/ Crash(p)
      PROVE  UNCHANGED vars
  BY <1>3 DEF Stop, SendUnregister, Exit, Crash, Gone
<1>4. QED
  BY <1>1, <1>2, <1>3 DEF ProcessStep

LEMMA ClusterStepIsSchedulerStep ==
    ASSUME ClusterIInv, [ClusterNext]_clusterVars, ~Restart
    PROVE  [Next]_vars
<1>1. ASSUME NEW p \in Process, ProcessStep(p) PROVE [Next]_vars
  BY <1>1, ProcessStepLeavesScheduler
<1>2. ASSUME NEW m \in net, Serve(m) PROVE [Next]_vars
  BY <1>2, ServeIsSchedulerStep
<1>3. ASSUME NEW m \in net, Abandon(m) PROVE UNCHANGED vars
  BY <1>3 DEF Abandon
<1>4. ASSUME NEW j \in Job, ClientSubmits(j) PROVE Next
  BY <1>4 DEF ClientSubmits, Next
<1>5. ASSUME ClientPolls PROVE Next
  BY <1>5 DEF ClientPolls, Next
<1>6. ASSUME RegularTick \/ LateTick PROVE Next
  BY <1>6 DEF RegularTick, LateTick, Passing, Next
<1>7. ASSUME UNCHANGED clusterVars PROVE UNCHANGED vars
  BY <1>7 DEF clusterVars
<1>8. QED
  BY <1>1, <1>2, <1>3, <1>4, <1>5, <1>6, <1>7 DEF ClusterNext

-----------------------------------------------------------------------------
(* The processes' part of a step                                            *)

LEMMA ClusterInitOK == ClusterInit => ClusterIInv
<1>1. ASSUME ClusterInit PROVE ProcessesOK /\ NetOK
  BY <1>1, ClusterAssumption DEF ClusterInit, ProcessesOK, NetOK, Slot, IdleSlot
<1>2. QED
  BY <1>1, InitIInv DEF ClusterInit, ClusterIInv

LEMMA ClaimThreadKeeps ==
    ASSUME ClusterIInv, NEW p \in Process, NEW c \in Serves[p], ClaimThreadStep(p, c)
    PROVE  ProcessesOK' /\ NetOK'
<1> USE DEF ClusterIInv
<1> DEFINE t == <<p, c>>
<1>1. t \in ClaimThread /\ t \in Thread
  BY Threads, ClusterAssumption
<1>2. slot[t] \in Slot
  BY <1>1 DEF ProcessesOK
<1>3. \A m \in RepliesTo(t) : /\ m.worker \in Worker \cup {NoWorker}
                              /\ m.jobs \in SUBSET Job
  BY DEF RepliesTo, NetOK, WellFormed, Message
<1>4. ASSUME NEW kind \in RequestKind, NEW w \in Worker \cup {NoWorker},
             NEW J \in SUBSET Job, NEW word \in Terminal \cup {""},
             kind = "complete" => word \in Terminal,
             \A m \in net' : m \in net \/ m = Request(kind, t, w, J, word)
      PROVE  NetOK'
  <2>1. WellFormed(Request(kind, t, w, J, word))
    BY <1>1, <1>4, RequestIsMessage
  <2>2. QED
    BY <1>4, <2>1 DEF NetOK, WellFormed
<1> HIDE DEF t
<1>5. CASE SendRegister(p, c)
  <2>1. NetOK'
    BY <1>4, <1>5 DEF SendRegister, t, RequestKind
  <2>2. slot' \in [ClaimThread -> Slot]
    BY <1>1, <1>2, <1>5 DEF SendRegister, ProcessesOK, Slot, t
  <2>3. QED
    BY <1>5, <2>1, <2>2 DEF SendRegister, ProcessesOK
<1>6. CASE Registered(p, c)
  <2>1. PICK m \in RepliesTo(t) :
             /\ reg' = [reg EXCEPT ![p] = m.worker]
             /\ net' = (net \ {m}) \cup {Request("claim", t, m.worker, {}, "")}
    BY <1>6 DEF Registered, t
  <2>2. NetOK'
    BY <1>3, <1>4, <2>1 DEF RequestKind
  <2>3. reg' \in [Process -> Worker \cup {NoWorker}]
    BY <1>3, <2>1 DEF ProcessesOK
  <2>4. slot' \in [ClaimThread -> Slot]
    BY <1>1, <1>2, <1>6 DEF Registered, ProcessesOK, Slot, t
  <2>5. QED
    BY <1>6, <2>2, <2>3, <2>4 DEF Registered, ProcessesOK
<1>7. CASE SendClaim(p, c)
  <2>1. reg[p] \in Worker \cup {NoWorker}
    BY DEF ProcessesOK
  <2>2. NetOK'
    BY <1>4, <1>7, <2>1 DEF SendClaim, t, RequestKind
  <2>3. slot' \in [ClaimThread -> Slot]
    BY <1>1, <1>2, <1>7 DEF SendClaim, ProcessesOK, Slot, t
  <2>4. QED
    BY <1>7, <2>2, <2>3 DEF SendClaim, ProcessesOK
<1>8. CASE ClaimReturns(p, c)
  <2>1. PICK m \in RepliesTo(t) :
             /\ reg' = IF m.word = "gone" THEN Forgotten(p) ELSE reg
             /\ slot' = [slot EXCEPT ![t] = AfterClaim(m)]
             /\ net' = net \ {m}
    BY <1>8 DEF ClaimReturns, t
  <2>2. NetOK'
    BY <2>1 DEF NetOK, WellFormed
  <2>3. AfterClaim(m) \in Slot
    BY <1>3 DEF AfterClaim, Slot, IdleSlot
  <2>4. slot' \in [ClaimThread -> Slot]
    BY <2>1, <2>3 DEF ProcessesOK
  <2>5. reg' \in [Process -> Worker \cup {NoWorker}]
    BY <2>1 DEF ProcessesOK, Forgotten
  <2>6. QED
    BY <1>8, <2>2, <2>4, <2>5 DEF ClaimReturns, ProcessesOK
<1>9. CASE HandlerReturns(p, c)
  <2>1. slot[t].worker \in Worker \cup {NoWorker} /\ slot[t].jobs \in SUBSET Job
    BY <1>2 DEF Slot
  <2>2. PICK o \in Terminal :
             net' = net \cup {Request("complete", t, slot[t].worker, slot[t].jobs, o)}
    BY <1>9 DEF HandlerReturns, t
  <2>3. NetOK'
    BY <1>4, <2>1, <2>2 DEF RequestKind
  <2>4. slot' \in [ClaimThread -> Slot]
    BY <1>1, <1>2, <1>9 DEF HandlerReturns, ProcessesOK, Slot, t
  <2>5. QED
    BY <1>9, <2>3, <2>4 DEF HandlerReturns, ProcessesOK
<1>10. CASE Completed(p, c)
  <2>1. NetOK'
    BY <1>10 DEF Completed, NetOK, WellFormed
  <2>2. slot' \in [ClaimThread -> Slot]
    BY <1>10 DEF Completed, ProcessesOK, Slot, IdleSlot
  <2>3. reg' \in [Process -> Worker \cup {NoWorker}]
    BY <1>10 DEF Completed, ProcessesOK, Forgotten
  <2>4. QED
    BY <1>10, <2>1, <2>2, <2>3 DEF Completed, ProcessesOK
<1>11. QED
  BY <1>5, <1>6, <1>7, <1>8, <1>9, <1>10 DEF ClaimThreadStep

LEMMA BeatThreadKeeps ==
    ASSUME ClusterIInv, NEW p \in Process, SendBeat(p) \/ BeatReturns(p)
    PROVE  ProcessesOK' /\ NetOK'
<1> USE DEF ClusterIInv
<1>1. CASE SendBeat(p)
  <2>1. reg[p] \in Worker \cup {NoWorker}
    BY DEF ProcessesOK
  <2>2. ActiveJobs(p) \in SUBSET Job
    <3>1. ASSUME NEW c \in Serves[p]
          PROVE  slot[<<p, c>>].jobs \in SUBSET Job
      <4>1. <<p, c>> \in ClaimThread
        BY Threads
      <4>2. slot[<<p, c>>] \in Slot
        BY <4>1 DEF ProcessesOK
      <4>3. QED
        BY <4>2 DEF Slot
    <3>2. QED
      BY <3>1 DEF ActiveJobs
  <2>3. WellFormed(Request("heartbeat", BeatThread(p), reg[p], ActiveJobs(p), ""))
    BY <2>1, <2>2, Threads, RequestIsMessage DEF RequestKind
  <2>4. NetOK'
    BY <1>1, <2>3 DEF SendBeat, NetOK, WellFormed
  <2>5. QED
    BY <1>1, <2>4 DEF SendBeat, ProcessesOK
<1>2. CASE BeatReturns(p)
  <2>1. NetOK'
    BY <1>2 DEF BeatReturns, NetOK, WellFormed
  <2>2. QED
    BY <1>2, <2>1 DEF BeatReturns, ProcessesOK, Forgotten
<1>3. QED
  BY <1>1, <1>2

(* Counting a fault stays within the bound.                                 *)
LEMMA FaultIsCounted ==
    ASSUME ProcessesOK, NEW kind, Fault(kind)
    PROVE  spent' \in 0..MaxFaults
BY ClusterAssumption DEF ProcessesOK, Fault

LEMMA GoneKeeps ==
    ASSUME ClusterIInv, NEW p \in Process, Gone(p), spent' \in 0..MaxFaults
    PROVE  ProcessesOK' /\ NetOK'
<1> USE DEF ClusterIInv
<1>1. \A m \in net' : m \in net \/ \E n \in net : m = Unheard(n)
  BY DEF Gone
<1>2. NetOK'
  BY <1>1, UnheardOK DEF NetOK, WellFormed
<1>3. slot' \in [ClaimThread -> Slot]
  BY DEF Gone, ProcessesOK, Slot, IdleSlot
<1>4. QED
  BY <1>2, <1>3 DEF Gone, ProcessesOK

LEMMA MainThreadKeeps ==
    ASSUME ClusterIInv, NEW p \in Process,
           Stop(p) \/ SendUnregister(p) \/ Exit(p) \/ Crash(p)
    PROVE  ProcessesOK' /\ NetOK'
<1> USE DEF ClusterIInv
<1>1. CASE Stop(p)
  <2>1. spent' \in 0..MaxFaults
    BY <1>1, FaultIsCounted DEF Stop
  <2>2. QED
    BY <1>1, <2>1 DEF Stop, ProcessesOK, NetOK, WellFormed
<1>2. CASE SendUnregister(p)
  <2>1. reg[p] \in Worker \cup {NoWorker}
    BY DEF ProcessesOK
  <2>2. WellFormed(Request("unregister", MainThread(p), reg[p], {}, ""))
    BY <2>1, Threads, RequestIsMessage DEF RequestKind
  <2>3. NetOK'
    BY <1>2, <2>2 DEF SendUnregister, NetOK, WellFormed
  <2>4. QED
    BY <1>2, <2>3 DEF SendUnregister, ProcessesOK
<1>3. CASE Exit(p)
  BY <1>3, GoneKeeps DEF Exit, ProcessesOK
<1>4. CASE Crash(p)
  BY <1>4, GoneKeeps, FaultIsCounted DEF Crash
<1>5. QED
  BY <1>1, <1>2, <1>3, <1>4

LEMMA ServeKeeps ==
    ASSUME ClusterIInv, NEW m \in net, Serve(m)
    PROVE  ProcessesOK' /\ NetOK'
<1> USE DEF ClusterIInv
<1>1. ProcessesOK'
  BY DEF Serve, processVars, ProcessesOK
<1>2. CASE ServeRegister(m)
  <2>1. PICK w \in Worker : net' = Answered(m, w, {}, "ok")
    BY <1>2 DEF ServeRegister
  <2>2. QED
    BY <1>1, <2>1, AnsweredOK
<1>3. CASE ServeClaim(m)
  <2>1. CASE net' = net
    BY <1>1, <2>1 DEF NetOK, WellFormed
  <2>2. CASE net' = Answered(m, NoWorker, {}, "none") \/ net' = Answered(m, NoWorker, {}, "gone")
    BY <1>1, <2>2, AnsweredOK
  <2>3. CASE /\ ClaimJob(m.worker, m.thread[2])
             /\ net' = Answered(m, m.worker, {j \in Job : attempts'[j] # attempts[j]}, "ok")
    <3>1. m.worker \in Worker
      BY <2>3 DEF ClaimJob, LiveAfterReap, IInv, TypeOK
    <3>2. {j \in Job : attempts'[j] # attempts[j]} \in SUBSET Job
      OBVIOUS
    <3>3. QED
      BY <1>1, <2>3, <3>1, <3>2, AnsweredOK
  <2>4. QED
    BY <1>3, <2>1, <2>2, <2>3 DEF ServeClaim
<1>4. CASE ServeComplete(m)
  <2>1. PICK word \in {"ok", "refused", "gone"} : net' = Answered(m, NoWorker, {}, word)
    BY <1>4 DEF ServeComplete
  <2>2. QED
    BY <1>1, <2>1, AnsweredOK
<1>5. CASE ServeHeartbeat(m)
  <2>1. net' = Answered(m, NoWorker, {}, "ok") \/ net' = Answered(m, NoWorker, {}, "gone")
    BY <1>5 DEF ServeHeartbeat
  <2>2. QED
    BY <1>1, <2>1, AnsweredOK
<1>6. CASE ServeUnregister(m)
  BY <1>1, <1>6, AnsweredOK DEF ServeUnregister
<1>7. QED
  BY <1>2, <1>3, <1>4, <1>5, <1>6 DEF Serve

LEMMA CutOffKeeps ==
    ASSUME ProcessesOK, NEW T, CutOff(T), spent' \in 0..MaxFaults
    PROVE  ProcessesOK'
<1>1. IdleSlot \in Slot /\ [IdleSlot EXCEPT !.at = "retrying"] \in Slot
  BY DEF Slot, IdleSlot
<1>2. slot' \in [ClaimThread -> Slot]
  BY <1>1 DEF CutOff, ProcessesOK
<1>3. QED
  BY <1>2 DEF CutOff, ProcessesOK

LEMMA AbandonKeeps ==
    ASSUME ClusterIInv, NEW m \in net, Abandon(m)
    PROVE  ProcessesOK' /\ NetOK'
<1> USE DEF ClusterIInv
<1>1. \A n \in net' : n \in net \/ n = Unheard(m)
  BY DEF Abandon
<1>2. NetOK'
  BY <1>1, UnheardOK DEF NetOK, WellFormed
<1>3. spent' \in 0..MaxFaults
  BY FaultIsCounted DEF Abandon
<1>4. QED
  BY <1>2, <1>3, CutOffKeeps DEF Abandon

(* A restart of the coordinator leaves a scheduler as good as new, and      *)
(* threads and messages that are still well-formed.                         *)
LEMMA RestartKeeps ==
    ASSUME ClusterIInv, Restart
    PROVE  ClusterIInv'
<1>1. IInv'
  <2>1. Init'
    BY DEF Restart, NewScheduler, Init
  <2>2. QED
    BY <2>1, InitIInv, PTL
<1>2. NetOK'
  BY DEF Restart, ClusterIInv, NetOK, WellFormed
<1>3. spent' \in 0..MaxFaults
  BY FaultIsCounted DEF Restart, ClusterIInv
<1>4. ProcessesOK'
  BY <1>3, CutOffKeeps DEF Restart, ClusterIInv
<1>5. QED
  BY <1>1, <1>2, <1>4 DEF ClusterIInv

LEMMA OthersKeep ==
    ASSUME ClusterIInv,
           \/ \E j \in Job : ClientSubmits(j)
           \/ ClientPolls \/ RegularTick \/ LateTick \/ UNCHANGED clusterVars
    PROVE  ProcessesOK' /\ NetOK'
<1> USE DEF ClusterIInv
<1>1. net' = net /\ reg' = reg /\ slot' = slot /\ up' = up
  BY DEF ClientSubmits, ClientPolls, RegularTick, LateTick, Passing, clusterVars, processVars
<1>2. NetOK'
  BY <1>1 DEF NetOK, WellFormed
<1>3. spent' \in 0..MaxFaults
  BY FaultIsCounted DEF ClientSubmits, ClientPolls, RegularTick, LateTick, clusterVars, ProcessesOK
<1>4. beat' \in [Process -> {"due", "sent", "beaten"}]
  BY DEF ClientSubmits, ClientPolls, RegularTick, LateTick, Passing, clusterVars,
         processVars, ProcessesOK
<1>5. QED
  BY <1>1, <1>2, <1>3, <1>4 DEF ProcessesOK

LEMMA ClusterNextKeeps == ClusterIInv /\ [ClusterNext]_clusterVars => ClusterIInv'
<1> SUFFICES ASSUME ClusterIInv, [ClusterNext]_clusterVars, ~Restart PROVE ClusterIInv'
  BY RestartKeeps
<1>1. IInv'
  BY ClusterStepIsSchedulerStep, NextKeeps DEF ClusterIInv
<1>2. ASSUME NEW p \in Process, ProcessStep(p) PROVE ProcessesOK' /\ NetOK'
  BY <1>2, ClaimThreadKeeps, BeatThreadKeeps, MainThreadKeeps DEF ProcessStep
<1>3. ASSUME NEW m \in net, Serve(m) \/ Abandon(m) PROVE ProcessesOK' /\ NetOK'
  BY <1>3, ServeKeeps, AbandonKeeps
<1>4. ProcessesOK' /\ NetOK'
  BY <1>2, <1>3, OthersKeep DEF ClusterNext
<1>5. QED
  BY <1>1, <1>4 DEF ClusterIInv

-----------------------------------------------------------------------------
(* Theorems *)

THEOREM ClusterInvariant == ClusterSpec => []ClusterIInv
  BY ClusterInitOK, ClusterNextKeeps, PTL DEF ClusterSpec

(* Threads, requests under way and registrations keep their types, with any *)
(* number of processes and faults (worker.py, coordinator.py).              *)
THEOREM ClusterTypes == ClusterSpec => []ClusterTypeOK
<1>1. ClusterIInv => ClusterTypeOK
  BY DEF ClusterIInv, IInv, ProcessesOK, NetOK, WellFormed, ClusterTypeOK
<1>2. QED
  BY <1>1, ClusterInvariant, PTL

(* Whatever the processes, the network and the clock do, the scheduler's    *)
(* state moves as Scheduler says (coordinator.py do_POST and do_GET), as    *)
(* long as the coordinator is not restarted.                                *)
THEOREM ClusterImplementsScheduler ==
    ASSUME "restart" \notin FaultKinds
    PROVE  ClusterSpec => ImplementsScheduler
<1>1. ClusterInit => Init
  BY DEF ClusterInit
<1>2. ~Restart
  BY DEF Restart, Fault
<1>3. ClusterIInv /\ [ClusterNext]_clusterVars => [Next]_vars
  BY <1>2, ClusterStepIsSchedulerStep
<1>4. QED
  BY <1>1, <1>3, ClusterInvariant, PTL DEF ClusterSpec, ImplementsScheduler, Spec

(* So the cluster as a whole keeps the promise made for each job: bounded   *)
(* executions, one holder at a time, an outcome that never changes.         *)
THEOREM ClusterKeepsLifecycle ==
    ASSUME "restart" \notin FaultKinds
    PROVE  ClusterSpec => ImplementsLifecycle
  BY ClusterImplementsScheduler, SchedulerImplementsLifecycle, PTL
     DEF ImplementsScheduler

(* And no job that a client submitted is lost from the queue or stands in   *)
(* it twice, with requests lost, served late or served unheard, and also    *)
(* when what is served was sent before the coordinator was started again.   *)
THEOREM ClusterLosesNoJob == ClusterSpec => []QueueHoldsTheQueuedJobs
<1>1. ClusterIInv => QueueHoldsTheQueuedJobs
  BY DEF ClusterIInv, IInv
<1>2. QED
  BY <1>1, ClusterInvariant, PTL

(* Nor does a record of a restarted coordinator ever count a job that is    *)
(* not leased to it, whatever the workers that knew the old one still send. *)
THEOREM ClusterActiveJobsAreHeld == ClusterSpec => []ActiveJobsAreLeasedToTheirWorker
<1>1. ClusterIInv => ActiveJobsAreLeasedToTheirWorker
  BY DEF ClusterIInv, IInv
<1>2. QED
  BY <1>1, ClusterInvariant, PTL

(* And work goes out in order and stays with its worker: while the          *)
(* coordinator runs, no message, late or lost, takes a lease from a worker  *)
(* that renews it, and none is served past an older job of its capability.  *)
THEOREM ClusterWorkStaysInOrder ==
    ASSUME "restart" \notin FaultKinds
    PROVE  ClusterSpec => LeaseLostOnlyForCause /\ OldestMatchingJobFirst
  BY ClusterImplementsScheduler, LeasesAreLostForCause, OldestFirst, PTL
     DEF ImplementsScheduler
-----------------------------------------------------------------------------
(***************************************************************************)
(* DEPARTURES                                                              *)
(*                                                                         *)
(* In this part nothing irregular happens but that processes stop and      *)
(* crash, whenever they do and with whatever requests under way: the       *)
(* scheduler and the processes that are up then agree about who executes   *)
(* what, so no job is executed by two of them at once, and a job is handed *)
(* out again only for a departure.                                         *)
(*                                                                         *)
(* The invariant has three parts.  OrderIInv: identifiers, requests and    *)
(* jobs are not mixed up.  AllRegular: what a process that is up knows is  *)
(* so.  PaidFor: who may yet be handed a job for a process that has gone.  *)
(***************************************************************************)

(* The identifiers that a process, its threads and its requests know.       *)
Uses(p) ==
    {w \in Worker : \/ reg[p] = w
                    \/ \E t \in ClaimThread : t[1] = p /\ slot[t].worker = w
                    \/ \E m \in net : m.thread[1] = p /\ m.worker = w}

IdsAreUnique == \A p, q \in Process : p # q => Uses(p) \cap Uses(q) = {}

(* What a thread that is at s waits for.                                    *)
ClaimExpects(s, m) ==
    \/ s.at = "registering" /\ m.kind \in {"register", "reply"} /\ m.jobs = {}
    \/ s.at = "claiming" /\ (m.kind = "reply" \/ (m.kind = "claim" /\ m.jobs = {}))
    \/ /\ s.at = "completing"
       /\ \/ m.kind = "complete" /\ m.jobs = s.jobs
          \/ m.kind = "reply" /\ m.jobs = {}

Expected(m) ==
    LET p == m.thread[1] IN
    /\ up[p] # "down"
    /\ m.thread \in ClaimThread => ClaimExpects(slot[m.thread], m)
    /\ m.thread = BeatThread(p) => beat[p] = "sent" /\ m.kind \in {"heartbeat", "reply"}
    /\ m.thread = MainThread(p) => up[p] = "leaving" /\ m.kind \in {"unregister", "reply"}

(* A thread has one request under way, or its reply; only those of a        *)
(* process that is gone have nobody listening.                              *)
OneRequestEach ==
    /\ \A m, n \in net : m.thread = n.thread => m = n
    /\ \A m \in net : /\ m.heard => Expected(m)
                      /\ ~m.heard => up[m.thread[1]] = "down"
    /\ \A p \in Process : up[p] = "down" =>
          /\ beat[p] # "sent"
          /\ \A t \in ClaimThread : t[1] = p => slot[t].at = "idle"

(* A claim brings one job.                                                  *)
OneJobEach ==
    /\ \A t \in ClaimThread : \A i, j \in slot[t].jobs : i = j
    /\ \A m \in net : m.kind # "heartbeat" => \A i, j \in m.jobs : i = j

OrderIInv == IdsAreUnique /\ OneRequestEach /\ OneJobEach

OnlyDepartures == FaultKinds \subseteq {"stop", "crash"}

LEMMA ThreadNames ==
    /\ \A p \in Process : \A c \in Serves[p] :
          <<p, c>> \in ClaimThread /\ <<p, c>>[1] = p /\ <<p, c>>[2] = c
    /\ \A t \in ClaimThread : /\ t[1] \in Process /\ t[2] \in Serves[t[1]]
                              /\ t = <<t[1], t[2]>>
    /\ \A p \in Process : /\ BeatThread(p)[1] = p /\ BeatThread(p) \notin ClaimThread
                          /\ MainThread(p)[1] = p /\ MainThread(p) \notin ClaimThread
    /\ \A p, q \in Process : BeatThread(p) # MainThread(q)
    /\ \A t \in Thread : /\ t[1] \in Process
                         /\ \/ t \in ClaimThread
                            \/ t = BeatThread(t[1])
                            \/ t = MainThread(t[1])
<1>1. \A p \in Process : \A c \in Serves[p] :
          <<p, c>> \in ClaimThread /\ <<p, c>>[1] = p /\ <<p, c>>[2] = c
  BY DEF ClaimThread
<1>2. \A t \in ClaimThread : /\ t[1] \in Process /\ t[2] \in Serves[t[1]]
                             /\ t = <<t[1], t[2]>>
  BY DEF ClaimThread
<1>3. \A p \in Process : "heartbeat" \notin Serves[p] /\ "main" \notin Serves[p]
  BY ClusterAssumption
<1>4. \A p \in Process : /\ BeatThread(p)[1] = p /\ BeatThread(p)[2] = "heartbeat"
                         /\ MainThread(p)[1] = p /\ MainThread(p)[2] = "main"
  BY DEF BeatThread, MainThread
<1>5. \A p \in Process : BeatThread(p) \notin ClaimThread /\ MainThread(p) \notin ClaimThread
  BY <1>2, <1>3, <1>4
<1>6. \A p, q \in Process : BeatThread(p) # MainThread(q)
  BY <1>4
<1>7. ASSUME NEW t \in Thread
      PROVE  /\ t[1] \in Process
             /\ t \in ClaimThread \/ t = BeatThread(t[1]) \/ t = MainThread(t[1])
  <2>1. \/ t \in ClaimThread \/ \E p \in Process : t = BeatThread(p)
        \/ \E p \in Process : t = MainThread(p)
    BY DEF Thread
  <2>2. QED
    BY <1>2, <1>4, <2>1
<1>8. QED
  BY <1>1, <1>2, <1>4, <1>5, <1>6, <1>7

LEMMA Fields ==
    /\ \A kind, t, w, J, word :
          LET m == Request(kind, t, w, J, word) IN
          /\ m.kind = kind /\ m.thread = t /\ m.worker = w /\ m.jobs = J /\ m.word = word
          /\ m.heard
    /\ \A m \in Message :
          /\ Unheard(m).kind = m.kind /\ Unheard(m).thread = m.thread
          /\ Unheard(m).worker = m.worker /\ Unheard(m).jobs = m.jobs
          /\ ~Unheard(m).heard /\ Unheard(m).word = m.word
<1>1. \A kind, t, w, J, word :
          LET m == Request(kind, t, w, J, word) IN
          /\ m.kind = kind /\ m.thread = t /\ m.worker = w /\ m.jobs = J /\ m.word = word
          /\ m.heard
  BY DEF Request
<1>2. ASSUME NEW m \in Message
      PROVE  /\ Unheard(m).kind = m.kind /\ Unheard(m).thread = m.thread
             /\ Unheard(m).worker = m.worker /\ Unheard(m).jobs = m.jobs
             /\ ~Unheard(m).heard /\ Unheard(m).word = m.word
  BY DEF Unheard, Message
<1>3. QED
  BY <1>1, <1>2

LEMMA NetFields ==
    ASSUME NetOK, NEW m \in net
    PROVE  /\ m \in Message /\ m.thread \in Thread /\ m.jobs \in SUBSET Job
           /\ m.worker \in Worker \cup {NoWorker} /\ m.heard \in BOOLEAN
           /\ m.thread[1] \in Process
BY ThreadNames DEF NetOK, WellFormed, Message

-----------------------------------------------------------------------------
(* One thread goes on: F holds the identifiers it may learn from the        *)
(* coordinator.                                                             *)
ThreadMoves(t, F) ==
    LET p == t[1] IN
    /\ \A u \in ClaimThread : u # t => slot'[u] = slot[u]
    /\ \A q \in Process : q # p => reg'[q] = reg[q] /\ beat'[q] = beat[q] /\ up'[q] = up[q]
    /\ t # BeatThread(p) => beat'[p] = beat[p]
    /\ t # MainThread(p) => up'[p] = up[p]
    /\ up[p] # "down" /\ up'[p] # "down"
    /\ reg'[p] \in {reg[p], NoWorker} \cup Uses(p)
    /\ t \in ClaimThread => /\ slot'[t].worker \in {NoWorker} \cup Uses(p)
                            /\ \A i, j \in slot'[t].jobs : i = j
    /\ \A n \in net' : n.thread # t => n \in net
    /\ \A n, k \in net' : n.thread = t /\ k.thread = t => n = k
    /\ \A n \in net' : n.thread = t =>
          /\ n.heard /\ n.worker \in {NoWorker} \cup Uses(p) \cup F
          /\ Expected(n)'
          /\ n.kind # "heartbeat" => \A i, j \in n.jobs : i = j

LEMMA OneThreadMoves ==
    ASSUME NetOK, NetOK', OrderIInv, NEW t \in Thread, NEW F, ThreadMoves(t, F),
           \A q \in Process : Uses(q) \cap F = {}
    PROVE  OrderIInv'
<1> DEFINE p == t[1]
<1>1. p \in Process
  BY ThreadNames
<1>2. /\ \A u \in ClaimThread : u # t => slot'[u] = slot[u]
      /\ \A q \in Process : q # p => reg'[q] = reg[q] /\ beat'[q] = beat[q] /\ up'[q] = up[q]
      /\ t # BeatThread(p) => beat'[p] = beat[p]
      /\ t # MainThread(p) => up'[p] = up[p]
      /\ up[p] # "down" /\ up'[p] # "down"
  BY DEF ThreadMoves
<1>3. /\ reg'[p] \in {reg[p], NoWorker} \cup Uses(p)
      /\ t \in ClaimThread => /\ slot'[t].worker \in {NoWorker} \cup Uses(p)
                              /\ \A i, j \in slot'[t].jobs : i = j
  BY DEF ThreadMoves
<1>4. /\ \A n \in net' : n.thread # t => n \in net
      /\ \A n, k \in net' : n.thread = t /\ k.thread = t => n = k
      /\ \A n \in net' : n.thread = t =>
            /\ n.heard /\ n.worker \in {NoWorker} \cup Uses(p) \cup F
            /\ Expected(n)'
            /\ n.kind # "heartbeat" => \A i, j \in n.jobs : i = j
  BY DEF ThreadMoves
<1> HIDE DEF p
<1>5. ASSUME NEW q \in Process, NEW w \in Uses(q)'
      PROVE  w \in Uses(q) \/ (q = p /\ w \in F)
  <2>1. w \in Worker /\ w # NoWorker
    BY <1>5, SchedulerAssumption DEF Uses
  <2>2. CASE reg'[q] = w
    BY <1>2, <1>3, <2>1, <2>2 DEF Uses
  <2>3. ASSUME NEW u \in ClaimThread, u[1] = q, slot'[u].worker = w
        PROVE  w \in Uses(q)
    BY <1>2, <1>3, <2>1, <2>3 DEF Uses, p
  <2>4. ASSUME NEW n \in net', n.thread[1] = q, n.worker = w
        PROVE  w \in Uses(q) \/ (q = p /\ w \in F)
    BY <1>4, <2>1, <2>4 DEF Uses, p
  <2>5. QED
    BY <1>5, <2>2, <2>3, <2>4 DEF Uses
<1>6. IdsAreUnique'
  <2>1. ASSUME NEW q \in Process, NEW r \in Process, q # r, NEW w,
               w \in Uses(q)', w \in Uses(r)'
        PROVE  FALSE
    <3>1. w \in Uses(q) \/ (q = p /\ w \in F)
      BY <1>5, <2>1
    <3>2. w \in Uses(r) \/ (r = p /\ w \in F)
      BY <1>5, <2>1
    <3>3. QED
      BY <2>1, <3>1, <3>2 DEF OrderIInv, IdsAreUnique
  <2>2. QED
    BY <2>1 DEF IdsAreUnique
<1>7. OneRequestEach'
  <2>1. \A m, n \in net' : m.thread = n.thread => m = n
    BY <1>4 DEF OrderIInv, OneRequestEach
  <2>2. ASSUME NEW m \in net', m.heard PROVE Expected(m)'
    <3>1. CASE m.thread = t
      BY <1>4, <3>1
    <3>2. CASE m.thread # t
      <4>1. m \in net /\ Expected(m)
        BY <1>4, <2>2, <3>2 DEF OrderIInv, OneRequestEach
      <4>2. m.thread[1] \in Process /\ m.thread \in Thread
        BY <4>1, NetFields
      <4> DEFINE q == m.thread[1]
      <4>3. up'[q] # "down"
        BY <1>2, <4>1, <4>2 DEF Expected
      <4>4. m.thread \in ClaimThread => ClaimExpects(slot'[m.thread], m)
        BY <1>2, <3>2, <4>1 DEF Expected
      <4>5. m.thread = BeatThread(q) => beat'[q] = "sent" /\ m.kind \in {"heartbeat", "reply"}
        BY <1>2, <3>2, <4>1, <4>2 DEF Expected
      <4>6. m.thread = MainThread(q)
               => up'[q] = "leaving" /\ m.kind \in {"unregister", "reply"}
        BY <1>2, <3>2, <4>1, <4>2 DEF Expected
      <4>7. QED
        BY <4>3, <4>4, <4>5, <4>6 DEF Expected, ClaimExpects
    <3>3. QED
      BY <3>1, <3>2
  <2>3. ASSUME NEW m \in net', ~m.heard PROVE up'[m.thread[1]] = "down"
    <3>1. m \in net /\ up[m.thread[1]] = "down"
      BY <1>4, <2>3 DEF OrderIInv, OneRequestEach
    <3>2. m.thread[1] \in Process
      BY <3>1, NetFields
    <3>3. QED
      BY <1>2, <3>1, <3>2
  <2>4. ASSUME NEW q \in Process, up'[q] = "down", NEW u \in ClaimThread, u[1] = q
        PROVE  slot'[u].at = "idle"
    <3>1. q # p /\ u # t /\ up[q] = "down"
      BY <1>2, <2>4 DEF p
    <3>2. QED
      BY <1>2, <2>4, <3>1 DEF OrderIInv, OneRequestEach
  <2>5. ASSUME NEW q \in Process, up'[q] = "down" PROVE beat'[q] # "sent"
    BY <1>2, <2>5 DEF OrderIInv, OneRequestEach
  <2>6. QED
    BY <2>1, <2>2, <2>3, <2>4, <2>5 DEF OneRequestEach
<1>8. OneJobEach'
  BY <1>2, <1>3, <1>4 DEF OrderIInv, OneJobEach
<1>9. QED
  BY <1>6, <1>7, <1>8 DEF OrderIInv

(* The requests of a process that is not gone are the ones its threads      *)
(* wait for.                                                                *)
LEMMA RequestsAreExpected ==
    ASSUME NetOK, OrderIInv, NEW m \in net, up[m.thread[1]] # "down"
    PROVE  m.heard /\ Expected(m)
<1>1. m.heard \in BOOLEAN
  BY NetFields
<1>2. QED
  BY <1>1 DEF OrderIInv, OneRequestEach

LEMMA ClaimThreadMoves ==
    ASSUME ClusterIInv, OrderIInv, NEW p \in Process, NEW c \in Serves[p],
           ClaimThreadStep(p, c)
    PROVE  ThreadMoves(<<p, c>>, {})
<1> DEFINE t == <<p, c>>
<1>1. /\ t \in ClaimThread /\ t[1] = p /\ t[2] = c /\ t # BeatThread(p) /\ t # MainThread(p)
  BY ThreadNames
<1>2. /\ slot \in [ClaimThread -> Slot] /\ reg \in [Process -> Worker \cup {NoWorker}]
  BY DEF ClusterIInv, ProcessesOK
<1>3. NetOK
  BY DEF ClusterIInv
<1>4. slot[t].at # "idle" => up[p] # "down"
  BY <1>1 DEF OrderIInv, OneRequestEach
<1>5. ASSUME up[p] # "down", NEW n \in net, n.thread = t
      PROVE  n.heard /\ ClaimExpects(slot[t], n) /\ n.worker \in {NoWorker} \cup Uses(p)
  <2>1. Expected(n) /\ n.heard
    BY <1>1, <1>3, <1>5, RequestsAreExpected
  <2>2. n.worker \in {NoWorker} \cup Uses(p)
    BY <1>1, <1>3, <1>5, NetFields DEF Uses
  <2>3. QED
    BY <1>1, <1>5, <2>1, <2>2 DEF Expected
<1>6. /\ reg[p] \in {NoWorker} \cup Uses(p) /\ slot[t].worker \in {NoWorker} \cup Uses(p)
      /\ \A i, j \in slot[t].jobs : i = j
  BY <1>1, <1>2 DEF Uses, OrderIInv, OneJobEach, Slot
<1>7. \A n, k \in net : n.thread = k.thread => n = k
  BY DEF OrderIInv, OneRequestEach
<1>8. \A n \in net : n.kind # "heartbeat" => \A i, j \in n.jobs : i = j
  BY DEF OrderIInv, OneJobEach
<1>9. \A kind, w, J, word :
         LET m == Request(kind, t, w, J, word) IN
         /\ m.kind = kind /\ m.thread = t /\ m.worker = w /\ m.jobs = J /\ m.heard
  BY Fields
<1> HIDE DEF t
(* It is enough to know what becomes of the slot and the request.           *)
<1>10. SUFFICES
         /\ \A u \in ClaimThread : u # t => slot'[u] = slot[u]
         /\ beat' = beat /\ up' = up /\ up[p] # "down"
         /\ \A q \in Process : q # p => reg'[q] = reg[q]
         /\ reg'[p] \in {reg[p], NoWorker} \cup Uses(p)
         /\ slot'[t].worker \in {NoWorker} \cup Uses(p) /\ \A i, j \in slot'[t].jobs : i = j
         /\ \A n \in net' : n.thread # t => n \in net
         /\ \A n, k \in net' : n.thread = t /\ k.thread = t => n = k
         /\ \A n \in net' : n.thread = t =>
               /\ n.heard /\ n.worker \in {NoWorker} \cup Uses(p)
               /\ ClaimExpects(slot'[t], n)
               /\ \A i, j \in n.jobs : i = j
  <2>1. ASSUME NEW n, n.thread = t, up' = up, up[p] # "down", ClaimExpects(slot'[t], n)
        PROVE  Expected(n)'
    BY <1>1, <2>1 DEF Expected, ClaimExpects
  <2>2. QED
    BY <1>1, <1>10, <2>1 DEF ThreadMoves, t
<1>20. ASSUME NEW n, n.thread = t, n.heard, n.worker \in {NoWorker} \cup Uses(p),
              ClaimExpects(slot'[t], n), \A i, j \in n.jobs : i = j,
              \A k \in net' : k = n \/ (k \in net /\ k.thread # t)
       PROVE  /\ \A k \in net' : k.thread # t => k \in net
              /\ \A k, l \in net' : k.thread = t /\ l.thread = t => k = l
              /\ \A k \in net' : k.thread = t =>
                    /\ k.heard /\ k.worker \in {NoWorker} \cup Uses(p)
                    /\ ClaimExpects(slot'[t], k)
                    /\ \A i, j \in k.jobs : i = j
  BY <1>20
<1>11. CASE SendRegister(p, c)
  <2>1. /\ up[p] = "up" /\ slot[t].at \in {"idle", "retrying"}
        /\ slot' = [slot EXCEPT ![t].at = "registering"]
        /\ net' = net \cup {Request("register", t, NoWorker, {}, "")}
        /\ UNCHANGED <<reg, beat, up>>
    BY <1>11 DEF SendRegister, t
  <2>2. slot'[t].at = "registering" /\ slot'[t].worker = slot[t].worker
        /\ slot'[t].jobs = slot[t].jobs
        /\ \A u \in ClaimThread : u # t => slot'[u] = slot[u]
    BY <1>1, <1>2, <2>1 DEF Slot
  <2>3. \A n \in net : n.thread # t
    BY <1>5, <2>1 DEF ClaimExpects
  <2>new. PICK n : n = Request("register", t, NoWorker, {}, "")
    OBVIOUS
  <2>4. /\ n.kind = "register" /\ n.thread = t /\ n.worker = NoWorker /\ n.heard
        /\ \A i, j \in n.jobs : i = j
        /\ ClaimExpects(slot'[t], n)
        /\ \A k \in net' : k \in net \/ k = n
    BY <2>new, <2>1, <2>2 DEF ClaimExpects, Request
  <2>5. \A k \in net' : k = n \/ (k \in net /\ k.thread # t)
    BY <2>3, <2>4
  <2>6. n.worker \in {NoWorker} \cup Uses(p)
    BY <1>6, <2>4
  <2>7. /\ \A k \in net' : k.thread # t => k \in net
        /\ \A k, l \in net' : k.thread = t /\ l.thread = t => k = l
        /\ \A k \in net' : k.thread = t =>
              /\ k.heard /\ k.worker \in {NoWorker} \cup Uses(p)
              /\ ClaimExpects(slot'[t], k)
              /\ \A i, j \in k.jobs : i = j
    BY <1>20, <2>4, <2>5, <2>6
  <2>8. /\ slot'[t].worker \in {NoWorker} \cup Uses(p)
        /\ \A i, j \in slot'[t].jobs : i = j
    BY <1>6, <2>2
  <2>9. QED
    BY <2>1, <2>2, <2>7, <2>8
<1>12. CASE Registered(p, c)
  <2>1. PICK m \in RepliesTo(t) :
             /\ slot[t].at = "registering"
             /\ reg' = [reg EXCEPT ![p] = m.worker]
             /\ net' = (net \ {m}) \cup {Request("claim", t, m.worker, {}, "")}
             /\ slot' = [slot EXCEPT ![t].at = "claiming"]
             /\ UNCHANGED <<beat, up>>
    BY <1>12 DEF Registered, t
  <2>2. slot'[t].at = "claiming" /\ slot'[t].worker = slot[t].worker
        /\ slot'[t].jobs = slot[t].jobs
        /\ \A u \in ClaimThread : u # t => slot'[u] = slot[u]
    BY <1>1, <1>2, <2>1 DEF Slot
  <2>3. m \in net /\ m.thread = t /\ m.worker \in {NoWorker} \cup Uses(p)
    BY <1>4, <1>5, <2>1 DEF RepliesTo
  <2>4. reg'[p] = m.worker /\ \A q \in Process : q # p => reg'[q] = reg[q]
    BY <1>2, <2>1
  <2>new. PICK n : n = Request("claim", t, m.worker, {}, "")
    OBVIOUS
  <2>5. /\ n.kind = "claim" /\ n.thread = t /\ n.worker = m.worker /\ n.heard
        /\ \A i, j \in n.jobs : i = j
        /\ ClaimExpects(slot'[t], n)
        /\ \A k \in net' : k \in net \/ k = n
    BY <2>new, <2>1, <2>2 DEF ClaimExpects, Request
  <2>6. \A k \in net' : k = n \/ (k \in net \ {m})
    BY <2>1, <2>new
  <2>7. \A k \in net' : k = n \/ (k \in net /\ k.thread # t)
    BY <1>7, <2>3, <2>6
  <2>8. up[p] # "down" /\ n.worker \in {NoWorker} \cup Uses(p)
    BY <1>4, <2>1, <2>3, <2>5
  <2>9. /\ \A k \in net' : k.thread # t => k \in net
        /\ \A k, l \in net' : k.thread = t /\ l.thread = t => k = l
        /\ \A k \in net' : k.thread = t =>
              /\ k.heard /\ k.worker \in {NoWorker} \cup Uses(p)
              /\ ClaimExpects(slot'[t], k)
              /\ \A i, j \in k.jobs : i = j
    BY <1>20, <2>5, <2>7, <2>8
  <2>10. /\ slot'[t].worker \in {NoWorker} \cup Uses(p)
         /\ \A i, j \in slot'[t].jobs : i = j
    BY <1>6, <2>2
  <2>11. QED
    BY <2>1, <2>2, <2>3, <2>4, <2>8, <2>9, <2>10
<1>13. CASE SendClaim(p, c)
  <2>1. /\ up[p] = "up" /\ slot[t].at = "idle"
        /\ slot' = [slot EXCEPT ![t].at = "claiming"]
        /\ net' = net \cup {Request("claim", t, reg[p], {}, "")}
        /\ UNCHANGED <<reg, beat, up>>
    BY <1>13 DEF SendClaim, t
  <2>2. slot'[t].at = "claiming" /\ slot'[t].worker = slot[t].worker
        /\ slot'[t].jobs = slot[t].jobs
        /\ \A u \in ClaimThread : u # t => slot'[u] = slot[u]
    BY <1>1, <1>2, <2>1 DEF Slot
  <2>3. \A n \in net : n.thread # t
    BY <1>5, <2>1 DEF ClaimExpects
  <2>new. PICK n : n = Request("claim", t, reg[p], {}, "")
    OBVIOUS
  <2>4. /\ n.kind = "claim" /\ n.thread = t /\ n.worker = reg[p] /\ n.heard
        /\ \A i, j \in n.jobs : i = j
        /\ ClaimExpects(slot'[t], n)
        /\ \A k \in net' : k \in net \/ k = n
    BY <2>new, <2>1, <2>2 DEF ClaimExpects, Request
  <2>5. \A k \in net' : k = n \/ (k \in net /\ k.thread # t)
    BY <2>3, <2>4
  <2>6. n.worker \in {NoWorker} \cup Uses(p)
    BY <1>6, <2>4
  <2>7. /\ \A k \in net' : k.thread # t => k \in net
        /\ \A k, l \in net' : k.thread = t /\ l.thread = t => k = l
        /\ \A k \in net' : k.thread = t =>
              /\ k.heard /\ k.worker \in {NoWorker} \cup Uses(p)
              /\ ClaimExpects(slot'[t], k)
              /\ \A i, j \in k.jobs : i = j
    BY <1>20, <2>4, <2>5, <2>6
  <2>8. /\ slot'[t].worker \in {NoWorker} \cup Uses(p)
        /\ \A i, j \in slot'[t].jobs : i = j
    BY <1>6, <2>2
  <2>9. QED
    BY <2>1, <2>2, <2>7, <2>8
<1>14. CASE ClaimReturns(p, c)
  <2>1. PICK m \in RepliesTo(t) :
             /\ slot[t].at = "claiming"
             /\ reg' = IF m.word = "gone" THEN Forgotten(p) ELSE reg
             /\ slot' = [slot EXCEPT ![t] = AfterClaim(m)]
             /\ net' = net \ {m}
             /\ UNCHANGED <<beat, up>>
    BY <1>14 DEF ClaimReturns, t
  <2>2. /\ m \in net /\ m.thread = t /\ m.worker \in {NoWorker} \cup Uses(p)
        /\ \A i, j \in m.jobs : i = j
    BY <1>4, <1>5, <1>8, <2>1 DEF RepliesTo
  <2>3. slot'[t] = AfterClaim(m) /\ \A u \in ClaimThread : u # t => slot'[u] = slot[u]
    BY <1>1, <1>2, <2>1
  <2>4. /\ AfterClaim(m).worker \in {NoWorker} \cup Uses(p)
        /\ \A i, j \in AfterClaim(m).jobs : i = j
    BY <2>2 DEF AfterClaim, IdleSlot
  <2>5. reg'[p] \in {reg[p], NoWorker} /\ \A q \in Process : q # p => reg'[q] = reg[q]
    BY <1>2, <2>1 DEF Forgotten
  <2>6. \A n \in net' : n \in net /\ n.thread # t
    BY <1>7, <2>1, <2>2
  <2>7. QED
    BY <1>4, <2>1, <2>3, <2>4, <2>5, <2>6
<1>15. CASE HandlerReturns(p, c)
  <2>1. PICK o \in Terminal :
             /\ slot[t].at = "running"
             /\ slot' = [slot EXCEPT ![t].at = "completing"]
             /\ net' = net \cup {Request("complete", t, slot[t].worker, slot[t].jobs, o)}
             /\ UNCHANGED <<reg, beat, up>>
    BY <1>15 DEF HandlerReturns, t
  <2>2. slot'[t].at = "completing" /\ slot'[t].worker = slot[t].worker
        /\ slot'[t].jobs = slot[t].jobs
        /\ \A u \in ClaimThread : u # t => slot'[u] = slot[u]
    BY <1>1, <1>2, <2>1 DEF Slot
  <2>3. \A n \in net : n.thread # t
    BY <1>4, <1>5, <2>1 DEF ClaimExpects
  <2>4. QED
    BY <1>1, <1>2, <1>4, <1>6, <1>9, <2>1, <2>2, <2>3 DEF ClaimExpects
<1>16. CASE Completed(p, c)
  <2>1. PICK m \in RepliesTo(t) :
             /\ slot[t].at = "completing"
             /\ reg' = IF m.word = "gone" THEN Forgotten(p) ELSE reg
             /\ slot' = [slot EXCEPT ![t] = IdleSlot]
             /\ net' = net \ {m}
             /\ UNCHANGED <<beat, up>>
    BY <1>16 DEF Completed, t
  <2>2. m \in net /\ m.thread = t
    BY <2>1 DEF RepliesTo
  <2>3. slot'[t] = IdleSlot /\ \A u \in ClaimThread : u # t => slot'[u] = slot[u]
    BY <1>1, <1>2, <2>1
  <2>4. reg'[p] \in {reg[p], NoWorker} /\ \A q \in Process : q # p => reg'[q] = reg[q]
    BY <1>2, <2>1 DEF Forgotten
  <2>5. \A n \in net' : n \in net /\ n.thread # t
    BY <1>7, <2>1, <2>2
  <2>6. QED
    BY <1>4, <2>1, <2>3, <2>4, <2>5 DEF IdleSlot
<1>17. QED
  BY <1>11, <1>12, <1>13, <1>14, <1>15, <1>16 DEF ClaimThreadStep

LEMMA BeatThreadMoves ==
    ASSUME ClusterIInv, OrderIInv, NEW p \in Process, SendBeat(p) \/ BeatReturns(p)
    PROVE  ThreadMoves(BeatThread(p), {})
<1> DEFINE t == BeatThread(p)
<1>1. /\ t \in Thread /\ t[1] = p /\ t \notin ClaimThread /\ t # MainThread(p) /\ t = BeatThread(p)
  BY Threads, ThreadNames
<1>2. /\ beat \in [Process -> {"due", "sent", "beaten"}] /\ reg \in [Process -> Worker \cup {NoWorker}]
      /\ NetOK
  BY DEF ClusterIInv, ProcessesOK
<1>3. \A n, k \in net : n.thread = k.thread => n = k
  BY DEF OrderIInv, OneRequestEach
<1>4. reg[p] \in {NoWorker} \cup Uses(p)
  BY <1>2 DEF Uses
<1> HIDE DEF t
<1>5. CASE SendBeat(p)
  <2>1. /\ up[p] = "up" /\ beat[p] = "due" /\ beat' = [beat EXCEPT ![p] = "sent"]
        /\ net' = net \cup {Request("heartbeat", t, reg[p], ActiveJobs(p), "")}
        /\ UNCHANGED <<reg, slot, up>>
    BY <1>1, <1>5 DEF SendBeat
  <2>new. PICK n : n = Request("heartbeat", t, reg[p], ActiveJobs(p), "")
    OBVIOUS
  <2>2. n.kind = "heartbeat" /\ n.thread = t /\ n.worker = reg[p] /\ n.heard
        /\ \A k \in net' : k \in net \/ k = n
    BY <2>new, <2>1 DEF Request
  <2>3. \A k \in net : k.thread # t
    BY <1>1, <1>2, <2>1, RequestsAreExpected DEF Expected
  <2>4. beat'[p] = "sent" /\ \A q \in Process : q # p => beat'[q] = beat[q]
    BY <1>2, <2>1
  <2>5. Expected(n)'
    BY <1>1, <2>1, <2>2, <2>4 DEF Expected
  <2>6. QED
    BY <1>1, <1>4, <2>1, <2>2, <2>3, <2>4, <2>5 DEF ThreadMoves, t
<1>6. CASE BeatReturns(p)
  <2>1. PICK m \in RepliesTo(t) :
             /\ beat[p] = "sent" /\ beat' = [beat EXCEPT ![p] = "beaten"]
             /\ reg' = IF m.word = "gone" THEN Forgotten(p) ELSE reg
             /\ net' = net \ {m}
             /\ UNCHANGED <<slot, up>>
    BY <1>1, <1>6 DEF BeatReturns
  <2>2. \A k \in net' : k \in net /\ k.thread # t
    BY <1>3, <2>1 DEF RepliesTo
  <2>3. \A q \in Process : q # p => beat'[q] = beat[q] /\ reg'[q] = reg[q]
    BY <1>2, <2>1 DEF Forgotten
  <2>4. reg'[p] \in {reg[p], NoWorker} /\ up[p] # "down"
    BY <1>2, <2>1 DEF Forgotten, OrderIInv, OneRequestEach
  <2>5. QED
    BY <1>1, <2>1, <2>2, <2>3, <2>4 DEF ThreadMoves, t
<1>7. QED
  BY <1>5, <1>6

LEMMA MainThreadMoves ==
    ASSUME ClusterIInv, OrderIInv, NEW p \in Process, Stop(p) \/ SendUnregister(p)
    PROVE  ThreadMoves(MainThread(p), {})
<1> DEFINE t == MainThread(p)
<1>1. /\ t \in Thread /\ t[1] = p /\ t \notin ClaimThread /\ t # BeatThread(p) /\ t = MainThread(p)
  BY Threads, ThreadNames
<1>2. /\ up \in [Process -> {"up", "stopping", "leaving", "down"}] /\ NetOK
      /\ reg \in [Process -> Worker \cup {NoWorker}]
  BY DEF ClusterIInv, ProcessesOK
<1>3. reg[p] \in {NoWorker} \cup Uses(p)
  BY <1>2 DEF Uses
<1> HIDE DEF t
<1>4. ASSUME up[p] \in {"up", "stopping"} PROVE \A k \in net : k.thread # t
  BY <1>1, <1>2, <1>4, RequestsAreExpected DEF Expected
<1>5. CASE Stop(p)
  <2>1. up[p] = "up" /\ up' = [up EXCEPT ![p] = "stopping"] /\ UNCHANGED <<reg, slot, beat, net>>
    BY <1>5 DEF Stop
  <2>2. up'[p] = "stopping" /\ \A q \in Process : q # p => up'[q] = up[q]
    BY <1>2, <2>1
  <2>3. QED
    BY <1>1, <1>4, <2>1, <2>2 DEF ThreadMoves, t
<1>6. CASE SendUnregister(p)
  <2>1. /\ up[p] = "stopping" /\ up' = [up EXCEPT ![p] = "leaving"]
        /\ net' = net \cup {Request("unregister", t, reg[p], {}, "")}
        /\ UNCHANGED <<reg, slot, beat>>
    BY <1>1, <1>6 DEF SendUnregister
  <2>new. PICK n : n = Request("unregister", t, reg[p], {}, "")
    OBVIOUS
  <2>2. /\ n.kind = "unregister" /\ n.thread = t /\ n.worker = reg[p] /\ n.heard
        /\ \A i, j \in n.jobs : i = j
        /\ \A k \in net' : k \in net \/ k = n
    BY <2>new, <2>1 DEF Request
  <2>3. up'[p] = "leaving" /\ \A q \in Process : q # p => up'[q] = up[q]
    BY <1>2, <2>1
  <2>4. Expected(n)'
    BY <1>1, <2>2, <2>3 DEF Expected
  <2>5. QED
    BY <1>1, <1>3, <1>4, <2>1, <2>2, <2>3, <2>4 DEF ThreadMoves, t
<1>7. QED
  BY <1>5, <1>6

(* The process is gone, and what its threads had sent has no listener.      *)
LEMMA GoneKeepsOrder ==
    ASSUME ClusterIInv, NetOK', OrderIInv, NEW p \in Process, Gone(p)
    PROVE  OrderIInv'
<1>1. /\ NetOK /\ up \in [Process -> {"up", "stopping", "leaving", "down"}]
      /\ reg \in [Process -> Worker \cup {NoWorker}]
      /\ beat \in [Process -> {"due", "sent", "beaten"}]
  BY DEF ClusterIInv, ProcessesOK
<1>2. /\ up'[p] = "down" /\ reg'[p] = NoWorker /\ beat'[p] = "beaten"
      /\ \A q \in Process : q # p => up'[q] = up[q] /\ reg'[q] = reg[q] /\ beat'[q] = beat[q]
      /\ \A t \in ClaimThread : slot'[t] = IF t[1] = p THEN IdleSlot ELSE slot[t]
  BY <1>1 DEF Gone
<1>3. ASSUME NEW n \in net'
      PROVE  \/ n \in net /\ n.thread[1] # p
             \/ \E m \in net : /\ n = Unheard(m) /\ n.thread = m.thread /\ n.thread[1] = p
                              /\ n.worker = m.worker /\ n.jobs = m.jobs /\ n.kind = m.kind
                              /\ ~n.heard
  <2>1. CASE n \in net /\ n.thread[1] # p
    BY <2>1
  <2>2. CASE \E m \in net : n = Unheard(m) /\ m.thread[1] = p
    <3>1. PICK m \in net : n = Unheard(m) /\ m.thread[1] = p
      BY <2>2
    <3>2. m \in Message
      BY <1>1, NetFields
    <3>3. QED
      BY <3>1, <3>2, Fields
  <2>3. QED
    BY <2>1, <2>2 DEF Gone
<1>4. \A q \in Process : Uses(q)' \subseteq Uses(q)
  <2>1. ASSUME NEW q \in Process, NEW w \in Uses(q)' PROVE w \in Uses(q)
    <3>1. w \in Worker /\ w # NoWorker
      BY <2>1, SchedulerAssumption DEF Uses
    <3>2. CASE reg'[q] = w
      BY <1>2, <3>1, <3>2 DEF Uses
    <3>3. ASSUME NEW u \in ClaimThread, u[1] = q, slot'[u].worker = w PROVE w \in Uses(q)
      BY <1>2, <3>1, <3>3 DEF Uses, IdleSlot
    <3>4. ASSUME NEW n \in net', n.thread[1] = q, n.worker = w PROVE w \in Uses(q)
      BY <1>3, <3>1, <3>4 DEF Uses
    <3>5. QED
      BY <2>1, <3>2, <3>3, <3>4 DEF Uses
  <2>2. QED
    BY <2>1
<1>5. IdsAreUnique'
  BY <1>4 DEF OrderIInv, IdsAreUnique
<1>6. \A m, n \in net' : m.thread = n.thread => m = n
  BY <1>3 DEF OrderIInv, OneRequestEach
<1>7. ASSUME NEW m \in net', m.heard PROVE Expected(m)'
  <2>1. m \in net /\ m.thread[1] # p /\ Expected(m)
    BY <1>3, <1>7 DEF OrderIInv, OneRequestEach
  <2>2. m.thread[1] \in Process
    BY <1>1, <2>1, NetFields
  <2>3. QED
    BY <1>2, <2>1, <2>2 DEF Expected, ClaimExpects
<1>8. ASSUME NEW m \in net', ~m.heard PROVE up'[m.thread[1]] = "down"
  <2>1. CASE m.thread[1] = p
    BY <1>2, <2>1
  <2>2. CASE m.thread[1] # p
    <3>1. m \in net /\ up[m.thread[1]] = "down" /\ m.thread[1] \in Process
      BY <1>1, <1>3, <1>8, <2>2, NetFields DEF OrderIInv, OneRequestEach
    <3>2. QED
      BY <1>2, <2>2, <3>1
  <2>3. QED
    BY <2>1, <2>2
<1>9. ASSUME NEW q \in Process, up'[q] = "down"
      PROVE  beat'[q] # "sent" /\ \A t \in ClaimThread : t[1] = q => slot'[t].at = "idle"
  BY <1>2, <1>9 DEF OrderIInv, OneRequestEach, IdleSlot
<1>10. OneJobEach'
  <2>1. \A t \in ClaimThread : \A i, j \in slot'[t].jobs : i = j
    BY <1>2 DEF OrderIInv, OneJobEach, IdleSlot
  <2>2. \A m \in net' : m.kind # "heartbeat" => \A i, j \in m.jobs : i = j
    BY <1>3 DEF OrderIInv, OneJobEach
  <2>3. QED
    BY <2>1, <2>2 DEF OneJobEach
<1>11. QED
  BY <1>5, <1>6, <1>7, <1>8, <1>9, <1>10 DEF OrderIInv, OneRequestEach

(* Fewer requests are no disorder.                                          *)
LEMMA FewerKeepOrder ==
    ASSUME NetOK, OrderIInv, UNCHANGED processVars, net' \subseteq net
    PROVE  OrderIInv'
<1>1. reg' = reg /\ slot' = slot /\ beat' = beat /\ up' = up
  BY DEF processVars
<1>2. \A p \in Process : Uses(p)' \subseteq Uses(p)
  BY <1>1 DEF Uses
<1>3. IdsAreUnique'
  BY <1>2 DEF OrderIInv, IdsAreUnique
<1>4. \A m \in net' : Expected(m) => Expected(m)'
  BY <1>1 DEF Expected, ClaimExpects
<1>5. OneRequestEach'
  BY <1>1, <1>4 DEF OrderIInv, OneRequestEach
<1>6. OneJobEach'
  BY <1>1 DEF OrderIInv, OneJobEach
<1>7. QED
  BY <1>3, <1>5, <1>6 DEF OrderIInv

(* An answer goes to the thread that waits for it; v is the identifier it   *)
(* is about.                                                                *)
LEMMA AnswerKeepsOrder ==
    ASSUME ClusterIInv, NetOK', OrderIInv, UNCHANGED processVars,
           NEW m \in net, m.kind # "reply", NEW v, NEW J, NEW word,
           net' = Answered(m, v, J, word),
           v \in {NoWorker, m.worker} \/ \A q \in Process : v \notin Uses(q),
           J = {} \/ m.kind = "claim", \A i, j \in J : i = j
    PROVE  OrderIInv'
<1>1. reg' = reg /\ slot' = slot /\ beat' = beat /\ up' = up /\ NetOK
  BY DEF processVars, ClusterIInv
<1>2. CASE ~m.heard
  BY <1>1, <1>2, FewerKeepOrder DEF Answered
<1>3. CASE m.heard
  <2> DEFINE t == m.thread
             p == t[1]
             F == IF v \in {NoWorker, m.worker} THEN {} ELSE {v}
  <2>1. /\ t \in Thread /\ p \in Process /\ m.worker \in {NoWorker} \cup Uses(p)
        /\ Expected(m)
    BY <1>1, <1>3, NetFields DEF Uses, OrderIInv, OneRequestEach
  <2>2. PICK n : n = Request("reply", t, v, J, word)
    OBVIOUS
  <2>3. /\ n.kind = "reply" /\ n.thread = t /\ n.worker = v /\ n.jobs = J /\ n.heard
        /\ \A k \in net' : k = n \/ k \in net \ {m}
    BY <1>3, <2>2 DEF Request, Answered
  <2>4. \A k \in net \ {m} : k.thread # t
    BY DEF OrderIInv, OneRequestEach
  <2>5. t \in ClaimThread => ClaimExpects(slot[t], n)
    BY <2>1, <2>3 DEF Expected, ClaimExpects
  <2>6. Expected(n)'
    BY <1>1, <2>1, <2>3, <2>5 DEF Expected, ClaimExpects
  <2>7. up[p] # "down"
    BY <2>1 DEF Expected
  <2>8. /\ reg[p] \in {NoWorker} \cup Uses(p)
        /\ t \in ClaimThread => /\ slot[t].worker \in {NoWorker} \cup Uses(p)
                                /\ \A i, j \in slot[t].jobs : i = j
    <3>1. reg[p] \in {NoWorker} \cup Uses(p)
      BY <2>1 DEF Uses, ClusterIInv, ProcessesOK
    <3>2. t \in ClaimThread => slot[t].worker \in {NoWorker} \cup Uses(p)
      BY <2>1 DEF Uses, ClusterIInv, ProcessesOK, Slot
    <3>3. t \in ClaimThread => \A i, j \in slot[t].jobs : i = j
      BY DEF OrderIInv, OneJobEach
    <3>4. QED
      BY <3>1, <3>2, <3>3
  <2>9. n.worker \in {NoWorker} \cup Uses(p) \cup F
    BY <2>1, <2>3
  <2>10. \A q \in Process : Uses(q) \cap F = {}
    OBVIOUS
  <2> HIDE DEF F
  <2>11. ThreadMoves(t, F)
    <3>1. /\ \A k \in net' : k.thread # t => k \in net
          /\ \A k, l \in net' : k.thread = t /\ l.thread = t => k = l
          /\ \A k \in net' : k.thread = t => k = n
      BY <2>3, <2>4
    <3>2. \A k \in net' : k.thread = t =>
            /\ k.heard /\ k.worker \in {NoWorker} \cup Uses(p) \cup F
            /\ Expected(k)'
            /\ k.kind # "heartbeat" => \A i, j \in k.jobs : i = j
      BY <2>3, <2>6, <2>9, <3>1
    <3>3. QED
      BY <1>1, <2>7, <2>8, <3>1, <3>2 DEF ThreadMoves
  <2>12. QED
    BY <1>1, <2>1, <2>10, <2>11, OneThreadMoves
<1>4. QED
  BY <1>2, <1>3

LEMMA ServeKeepsOrder ==
    ASSUME ClusterIInv, NetOK', OrderIInv, NEW m \in net, Serve(m)
    PROVE  OrderIInv'
<1>1. UNCHANGED processVars /\ NetOK /\ m \in Message
  BY NetFields DEF Serve, ClusterIInv
<1>2. CASE ServeRegister(m)
  <2>1. PICK w \in Worker : FreshWorker(w) /\ net' = Answered(m, w, {}, "ok")
    BY <1>2 DEF ServeRegister
  <2>2. \A q \in Process : w \notin Uses(q)
    BY <2>1 DEF FreshWorker, Uses
  <2>3. m.kind # "reply"
    BY <1>2 DEF ServeRegister
  <2>4. QED
    BY <1>1, <2>1, <2>2, <2>3, AnswerKeepsOrder
<1>3. CASE ServeClaim(m)
  <2>1. m.kind = "claim"
    BY <1>3 DEF ServeClaim
  <2>2. CASE net' = net
    BY <1>1, <2>2, FewerKeepOrder
  <2>3. CASE \E word \in {"none", "gone"} : net' = Answered(m, NoWorker, {}, word)
    BY <1>1, <2>1, <2>3, AnswerKeepsOrder
  <2>4. CASE /\ ClaimJob(m.worker, m.thread[2])
             /\ net' = Answered(m, m.worker, {j \in Job : attempts'[j] # attempts[j]}, "ok")
    <3> DEFINE J == {j \in Job : attempts'[j] # attempts[j]}
    <3>1. \E k : attempts' = [attempts EXCEPT ![k] = @ + 1]
      BY <2>4 DEF ClaimJob
    <3>2. attempts \in [Job -> 0..20]
      BY DEF ClusterIInv, IInv, TypeOK
    <3>3. \A i, j \in J : i = j
      BY <3>1, <3>2
    <3> HIDE DEF J
    <3>4. net' = Answered(m, m.worker, J, "ok")
      BY <2>4 DEF J
    <3>5. QED
      BY <1>1, <2>1, <3>3, <3>4, AnswerKeepsOrder
  <2>5. QED
    BY <1>3, <2>2, <2>3, <2>4 DEF ServeClaim
<1>4. CASE ServeComplete(m)
  <2>1. m.kind = "complete" /\ \E word : net' = Answered(m, NoWorker, {}, word)
    BY <1>4 DEF ServeComplete
  <2>2. QED
    BY <1>1, <2>1, AnswerKeepsOrder
<1>5. CASE ServeHeartbeat(m)
  <2>1. m.kind = "heartbeat" /\ \E word : net' = Answered(m, NoWorker, {}, word)
    BY <1>5 DEF ServeHeartbeat
  <2>2. QED
    BY <1>1, <2>1, AnswerKeepsOrder
<1>6. CASE ServeUnregister(m)
  <2>1. m.kind = "unregister" /\ net' = Answered(m, NoWorker, {}, "ok")
    BY <1>6 DEF ServeUnregister
  <2>2. QED
    BY <1>1, <2>1, AnswerKeepsOrder
<1>7. QED
  BY <1>2, <1>3, <1>4, <1>5, <1>6 DEF Serve

LEMMA InitInOrder == ClusterInit => OrderIInv
<1>1. ASSUME ClusterInit PROVE \A p \in Process : Uses(p) = {}
  <2>1. \A p \in Process : reg[p] = NoWorker
    BY <1>1 DEF ClusterInit
  <2>2. \A t \in ClaimThread : slot[t].worker = NoWorker
    BY <1>1 DEF ClusterInit, IdleSlot
  <2>3. net = {}
    BY <1>1 DEF ClusterInit
  <2>4. QED
    BY <2>1, <2>2, <2>3, SchedulerAssumption DEF Uses
<1>2. QED
  BY <1>1 DEF ClusterInit, OrderIInv, IdsAreUnique, OneRequestEach, OneJobEach, IdleSlot

(* With departures alone no request is given up by a process that goes on,  *)
(* and the coordinator forgets nothing.                                     *)
LEMMA NoOtherFaults ==
    ASSUME OnlyDepartures
    PROVE  ~LateTick /\ ~Restart /\ \A m : ~Abandon(m)
BY DEF OnlyDepartures, LateTick, Restart, Abandon, Fault

LEMMA StepKeepsOrder ==
    ASSUME OnlyDepartures, ClusterIInv, ClusterIInv', OrderIInv, [ClusterNext]_clusterVars
    PROVE  OrderIInv'
<1>1. NetOK /\ NetOK'
  BY DEF ClusterIInv
<1>2. ASSUME NEW p \in Process, ProcessStep(p) PROVE OrderIInv'
  <2>1. ASSUME NEW c \in Serves[p], ClaimThreadStep(p, c) PROVE OrderIInv'
    <3>1. <<p, c>> \in Thread
      BY ThreadNames, Threads
    <3>2. QED
      BY <1>1, <2>1, <3>1, ClaimThreadMoves, OneThreadMoves
  <2>2. CASE SendBeat(p) \/ BeatReturns(p)
    BY <1>1, <2>2, Threads, BeatThreadMoves, OneThreadMoves
  <2>3. CASE Stop(p) \/ SendUnregister(p)
    BY <1>1, <2>3, Threads, MainThreadMoves, OneThreadMoves
  <2>4. CASE Exit(p) \/ Crash(p)
    BY <1>1, <2>4, GoneKeepsOrder DEF Exit, Crash
  <2>5. QED
    BY <1>2, <2>1, <2>2, <2>3, <2>4 DEF ProcessStep
<1>3. ASSUME NEW m \in net, Serve(m) PROVE OrderIInv'
  BY <1>1, <1>3, ServeKeepsOrder
<1>4. CASE \/ \E j \in Job : ClientSubmits(j)
           \/ ClientPolls \/ UNCHANGED clusterVars
  BY <1>1, <1>4, FewerKeepOrder DEF ClientSubmits, ClientPolls, clusterVars
<1>5. CASE RegularTick
  <2>1. /\ reg' = reg /\ slot' = slot /\ up' = up /\ net' = net
        /\ \A p \in Process : /\ beat'[p] = "sent" <=> beat[p] = "sent"
    BY <1>5 DEF RegularTick, Passing
  <2>2. \A p \in Process : Uses(p)' = Uses(p)
    BY <2>1 DEF Uses
  <2>3. \A m \in net : Expected(m) => Expected(m)'
    BY <1>1, <2>1, NetFields DEF Expected, ClaimExpects
  <2>4. OneRequestEach'
    BY <2>1, <2>3 DEF OrderIInv, OneRequestEach
  <2>5. QED
    BY <2>1, <2>2, <2>4 DEF OrderIInv, IdsAreUnique, OneJobEach
<1>6. QED
  BY <1>2, <1>3, <1>4, <1>5, NoOtherFaults DEF ClusterNext

-----------------------------------------------------------------------------
(* What is regular about a process that is up: p knows its worker record,   *)
(* which is never silent for longer than from one heartbeat to the next.    *)
Known(p) ==
    /\ reg[p] = NoWorker => beat[p] = "due"
    /\ reg[p] # NoWorker => /\ reg[p] \in live /\ silent[reg[p]] <= 1
                            /\ beat[p] = "beaten" => silent[reg[p]] = 0
    /\ \A c \in Serves[p] :
          LET s == slot[<<p, c>>] IN
          IF reg[p] = NoWorker THEN s.at \in {"idle", "registering"}
          ELSE s.at \notin {"registering", "retrying"}
    /\ \A c, d \in Serves[p] :
          slot[<<p, c>>].at = "registering" /\ slot[<<p, d>>].at = "registering" => c = d
    /\ \A c \in Serves[p] :
          slot[<<p, c>>].at \in {"running", "completing"} => slot[<<p, c>>].worker = reg[p]

(* Its requests go by that record and are not refused, and a reply to a     *)
(* registration names a record that has just been made.                     *)
WellAddressed(p, m) ==
    /\ m.kind \in {"claim", "complete", "heartbeat"} => m.worker = reg[p]
    /\ m.kind = "reply" =>
          /\ m.word # "gone"
          /\ m.word # "ok" => m.jobs = {}
          /\ m.thread = BeatThread(p) => silent[reg[p]] = 0
          /\ (m.thread \in ClaimThread /\ slot[m.thread].at = "registering") =>
                /\ m.worker \in live /\ silent[m.worker] = 0
                /\ \A j \in Job : owner[j] # m.worker
          /\ (m.thread \in ClaimThread /\ slot[m.thread].at = "claiming" /\ m.word = "ok")
                => m.worker = reg[p]

Addressed(p) == \A m \in net : m.thread[1] = p => WellAddressed(p, m)

(* Thread t runs job j, or a request of t or its reply is about j.          *)
Holds(t, j) ==
    \/ slot[t].at = "running" /\ j \in slot[t].jobs
    \/ \E m \in net : m.thread = t /\ j \in m.jobs

(* The lease of j was renewed in this tick: this tick's heartbeat has been  *)
(* served, or was sent when t had not yet got the job.                      *)
Renewed(t, j) ==
    \/ beat[t[1]] = "beaten"
    \/ /\ beat[t[1]] = "sent"
       /\ ~ \E m \in net : m.kind = "heartbeat" /\ m.thread = BeatThread(t[1]) /\ j \in m.jobs
    \/ \E m \in net : m.kind = "reply" /\ m.thread = t /\ j \in m.jobs

(* A job that a thread of p holds is leased to p, by a lease no older than  *)
(* a tick, ...                                                              *)
LeaseIsRenewed(p, j) ==
    \A c \in Serves[p] : Holds(<<p, c>>, j) =>
        /\ status[j] = "leased" /\ owner[j] = reg[p] /\ CapabilityOf[j] = c
        /\ lease[j] >= LeaseSeconds - 1
        /\ Renewed(<<p, c>>, j) => lease[j] = LeaseSeconds

(* ... and a job that is leased to p a thread of p holds.                   *)
LeasedIsHeld(p, j) ==
    status[j] = "leased" /\ owner[j] = reg[p] =>
        CapabilityOf[j] \in Serves[p] /\ Holds(<<p, CapabilityOf[j]>>, j)

WellHeld(p, j) == LeaseIsRenewed(p, j) /\ LeasedIsHeld(p, j)

Regular(p) == Known(p) /\ Addressed(p) /\ \A j \in Job : WellHeld(p, j)

AllRegular == \A p \in Process : up[p] = "up" => Regular(p)

-----------------------------------------------------------------------------
(* What a step of the scheduler keeps of a worker record v that is in use:  *)
(* the record, ...                                                          *)
KeptRecord(v) ==
    v \in live /\ silent[v] <= 1 => v \in live' /\ silent'[v] <= silent[v]

(* ... what it knows of job j: the lease, and that there is none.           *)
KeptJob(v, j) ==
    /\ (/\ v \in live /\ silent[v] <= 1
        /\ status[j] = "leased" /\ owner[j] = v /\ lease[j] > 0) =>
          status'[j] = "leased" /\ owner'[j] = v /\ lease'[j] >= lease[j]
    /\ owner'[j] = v => /\ owner[j] = v
                        /\ status'[j] = "leased" => status[j] = "leased"

Kept(v) == KeptRecord(v) /\ \A j \in Job : KeptJob(v, j)

(* A reap does not touch what is leased to a worker that was seen.          *)
LEMMA ReapKeepsOthers ==
    ASSUME IInv, NEW v \in Worker
    PROVE  /\ v \in live /\ silent[v] <= 1 =>
                 /\ v \in LiveAfterReap /\ SilentAfterReap[v] = silent[v]
                 /\ \A j \in Job : status[j] = "leased" /\ owner[j] = v /\ lease[j] > 0 =>
                       /\ j \notin Reaped
                       /\ StatusAfterRetry(Reaped)[j] = "leased"
                       /\ OwnerAfterRetry(Reaped)[j] = v
                       /\ LeaseAfterRetry(Reaped)[j] = lease[j]
           /\ \A j \in Job : OwnerAfterRetry(Reaped)[j] = v =>
                 /\ owner[j] = v
                 /\ StatusAfterRetry(Reaped)[j] = "leased" => status[j] = "leased"
<1>1. TypeOK /\ ActiveJobsAreLeasedToTheirWorker
  BY DEF IInv
<1>2. ASSUME v \in live, silent[v] <= 1
      PROVE  v \in LiveAfterReap /\ SilentAfterReap[v] = silent[v]
  BY <1>1, <1>2, SchedulerAssumption DEF LiveAfterReap, SilentAfterReap, TypeOK
<1>3. ASSUME v \in live, silent[v] <= 1,
             NEW j \in Job, status[j] = "leased", owner[j] = v, lease[j] > 0
      PROVE  j \notin Reaped
  <2>1. j \notin Expired
    BY <1>3 DEF Expired
  <2>2. ASSUME NEW w \in live \ LiveAfterReap PROVE j \notin active[w]
    <3>1. w # v /\ w \in Worker
      BY <1>1, <1>2, <1>3 DEF TypeOK
    <3>2. QED
      BY <1>1, <1>3, <3>1 DEF ActiveJobsAreLeasedToTheirWorker
  <2>3. QED
    BY <2>1, <2>2 DEF Reaped, Orphaned
<1>4. \A j \in Job : j \notin Reaped =>
         /\ StatusAfterRetry(Reaped)[j] = status[j]
         /\ OwnerAfterRetry(Reaped)[j] = owner[j]
         /\ LeaseAfterRetry(Reaped)[j] = lease[j]
  BY DEF StatusAfterRetry, OwnerAfterRetry, LeaseAfterRetry, Retried
<1>5. \A j \in Job : OwnerAfterRetry(Reaped)[j] = v => j \notin Reaped
  BY SchedulerAssumption DEF OwnerAfterRetry
<1>6. QED
  BY <1>2, <1>3, <1>4, <1>5

LEMMA SeenKeeps ==
    ASSUME IInv, NEW v \in Worker,
           \/ Reap
           \/ \E w \in Worker : \/ \E J : Heartbeat(w, J)
                                \/ \E c : ClaimNothing(w, c)
                                \/ w # v /\ \E c : ClaimJob(w, c)
    PROVE  Kept(v)
<1>1. TypeOK
  BY DEF IInv
<1>2. CASE Reap
  <2>1. /\ status' = StatusAfterRetry(Reaped) /\ owner' = OwnerAfterRetry(Reaped)
        /\ lease' = LeaseAfterRetry(Reaped)
        /\ live' = LiveAfterReap /\ silent' = SilentAfterReap
    BY <1>2 DEF Reap
  <2>2. QED
    BY <1>1, <2>1, ReapKeepsOthers DEF Kept, KeptRecord, KeptJob, TypeOK
<1>3. ASSUME NEW w \in Worker, NEW J, Heartbeat(w, J) PROVE Kept(v)
  <2>1. /\ status' = StatusAfterRetry(Reaped) /\ owner' = OwnerAfterRetry(Reaped)
        /\ \A j \in Job : lease'[j] \in {LeaseAfterRetry(Reaped)[j], LeaseSeconds}
        /\ live' = LiveAfterReap /\ silent' = [SilentAfterReap EXCEPT ![w] = 0]
    BY <1>3 DEF Heartbeat, RenewedLease
  <2>2. silent'[v] \in {0, SilentAfterReap[v]} /\ silent[v] \in Nat
    BY <1>1, <2>1, ReapTypes, SchedulerAssumption DEF TypeOK
  <2>3. \A j \in Job : lease[j] <= LeaseSeconds
    BY <1>1, SchedulerAssumption DEF TypeOK
  <2>4. \A j \in Job : lease[j] \in Nat /\ LeaseSeconds \in Nat
    BY <1>1, SchedulerAssumption DEF TypeOK
  <2>5. ASSUME v \in live, silent[v] <= 1
        PROVE  v \in live' /\ silent'[v] <= silent[v]
    BY <2>1, <2>2, <2>5, ReapKeepsOthers
  <2>6. ASSUME v \in live, silent[v] <= 1,
               NEW j \in Job, status[j] = "leased", owner[j] = v, lease[j] > 0
        PROVE  status'[j] = "leased" /\ owner'[j] = v /\ lease'[j] >= lease[j]
    <3>1. /\ StatusAfterRetry(Reaped)[j] = "leased" /\ OwnerAfterRetry(Reaped)[j] = v
          /\ LeaseAfterRetry(Reaped)[j] = lease[j]
      BY <2>6, ReapKeepsOthers
    <3>2. QED
      BY <2>1, <2>3, <2>4, <3>1
  <2>7. \A j \in Job : owner'[j] = v =>
           owner[j] = v /\ (status'[j] = "leased" => status[j] = "leased")
    BY <2>1, ReapKeepsOthers
  <2>8. QED
    BY <2>5, <2>6, <2>7 DEF Kept, KeptRecord, KeptJob
<1>4. ASSUME NEW w \in Worker, NEW c, ClaimNothing(w, c) PROVE Kept(v)
  <2>1. /\ status' = StatusAfterRetry(Reaped) /\ owner' = OwnerAfterRetry(Reaped)
        /\ lease' = LeaseAfterRetry(Reaped)
        /\ live' = LiveAfterReap /\ silent' = [SilentAfterReap EXCEPT ![w] = 0]
    BY <1>4 DEF ClaimNothing
  <2>2. silent'[v] \in {0, SilentAfterReap[v]} /\ silent[v] \in Nat
    BY <1>1, <2>1, ReapTypes, SchedulerAssumption DEF TypeOK
  <2>3. QED
    BY <1>1, <2>1, <2>2, ReapKeepsOthers DEF Kept, KeptRecord, KeptJob, TypeOK
<1>5. ASSUME NEW w \in Worker, w # v, NEW c, ClaimJob(w, c) PROVE Kept(v)
  <2>1. PICK q \in QueuesAfterReap : \E i \in DOMAIN q :
             /\ IsOldestMatch(q, StatusAfterRetry(Reaped), i, c)
             /\ status' = [StatusAfterRetry(Reaped) EXCEPT ![q[i]] = "leased"]
             /\ owner' = [OwnerAfterRetry(Reaped) EXCEPT ![q[i]] = w]
             /\ lease' = [LeaseAfterRetry(Reaped) EXCEPT ![q[i]] = LeaseSeconds]
             /\ live' = LiveAfterReap /\ silent' = [SilentAfterReap EXCEPT ![w] = 0]
    BY <1>5 DEF ClaimJob
  <2>2. PICK k : /\ StatusAfterRetry(Reaped)[k] = "queued"
                 /\ status' = [StatusAfterRetry(Reaped) EXCEPT ![k] = "leased"]
                 /\ owner' = [OwnerAfterRetry(Reaped) EXCEPT ![k] = w]
                 /\ lease' = [LeaseAfterRetry(Reaped) EXCEPT ![k] = LeaseSeconds]
    BY <2>1 DEF IsOldestMatch
  <2>3. /\ \A j \in Job : j # k => /\ status'[j] = StatusAfterRetry(Reaped)[j]
                                   /\ owner'[j] = OwnerAfterRetry(Reaped)[j]
                                   /\ lease'[j] = LeaseAfterRetry(Reaped)[j]
        /\ k \in Job => owner'[k] = w
        /\ live' = LiveAfterReap /\ silent'[v] = SilentAfterReap[v]
    BY <1>1, <1>5, <2>1, <2>2, ReapTypes, RetryTypes, ReapedAreLeased
  <2>4. QED
    BY <1>1, <1>5, <2>2, <2>3, ReapKeepsOthers DEF Kept, KeptRecord, KeptJob, TypeOK
<1>6. QED
  BY <1>2, <1>3, <1>4, <1>5

LEMMA OthersKept ==
    ASSUME IInv, NEW v \in Worker,
           \/ UNCHANGED vars
           \/ \E j \in Job : Submit(j)
           \/ \E w \in Worker \ {v} : \/ RegisterWorker(w) \/ Unregister(w)
                                      \/ \E j \in Job, o \in Terminal : Finish(w, j, o)
    PROVE  Kept(v)
<1>1. TypeOK /\ ActiveJobsAreLeasedToTheirWorker
  BY DEF IInv
<1>2. CASE UNCHANGED vars
  BY <1>1, <1>2, SchedulerAssumption DEF vars, jobVars, workerVars, Kept, KeptRecord, KeptJob, TypeOK
<1>3. ASSUME NEW j \in Job, Submit(j) PROVE Kept(v)
  BY <1>1, <1>3, SchedulerAssumption DEF Submit, workerVars, Kept, KeptRecord, KeptJob, TypeOK
<1>4. ASSUME NEW w \in Worker \ {v}, RegisterWorker(w) PROVE Kept(v)
  BY <1>1, <1>4, SchedulerAssumption DEF RegisterWorker, jobVars, Kept, KeptRecord, KeptJob, TypeOK
<1>5. ASSUME NEW w \in Worker \ {v}, Unregister(w) PROVE Kept(v)
  <2> DEFINE held == active[w] \cap LeasedJobs
  <2>1. \A j \in Job : j \in held => owner[j] = w
    BY <1>1, <1>5 DEF ActiveJobsAreLeasedToTheirWorker
  <2> HIDE DEF held
  <2>2. /\ status' = StatusAfterRetry(held) /\ owner' = OwnerAfterRetry(held)
        /\ lease' = LeaseAfterRetry(held)
        /\ live' = live \ {w} /\ silent' = [silent EXCEPT ![w] = 0]
    BY <1>5 DEF Unregister, held
  <2>3. \A j \in Job : j \notin held => /\ status'[j] = status[j] /\ owner'[j] = owner[j]
                                        /\ lease'[j] = lease[j]
    BY <2>2 DEF StatusAfterRetry, OwnerAfterRetry, LeaseAfterRetry, Retried
  <2>4. \A j \in Job : j \in held => owner[j] = w /\ owner'[j] = NoWorker
    BY <2>1, <2>2 DEF OwnerAfterRetry
  <2>5. silent'[v] = silent[v]
    BY <1>1, <1>5, <2>2 DEF TypeOK
  <2>6. QED
    BY <1>1, <2>2, <2>3, <2>4, <2>5, SchedulerAssumption DEF Kept, KeptRecord, KeptJob, TypeOK
<1>6. ASSUME NEW w \in Worker \ {v}, NEW j \in Job, NEW o \in Terminal, Finish(w, j, o)
      PROVE  Kept(v)
  BY <1>1, <1>6, SchedulerAssumption DEF Finish, MayComplete, Kept, KeptRecord, KeptJob, TypeOK, Terminal
<1>7. QED
  BY <1>2, <1>3, <1>4, <1>5, <1>6

-----------------------------------------------------------------------------
(* The coordinator works, a process is not touched                          *)
Untouched(p) ==
    /\ reg'[p] = reg[p] /\ beat'[p] = beat[p]
    /\ \A c \in Serves[p] : slot'[<<p, c>>] = slot[<<p, c>>]

LEMMA RecordStays ==
    ASSUME ClusterIInv, ClusterIInv', OrderIInv, NEW p \in Process, up[p] = "up",
           Known(p), Addressed(p), Untouched(p),
           \A v \in Uses(p) : /\ KeptRecord(v)
                              /\ v # reg[p] => \A j \in Job : owner'[j] = v => owner[j] = v,
           \A m \in net' : m.thread[1] = p /\ m \notin net => WellAddressed(p, m)'
    PROVE  Known(p)' /\ Addressed(p)'
<1>1. /\ TypeOK /\ TypeOK' /\ NetOK /\ reg[p] \in Worker \cup {NoWorker}
  BY DEF ClusterIInv, IInv, ProcessesOK
<1>2. \A w \in live : w \in Worker /\ silent[w] \in Nat
  BY <1>1, SchedulerAssumption DEF TypeOK
<1>3. \A w \in live' : silent'[w] \in Nat
  BY <1>1, SchedulerAssumption DEF TypeOK
<1>4. ASSUME reg[p] # NoWorker
      PROVE  /\ reg[p] \in live /\ silent[reg[p]] <= 1
             /\ reg[p] \in live' /\ silent'[reg[p]] <= silent[reg[p]]
  <2>1. reg[p] \in Uses(p)
    BY <1>1, <1>4 DEF Uses
  <2>2. reg[p] \in live /\ silent[reg[p]] <= 1
    BY <1>4 DEF Known
  <2>3. QED
    BY <2>1, <2>2 DEF KeptRecord
<1>5. Known(p)'
  <2>1. reg[p] # NoWorker =>
           /\ reg[p] \in live' /\ silent'[reg[p]] <= 1
           /\ beat[p] = "beaten" => silent'[reg[p]] = 0
    BY <1>2, <1>3, <1>4 DEF Known
  <2>2. QED
    BY <2>1 DEF Known, Untouched
<1>6. ASSUME NEW m \in net', m.thread[1] = p PROVE WellAddressed(p, m)'
  <2>1. CASE m \notin net
    BY <1>6, <2>1
  <2>2. CASE m \in net
    <3>1. WellAddressed(p, m)
      BY <1>6, <2>2 DEF Addressed
    <3>2. m.heard /\ Expected(m) /\ m.worker \in Worker \cup {NoWorker}
      BY <1>1, <1>6, <2>2, RequestsAreExpected, NetFields
    <3>3. m.thread \in ClaimThread => slot'[m.thread] = slot[m.thread]
      BY <1>6, ThreadNames DEF Untouched
    <3>4. m.kind = "reply" /\ m.thread = BeatThread(p) => silent'[reg[p]] = 0
      <4>1. SUFFICES ASSUME m.kind = "reply", m.thread = BeatThread(p)
                     PROVE  silent'[reg[p]] = 0
        OBVIOUS
      <4>2. beat[p] = "sent" /\ silent[reg[p]] = 0
        BY <1>6, <3>1, <3>2, <4>1 DEF Expected, WellAddressed
      <4>3. reg[p] # NoWorker
        BY <4>2 DEF Known
      <4>4. QED
        BY <1>3, <1>4, <4>2, <4>3
    <3>5. ASSUME m.kind = "reply", m.thread \in ClaimThread, slot[m.thread].at = "registering"
          PROVE  /\ m.worker \in live' /\ silent'[m.worker] = 0
                 /\ \A j \in Job : owner'[j] # m.worker
      <4>1. /\ m.worker \in live /\ silent[m.worker] = 0
            /\ \A j \in Job : owner[j] # m.worker
        BY <3>1, <3>5 DEF WellAddressed
      <4>2. m.worker \in Uses(p)
        BY <1>2, <1>6, <2>2, <4>1 DEF Uses
      <4>3. reg[p] = NoWorker /\ m.worker # NoWorker
        BY <1>2, <1>6, <3>5, <4>1, ThreadNames, SchedulerAssumption DEF Known
      <4>4. m.worker \in live' /\ silent'[m.worker] <= 0
        BY <4>1, <4>2 DEF KeptRecord
      <4>5. silent'[m.worker] = 0
        BY <1>3, <4>4
      <4>6. QED
        BY <4>1, <4>2, <4>3, <4>4, <4>5
    <3>6. QED
      BY <1>6, <3>1, <3>3, <3>4, <3>5 DEF WellAddressed, Untouched
  <2>3. QED
    BY <2>1, <2>2
<1>7. QED
  BY <1>5, <1>6 DEF Addressed

LEMMA JobStays ==
    ASSUME ClusterIInv, ClusterIInv', LeaseSeconds > 1, NEW p \in Process, NEW j \in Job,
           Known(p), WellHeld(p, j), Untouched(p),
           reg[p] # NoWorker => KeptJob(reg[p], j),
           \A c \in Serves[p] : Holds(<<p, c>>, j)' <=> Holds(<<p, c>>, j),
           \A c \in Serves[p] : Holds(<<p, c>>, j) /\ Renewed(<<p, c>>, j)' =>
                                   Renewed(<<p, c>>, j) \/ lease'[j] = LeaseSeconds
    PROVE  WellHeld(p, j)'
<1>1. /\ lease[j] \in 0..LeaseSeconds /\ lease'[j] \in 0..LeaseSeconds
      /\ LeaseSeconds \in Nat
  BY SchedulerAssumption DEF ClusterIInv, IInv, TypeOK
<1>2. reg'[p] = reg[p]
  BY DEF Untouched
<1>3. ASSUME NEW c \in Serves[p], Holds(<<p, c>>, j)'
      PROVE  /\ status'[j] = "leased" /\ owner'[j] = reg[p] /\ CapabilityOf[j] = c
             /\ lease'[j] >= LeaseSeconds - 1
             /\ Renewed(<<p, c>>, j)' => lease'[j] = LeaseSeconds
  <2>1. /\ Holds(<<p, c>>, j)
        /\ status[j] = "leased" /\ owner[j] = reg[p] /\ CapabilityOf[j] = c
        /\ lease[j] >= LeaseSeconds - 1
        /\ Renewed(<<p, c>>, j) => lease[j] = LeaseSeconds
    BY <1>3 DEF WellHeld, LeaseIsRenewed
  <2>2. reg[p] # NoWorker
    BY <2>1, SchedulerAssumption DEF ClusterIInv, IInv, UnfinishedJobsAreAccountedFor
  <2>3. reg[p] \in live /\ silent[reg[p]] <= 1 /\ lease[j] > 0
    BY <1>1, <2>1, <2>2 DEF Known
  <2>4. status'[j] = "leased" /\ owner'[j] = reg[p] /\ lease'[j] >= lease[j]
    BY <2>1, <2>2, <2>3 DEF KeptJob
  <2>5. Renewed(<<p, c>>, j)' => Renewed(<<p, c>>, j) \/ lease'[j] = LeaseSeconds
    BY <2>1
  <2>6. lease'[j] >= LeaseSeconds - 1
    BY <1>1, <2>1, <2>4
  <2>7. Renewed(<<p, c>>, j) => lease'[j] = LeaseSeconds
    BY <1>1, <2>1, <2>4
  <2>8. QED
    BY <2>1, <2>4, <2>5, <2>6, <2>7
<1>4. ASSUME status'[j] = "leased", owner'[j] = reg[p]
      PROVE  CapabilityOf[j] \in Serves[p] /\ Holds(<<p, CapabilityOf[j]>>, j)'
  <2>1. reg[p] # NoWorker
    BY <1>4, SchedulerAssumption DEF ClusterIInv, IInv, UnfinishedJobsAreAccountedFor
  <2>2. status[j] = "leased" /\ owner[j] = reg[p]
    BY <1>4, <2>1 DEF KeptJob
  <2>3. QED
    BY <2>2 DEF WellHeld, LeasedIsHeld
<1>5. QED
  BY <1>2, <1>3, <1>4 DEF WellHeld, LeaseIsRenewed, LeasedIsHeld

(* The requests of p's threads are what they were.                          *)
SameRequests(p) == \A m \in net \cup net' : m.thread[1] = p => (m \in net <=> m \in net')

LEMMA SameRequestsHold ==
    ASSUME NEW p \in Process, Untouched(p), SameRequests(p), NEW c \in Serves[p], NEW j
    PROVE  /\ Holds(<<p, c>>, j)' <=> Holds(<<p, c>>, j)
           /\ Renewed(<<p, c>>, j)' <=> Renewed(<<p, c>>, j)
<1>1. <<p, c>>[1] = p /\ BeatThread(p)[1] = p
  BY DEF BeatThread
<1>2. Holds(<<p, c>>, j)' <=> Holds(<<p, c>>, j)
  BY <1>1 DEF Holds, Untouched, SameRequests
<1>3. (\E m \in net' : m.kind = "heartbeat" /\ m.thread = BeatThread(p) /\ j \in m.jobs)
         <=> \E m \in net : m.kind = "heartbeat" /\ m.thread = BeatThread(p) /\ j \in m.jobs
  BY <1>1 DEF SameRequests
<1>4. (\E m \in net' : m.kind = "reply" /\ m.thread = <<p, c>> /\ j \in m.jobs)
         <=> \E m \in net : m.kind = "reply" /\ m.thread = <<p, c>> /\ j \in m.jobs
  BY <1>1 DEF SameRequests
<1>5. Renewed(<<p, c>>, j)' <=> Renewed(<<p, c>>, j)
  BY <1>1, <1>3, <1>4 DEF Renewed, Untouched
<1>6. QED
  BY <1>2, <1>5

LEMMA LeftAlone ==
    ASSUME ClusterIInv, ClusterIInv', OrderIInv, LeaseSeconds > 1,
           NEW p \in Process, up[p] = "up", Regular(p), Untouched(p), SameRequests(p),
           \A v \in Uses(p) : Kept(v)
    PROVE  Regular(p)'
<1>1. Known(p)' /\ Addressed(p)'
  <2>1. \A v \in Uses(p) : /\ KeptRecord(v)
                           /\ v # reg[p] => \A j \in Job : owner'[j] = v => owner[j] = v
    BY DEF Kept, KeptJob
  <2>2. \A m \in net' : m.thread[1] = p => m \in net
    BY DEF SameRequests
  <2>3. QED
    BY <2>1, <2>2, RecordStays DEF Regular
<1>2. ASSUME NEW j \in Job PROVE WellHeld(p, j)'
  <2>1. reg[p] # NoWorker => KeptJob(reg[p], j)
    BY DEF Kept, Uses, ClusterIInv, ProcessesOK
  <2>2. \A c \in Serves[p] : /\ Holds(<<p, c>>, j)' <=> Holds(<<p, c>>, j)
                             /\ Renewed(<<p, c>>, j)' <=> Renewed(<<p, c>>, j)
    BY SameRequestsHold
  <2>3. QED
    BY <2>1, <2>2, JobStays DEF Regular
<1>3. QED
  BY <1>1, <1>2 DEF Regular

-----------------------------------------------------------------------------
(* A process that is up goes on                                             *)

(* A claim thread goes on with the registration that its process has.       *)
LEMMA ThreadGoesOn ==
    ASSUME ClusterIInv, NEW p \in Process, NEW c \in Serves[p], NEW t, t = <<p, c>>,
           Regular(p), UNCHANGED vars, reg' = reg, beat' = beat,
           \A d \in Serves[p] : d # c => slot'[<<p, d>>] = slot[<<p, d>>],
           \A m \in net \cup net' :
              m.thread[1] = p /\ m.thread # t => (m \in net <=> m \in net'),
           \A m \in net' : m.thread = t =>
              m.kind # "reply" /\ (m.kind # "register" => m.worker = reg[p]),
           IF reg[p] = NoWorker THEN slot'[t].at \in {"idle", "registering"}
           ELSE slot'[t].at \notin {"registering", "retrying"},
           slot'[t].at = "registering" =>
              \A d \in Serves[p] : d # c => slot[<<p, d>>].at # "registering",
           slot'[t].at \in {"running", "completing"} => slot'[t].worker = reg[p],
           \A j \in Job : Holds(t, j)' <=> Holds(t, j)
    PROVE  Regular(p)'
<1>1. /\ status' = status /\ owner' = owner /\ lease' = lease
      /\ live' = live /\ silent' = silent
  BY DEF vars, jobVars, workerVars
<1>2. t \in ClaimThread /\ t[1] = p /\ t # BeatThread(p) /\ BeatThread(p)[1] = p
  BY ThreadNames
<1>3. \A d \in Serves[p] : /\ <<p, d>>[1] = p
                           /\ d # c => <<p, d>> # t
  BY ThreadNames
<1>4. Known(p)'
  <2>1. ASSUME NEW d \in Serves[p]
        PROVE  /\ IF reg[p] = NoWorker THEN slot'[<<p, d>>].at \in {"idle", "registering"}
                  ELSE slot'[<<p, d>>].at \notin {"registering", "retrying"}
               /\ slot'[<<p, d>>].at \in {"running", "completing"} =>
                     slot'[<<p, d>>].worker = reg[p]
    BY DEF Regular, Known
  <2>2. ASSUME NEW d \in Serves[p], NEW e \in Serves[p],
               slot'[<<p, d>>].at = "registering", slot'[<<p, e>>].at = "registering"
        PROVE  d = e
    BY <2>2 DEF Regular, Known
  <2>3. /\ reg[p] = NoWorker => beat[p] = "due"
        /\ reg[p] # NoWorker => /\ reg[p] \in live /\ silent[reg[p]] <= 1
                                /\ beat[p] = "beaten" => silent[reg[p]] = 0
    BY DEF Regular, Known
  <2>4. QED
    BY <1>1, <2>1, <2>2, <2>3 DEF Known
<1>5. ASSUME NEW m \in net', m.thread[1] = p PROVE WellAddressed(p, m)'
  <2>1. CASE m.thread = t
    BY <1>2, <1>5, <2>1 DEF WellAddressed
  <2>2. CASE m.thread # t
    <3>1. WellAddressed(p, m)
      BY <1>5, <2>2 DEF Regular, Addressed
    <3>2. m.thread \in ClaimThread => slot'[m.thread] = slot[m.thread]
      BY <1>5, <2>2, ThreadNames
    <3>3. QED
      BY <1>1, <3>1, <3>2 DEF WellAddressed
  <2>3. QED
    BY <2>1, <2>2
<1>6. ASSUME NEW j \in Job PROVE WellHeld(p, j)'
  <2>1. ASSUME NEW d \in Serves[p] PROVE Holds(<<p, d>>, j)' <=> Holds(<<p, d>>, j)
    <3>1. CASE d = c
      BY <3>1
    <3>2. CASE d # c
      BY <1>3, <3>2 DEF Holds
    <3>3. QED
      BY <3>1, <3>2
  <2>2. (\E m \in net' : m.kind = "heartbeat" /\ m.thread = BeatThread(p) /\ j \in m.jobs)
           <=> \E m \in net : m.kind = "heartbeat" /\ m.thread = BeatThread(p) /\ j \in m.jobs
    BY <1>2
  <2>3. ASSUME NEW d \in Serves[p], NEW m \in net', m.kind = "reply", m.thread = <<p, d>>
        PROVE  m \in net
    BY <1>3, <2>3
  <2>4. \A d \in Serves[p] : Renewed(<<p, d>>, j)' => Renewed(<<p, d>>, j)
    BY <1>3, <2>2, <2>3 DEF Renewed
  <2>5. WellHeld(p, j)
    BY DEF Regular
  <2>6. LeaseIsRenewed(p, j)'
    BY <1>1, <2>1, <2>4, <2>5 DEF WellHeld, LeaseIsRenewed
  <2>7. LeasedIsHeld(p, j)'
    BY <1>1, <2>1, <2>5 DEF WellHeld, LeasedIsHeld
  <2>8. QED
    BY <2>6, <2>7 DEF WellHeld
<1>7. QED
  BY <1>4, <1>5, <1>6 DEF Regular, Addressed

LEMMA ClaimThreadStaysRegular ==
    ASSUME ClusterIInv, OrderIInv, NEW p \in Process, NEW c \in Serves[p], up[p] = "up",
           Regular(p), ClaimThreadStep(p, c), ~Registered(p, c)
    PROVE  Regular(p)'
<1> DEFINE t == <<p, c>>
<1>1. /\ t \in ClaimThread /\ t[1] = p /\ t = <<p, c>>
      /\ \A d \in Serves[p] : <<p, d>> \in ClaimThread /\ (d # c => <<p, d>> # t)
  BY ThreadNames
<1>2. /\ slot \in [ClaimThread -> Slot] /\ reg[p] \in Worker \cup {NoWorker} /\ NetOK
  BY DEF ClusterIInv, ProcessesOK
<1>3. \A m \in net : m.thread = t => m.heard /\ ClaimExpects(slot[t], m)
  BY <1>1, <1>2, RequestsAreExpected DEF Expected
<1>4. \A m, k \in net : m.thread = k.thread => m = k
  BY DEF OrderIInv, OneRequestEach
<1>5. /\ IF reg[p] = NoWorker THEN slot[t].at \in {"idle", "registering"}
         ELSE slot[t].at \notin {"registering", "retrying"}
      /\ slot[t].at \in {"running", "completing"} => slot[t].worker = reg[p]
  BY DEF Regular, Known
<1>6. \A m \in net : m.thread = t => WellAddressed(p, m)
  BY <1>1 DEF Regular, Addressed
<1> HIDE DEF t
<1>7. CASE SendRegister(p, c)
  <2>1. /\ slot[t].at = "idle" /\ reg[p] = NoWorker /\ ~Registering(p)
        /\ slot' = [slot EXCEPT ![t].at = "registering"]
        /\ net' = net \cup {Request("register", t, NoWorker, {}, "")}
        /\ UNCHANGED <<vars, reg, beat>>
    BY <1>5, <1>7 DEF SendRegister, t
  <2>2. slot'[t].at = "registering"
        /\ \A u \in ClaimThread : u # t => slot'[u] = slot[u]
    BY <1>1, <1>2, <2>1 DEF Slot
  <2>3. PICK n : n = Request("register", t, NoWorker, {}, "")
    OBVIOUS
  <2>4. n.kind = "register" /\ n.thread = t /\ n.jobs = {}
    BY <2>3 DEF Request
  <2>5. net' = net \cup {n} /\ \A m \in net : m.thread # t
    BY <1>3, <2>1, <2>3 DEF ClaimExpects
  <2>6. \A d \in Serves[p] : slot[<<p, d>>].at # "registering"
    BY <2>1 DEF Registering
  <2>7. \A j \in Job : Holds(t, j)' <=> Holds(t, j)
    BY <2>1, <2>2, <2>4, <2>5 DEF Holds
  <2>8. \A m \in net \cup net' : m.thread # t => (m \in net <=> m \in net')
    BY <2>4, <2>5
  <2>9. \A m \in net' : m.thread = t => m.kind # "reply" /\ (m.kind # "register" => m.worker = reg[p])
    BY <2>4, <2>5
  <2>10. \A d \in Serves[p] : d # c => slot'[<<p, d>>] = slot[<<p, d>>]
    BY <1>1, <2>2
  <2>11. /\ reg[p] = NoWorker /\ slot'[t].at = "registering" /\ t = <<p, c>>
         /\ UNCHANGED vars /\ reg' = reg /\ beat' = beat
    BY <1>1, <2>1, <2>2
  <2>12. QED
    BY <2>6, <2>7, <2>8, <2>9, <2>10, <2>11, ThreadGoesOn
<1>8. CASE SendClaim(p, c)
  <2>1. /\ slot[t].at = "idle" /\ reg[p] # NoWorker
        /\ slot' = [slot EXCEPT ![t].at = "claiming"]
        /\ net' = net \cup {Request("claim", t, reg[p], {}, "")}
        /\ UNCHANGED <<vars, reg, beat>>
    BY <1>8 DEF SendClaim, t
  <2>2. slot'[t].at = "claiming"
        /\ \A u \in ClaimThread : u # t => slot'[u] = slot[u]
    BY <1>1, <1>2, <2>1 DEF Slot
  <2>3. PICK n : n = Request("claim", t, reg[p], {}, "")
    OBVIOUS
  <2>4. n.kind = "claim" /\ n.thread = t /\ n.jobs = {} /\ n.worker = reg[p]
    BY <2>3 DEF Request
  <2>5. net' = net \cup {n} /\ \A m \in net : m.thread # t
    BY <1>3, <2>1, <2>3 DEF ClaimExpects
  <2>6. \A j \in Job : Holds(t, j)' <=> Holds(t, j)
    BY <2>1, <2>2, <2>4, <2>5 DEF Holds
  <2>7. \A m \in net \cup net' : m.thread # t => (m \in net <=> m \in net')
    BY <2>4, <2>5
  <2>8. \A m \in net' : m.thread = t => m.kind # "reply" /\ (m.kind # "register" => m.worker = reg[p])
    BY <2>4, <2>5
  <2>9. \A d \in Serves[p] : d # c => slot'[<<p, d>>] = slot[<<p, d>>]
    BY <1>1, <2>2
  <2>10. QED
    BY <1>1, <2>1, <2>2, <2>9, <2>6, <2>7, <2>8, ThreadGoesOn
<1>9. CASE ClaimReturns(p, c)
  <2>1. PICK m \in RepliesTo(t) :
             /\ slot[t].at = "claiming"
             /\ reg' = IF m.word = "gone" THEN Forgotten(p) ELSE reg
             /\ slot' = [slot EXCEPT ![t] = AfterClaim(m)]
             /\ net' = net \ {m}
             /\ UNCHANGED <<vars, beat>>
    BY <1>9 DEF ClaimReturns, t
  <2>2. m \in net /\ m.thread = t /\ m.kind = "reply"
    BY <2>1 DEF RepliesTo
  <2>3. /\ m.word # "gone" /\ (m.word # "ok" => m.jobs = {})
        /\ m.word = "ok" => m.worker = reg[p]
    BY <1>1, <1>6, <2>1, <2>2 DEF WellAddressed
  <2>4. slot'[t] = AfterClaim(m) /\ \A u \in ClaimThread : u # t => slot'[u] = slot[u]
    BY <1>1, <1>2, <2>1
  <2>5. \A n \in net : n.thread = t => n = m
    BY <1>4, <2>2
  <2>6. \A n \in net' : n.thread # t
    BY <2>1, <2>5
  <2>7. \A n \in net \cup net' : n.thread # t => (n \in net <=> n \in net')
    BY <2>1, <2>2
  <2>8. \A j \in Job : Holds(t, j)' <=> Holds(t, j)
    BY <2>1, <2>2, <2>3, <2>4, <2>5, <2>6 DEF Holds, AfterClaim, IdleSlot
  <2>9. /\ slot'[t].at \in {"idle", "running"}
        /\ slot'[t].at = "running" => slot'[t].worker = reg[p]
    BY <2>3, <2>4 DEF AfterClaim, IdleSlot
  <2>10. reg[p] # NoWorker
    BY <1>5, <2>1
  <2>11. QED
    BY <1>1, <2>1, <2>3, <2>4, <2>6, <2>7, <2>8, <2>9, <2>10, ThreadGoesOn
<1>10. CASE HandlerReturns(p, c)
  <2>1. PICK o \in Terminal :
             /\ slot[t].at = "running"
             /\ slot' = [slot EXCEPT ![t].at = "completing"]
             /\ net' = net \cup {Request("complete", t, slot[t].worker, slot[t].jobs, o)}
             /\ UNCHANGED <<vars, reg, beat>>
    BY <1>10 DEF HandlerReturns, t
  <2>2. slot'[t].at = "completing" /\ slot'[t].worker = slot[t].worker
        /\ \A u \in ClaimThread : u # t => slot'[u] = slot[u]
    BY <1>1, <1>2, <2>1 DEF Slot
  <2>3. PICK n : n = Request("complete", t, slot[t].worker, slot[t].jobs, o)
    OBVIOUS
  <2>4. n.kind = "complete" /\ n.thread = t /\ n.jobs = slot[t].jobs /\ n.worker = slot[t].worker
    BY <2>3 DEF Request
  <2>5. net' = net \cup {n} /\ \A m \in net : m.thread # t
    BY <1>3, <2>1, <2>3 DEF ClaimExpects
  <2>6. \A j \in Job : Holds(t, j)' <=> Holds(t, j)
    BY <2>1, <2>2, <2>4, <2>5 DEF Holds
  <2>7. \A m \in net \cup net' : m.thread # t => (m \in net <=> m \in net')
    BY <2>4, <2>5
  <2>8. \A m \in net' : m.thread = t => m = n
    BY <2>5
  <2>9. reg[p] # NoWorker
    BY <1>5, <2>1
  <2>10. QED
    BY <1>1, <1>5, <2>1, <2>2, <2>4, <2>6, <2>7, <2>8, <2>9, ThreadGoesOn
<1>11. CASE Completed(p, c)
  <2>1. PICK m \in RepliesTo(t) :
             /\ slot[t].at = "completing"
             /\ reg' = IF m.word = "gone" THEN Forgotten(p) ELSE reg
             /\ slot' = [slot EXCEPT ![t] = IdleSlot]
             /\ net' = net \ {m}
             /\ UNCHANGED <<vars, beat>>
    BY <1>11 DEF Completed, t
  <2>2. m \in net /\ m.thread = t /\ m.kind = "reply"
    BY <2>1 DEF RepliesTo
  <2>3. m.word # "gone" /\ m.jobs = {}
    BY <1>1, <1>3, <1>6, <2>1, <2>2 DEF WellAddressed, ClaimExpects
  <2>4. slot'[t] = IdleSlot /\ \A u \in ClaimThread : u # t => slot'[u] = slot[u]
    BY <1>1, <1>2, <2>1
  <2>5. \A n \in net : n.thread = t => n = m
    BY <1>4, <2>2
  <2>6. \A n \in net' : n.thread # t
    BY <2>1, <2>5
  <2>7. \A n \in net \cup net' : n.thread # t => (n \in net <=> n \in net')
    BY <2>1, <2>2
  <2>8. \A j \in Job : Holds(t, j)' <=> Holds(t, j)
    BY <2>1, <2>2, <2>3, <2>4, <2>5, <2>6 DEF Holds, IdleSlot
  <2>9. slot'[t].at = "idle" /\ reg[p] # NoWorker
    BY <1>5, <2>1, <2>4 DEF IdleSlot
  <2>10. QED
    BY <1>1, <2>1, <2>3, <2>4, <2>6, <2>7, <2>8, <2>9, ThreadGoesOn
<1>12. QED
  BY <1>7, <1>8, <1>9, <1>10, <1>11 DEF ClaimThreadStep

(* A process gets its registration when it does nothing else.               *)
LEMMA RegisteredIsRegular ==
    ASSUME ClusterIInv, OrderIInv, NEW p \in Process, NEW c \in Serves[p], up[p] = "up",
           Regular(p), Registered(p, c)
    PROVE  Regular(p)'
<1> DEFINE t == <<p, c>>
<1>1. /\ t \in ClaimThread /\ t[1] = p /\ t # BeatThread(p)
      /\ \A d \in Serves[p] : <<p, d>> \in ClaimThread /\ (d # c => <<p, d>> # t)
  BY ThreadNames
<1>2. slot \in [ClaimThread -> Slot] /\ reg \in [Process -> Worker \cup {NoWorker}] /\ NetOK
  BY DEF ClusterIInv, ProcessesOK
<1>3. PICK m \in RepliesTo(t) :
           /\ slot[t].at = "registering"
           /\ reg' = [reg EXCEPT ![p] = m.worker]
           /\ net' = (net \ {m}) \cup {Request("claim", t, m.worker, {}, "")}
           /\ slot' = [slot EXCEPT ![t].at = "claiming"]
           /\ UNCHANGED <<vars, beat>>
  BY DEF Registered
<1>4. reg[p] = NoWorker /\ beat[p] = "due"
  BY <1>3 DEF Regular, Known
<1>5. \A d \in Serves[p] : d # c => slot[<<p, d>>].at = "idle"
  BY <1>3, <1>4 DEF Regular, Known
<1>6. m \in net /\ m.thread = t /\ m.kind = "reply"
  BY <1>3 DEF RepliesTo
<1> HIDE DEF t
<1>7. /\ m.worker \in live /\ silent[m.worker] = 0
      /\ \A j \in Job : owner[j] # m.worker
  BY <1>1, <1>3, <1>6 DEF Regular, Addressed, WellAddressed
<1>8. m.worker # NoWorker
  BY <1>7, SchedulerAssumption DEF ClusterIInv, IInv, TypeOK
(* The reply is all that p has under way, ...                               *)
<1>9. ASSUME NEW k \in net, k.thread[1] = p PROVE k = m
  <2>1. Expected(k) /\ k.thread \in Thread
    BY <1>2, <1>9, RequestsAreExpected, NetFields
  <2>2. k.thread # BeatThread(p) /\ k.thread # MainThread(p)
    BY <1>4, <1>9, <2>1 DEF Expected
  <2>3. k.thread \in ClaimThread /\ ClaimExpects(slot[k.thread], k)
    BY <1>9, <2>1, <2>2, ThreadNames DEF Expected
  <2>4. k.thread = t
    BY <1>5, <1>9, <2>3, ThreadNames DEF ClaimExpects, t
  <2>5. QED
    BY <1>6, <2>4 DEF OrderIInv, OneRequestEach
(* ... and the claim is next.                                               *)
<1>10. PICK n : n = Request("claim", t, m.worker, {}, "")
  OBVIOUS
<1>11. n.kind = "claim" /\ n.thread = t /\ n.jobs = {} /\ n.worker = m.worker
  BY <1>10 DEF Request
<1>12. \A k \in net' : k.thread[1] = p => k = n
  BY <1>3, <1>9, <1>10
<1>13. /\ reg'[p] = m.worker /\ beat'[p] = "due" /\ slot'[t].at = "claiming"
       /\ \A d \in Serves[p] : d # c => slot'[<<p, d>>].at = "idle"
  BY <1>1, <1>2, <1>3, <1>4, <1>5 DEF Slot
<1>14. \A d \in Serves[p] : slot'[<<p, d>>].at \in {"idle", "claiming"}
  BY <1>13 DEF t
<1>15. live' = live /\ silent' = silent /\ owner' = owner
  BY <1>3 DEF vars, jobVars, workerVars
<1>16. Known(p)'
  BY <1>7, <1>8, <1>13, <1>14, <1>15 DEF Known
<1>17. Addressed(p)'
  BY <1>11, <1>12, <1>13 DEF Addressed, WellAddressed
<1>18. ASSUME NEW j \in Job PROVE WellHeld(p, j)'
  <2>1. \A d \in Serves[p] : ~Holds(<<p, d>>, j)'
    BY <1>11, <1>12, <1>14 DEF Holds
  <2>2. owner'[j] # reg'[p]
    BY <1>7, <1>13, <1>15
  <2>3. QED
    BY <2>1, <2>2 DEF WellHeld, LeaseIsRenewed, LeasedIsHeld
<1>19. QED
  BY <1>16, <1>17, <1>18 DEF Regular

(* The heartbeat lists what the claim threads hold, but for jobs whose      *)
(* claims have not returned.                                                *)
LEMMA HeldAreReported ==
    ASSUME ClusterIInv, OrderIInv, NEW p \in Process, NEW c \in Serves[p], up[p] = "up",
           NEW j, Holds(<<p, c>>, j)
    PROVE  \/ j \in ActiveJobs(p)
           \/ \E m \in net : m.kind = "reply" /\ m.thread = <<p, c>> /\ j \in m.jobs
<1> DEFINE t == <<p, c>>
<1>1. t \in ClaimThread /\ t[1] = p /\ NetOK
  BY ThreadNames DEF ClusterIInv
<1>2. j \in slot[t].jobs => j \in ActiveJobs(p)
  BY DEF ActiveJobs
<1>3. ASSUME NEW m \in net, m.thread = t, j \in m.jobs
      PROVE  j \in slot[t].jobs \/ m.kind = "reply"
  <2>1. ClaimExpects(slot[t], m)
    BY <1>1, <1>3, RequestsAreExpected DEF Expected
  <2>2. QED
    BY <1>3, <2>1 DEF ClaimExpects
<1>4. QED
  BY <1>2, <1>3 DEF Holds

LEMMA BeatStaysRegular ==
    ASSUME ClusterIInv, OrderIInv, NEW p \in Process, up[p] = "up",
           Regular(p), SendBeat(p) \/ BeatReturns(p)
    PROVE  Regular(p)'
<1> DEFINE t == BeatThread(p)
<1>1. /\ t \in Thread /\ t[1] = p /\ t = BeatThread(p) /\ t \notin ClaimThread
      /\ \A d \in Serves[p] : <<p, d>> \in ClaimThread /\ <<p, d>>[1] = p
  BY ThreadNames, Threads
<1>2. /\ beat \in [Process -> {"due", "sent", "beaten"}] /\ NetOK
      /\ reg[p] \in Worker \cup {NoWorker}
  BY DEF ClusterIInv, ProcessesOK
<1> HIDE DEF t
(* Either way nothing but the heartbeat and its answer comes and goes.      *)
<1>3. ASSUME UNCHANGED <<vars, reg, slot>>, reg[p] # NoWorker,
             beat'[p] \in {"sent", "beaten"},
             beat'[p] = "beaten" => silent[reg[p]] = 0,
             \A m \in net \cup net' : m.thread # t => (m \in net <=> m \in net'),
             \A m \in net' : m.thread = t => m.kind = "heartbeat" /\ m.worker = reg[p],
             \A c \in Serves[p], j \in Job :
                Holds(<<p, c>>, j) /\ Renewed(<<p, c>>, j)' => Renewed(<<p, c>>, j)
      PROVE  Regular(p)'
  <2>1. /\ status' = status /\ owner' = owner /\ lease' = lease
        /\ live' = live /\ silent' = silent /\ reg' = reg /\ slot' = slot
    BY <1>3 DEF vars, jobVars, workerVars
  <2>2. Known(p)'
    BY <1>3, <2>1 DEF Regular, Known
  <2>3. ASSUME NEW m \in net', m.thread[1] = p PROVE WellAddressed(p, m)'
    <3>1. CASE m.thread = t
      BY <1>3, <2>1, <3>1 DEF WellAddressed
    <3>2. CASE m.thread # t
      <4>1. WellAddressed(p, m)
        BY <1>3, <2>3, <3>2 DEF Regular, Addressed
      <4>2. QED
        BY <2>1, <4>1 DEF WellAddressed
    <3>3. QED
      BY <3>1, <3>2
  <2>4. ASSUME NEW j \in Job PROVE WellHeld(p, j)'
    <3>1. \A c \in Serves[p] : Holds(<<p, c>>, j)' <=> Holds(<<p, c>>, j)
      BY <1>1, <1>3, <2>1 DEF Holds
    <3>2. \A c \in Serves[p] :
             Holds(<<p, c>>, j) /\ Renewed(<<p, c>>, j)' => Renewed(<<p, c>>, j)
      BY <1>3
    <3>3. WellHeld(p, j)
      BY DEF Regular
    <3>4. LeaseIsRenewed(p, j)'
      BY <2>1, <3>1, <3>2, <3>3 DEF WellHeld, LeaseIsRenewed
    <3>5. LeasedIsHeld(p, j)'
      BY <2>1, <3>1, <3>3 DEF WellHeld, LeasedIsHeld
    <3>6. QED
      BY <3>4, <3>5 DEF WellHeld
  <2>5. QED
    BY <2>2, <2>3, <2>4 DEF Regular, Addressed
<1>4. CASE SendBeat(p)
  <2>1. /\ beat[p] = "due" /\ reg[p] # NoWorker /\ beat' = [beat EXCEPT ![p] = "sent"]
        /\ net' = net \cup {Request("heartbeat", t, reg[p], ActiveJobs(p), "")}
        /\ UNCHANGED <<vars, reg, slot>>
    BY <1>1, <1>4 DEF SendBeat
  <2>2. beat'[p] = "sent"
    BY <1>2, <2>1
  <2>3. PICK n : n = Request("heartbeat", t, reg[p], ActiveJobs(p), "")
    OBVIOUS
  <2>4. /\ n.kind = "heartbeat" /\ n.thread = t /\ n.jobs = ActiveJobs(p)
        /\ n.worker = reg[p]
    BY <2>3 DEF Request
  <2>5. net' = net \cup {n} /\ \A m \in net : m.thread # t
    BY <1>1, <1>2, <2>1, <2>3, RequestsAreExpected DEF Expected
  <2>6. ASSUME NEW c \in Serves[p], NEW j \in Job,
               Holds(<<p, c>>, j), Renewed(<<p, c>>, j)'
        PROVE  Renewed(<<p, c>>, j)
    <3>1. CASE j \in ActiveJobs(p)
      <4>1. n \in net' /\ n.kind = "heartbeat" /\ n.thread = BeatThread(p) /\ j \in n.jobs
        BY <1>1, <2>4, <2>5, <3>1
      <4>2. PICK m \in net' : m.kind = "reply" /\ m.thread = <<p, c>> /\ j \in m.jobs
        BY <1>1, <2>2, <2>6, <4>1 DEF Renewed
      <4>3. m \in net
        BY <2>4, <2>5, <4>2
      <4>4. QED
        BY <4>2, <4>3 DEF Renewed
    <3>2. CASE j \notin ActiveJobs(p)
      BY <2>6, <3>2, HeldAreReported DEF Renewed
    <3>3. QED
      BY <3>1, <3>2
  <2>7. \A m \in net \cup net' : m.thread # t => (m \in net <=> m \in net')
    BY <2>4, <2>5
  <2>8. \A m \in net' : m.thread = t => m.kind = "heartbeat" /\ m.worker = reg[p]
    BY <2>4, <2>5
  <2>9. QED
    BY <1>3, <2>1, <2>2, <2>6, <2>7, <2>8
<1>5. CASE BeatReturns(p)
  <2>1. PICK m \in RepliesTo(t) :
             /\ beat[p] = "sent" /\ beat' = [beat EXCEPT ![p] = "beaten"]
             /\ reg' = IF m.word = "gone" THEN Forgotten(p) ELSE reg
             /\ net' = net \ {m}
             /\ UNCHANGED <<vars, slot>>
    BY <1>1, <1>5 DEF BeatReturns
  <2>2. m \in net /\ m.thread = t /\ m.kind = "reply"
    BY <2>1 DEF RepliesTo
  <2>3. m.word # "gone" /\ silent[reg[p]] = 0
    BY <1>1, <2>2 DEF Regular, Addressed, WellAddressed
  <2>4. reg[p] # NoWorker /\ beat'[p] = "beaten"
    BY <1>2, <2>1 DEF Regular, Known
  <2>5. \A k \in net : k.thread = t => k = m
    BY <2>2 DEF OrderIInv, OneRequestEach
  <2>6. \A c \in Serves[p], j \in Job : Renewed(<<p, c>>, j)
    BY <1>1, <2>1, <2>2, <2>5 DEF Renewed
  <2>7. \A k \in net \cup net' : k.thread # t => (k \in net <=> k \in net')
    BY <2>1, <2>2
  <2>8. \A k \in net' : k.thread # t
    BY <2>1, <2>5
  <2>9. QED
    BY <1>3, <2>1, <2>3, <2>4, <2>6, <2>7, <2>8
<1>6. QED
  BY <1>4, <1>5

LEMMA OthersLeftAlone ==
    ASSUME ClusterIInv, NEW p \in Process, NEW q \in Process, p # q, ProcessStep(q)
    PROVE  Untouched(p) /\ SameRequests(p) /\ up'[p] = up[p]
<1>1. /\ slot \in [ClaimThread -> Slot] /\ reg \in [Process -> Worker \cup {NoWorker}]
      /\ beat \in [Process -> {"due", "sent", "beaten"}]
      /\ up \in [Process -> {"up", "stopping", "leaving", "down"}]
  BY DEF ClusterIInv, ProcessesOK
<1>2. \A c \in Serves[p] : <<p, c>> \in ClaimThread /\ <<p, c>>[1] = p
  BY ThreadNames
<1>3. BeatThread(q)[1] = q /\ MainThread(q)[1] = q
  BY ThreadNames
<1>5. ASSUME NEW c \in Serves[q], ClaimThreadStep(q, c)
      PROVE  Untouched(p) /\ SameRequests(p) /\ up' = up
  <2> DEFINE t == <<q, c>>
  <2>1. /\ \A d \in Serves[p] : <<p, d>> # t
        /\ t[1] = q
    BY <1>5
  <2> HIDE DEF t
  <2>2. /\ reg' = reg \/ \E w : reg' = [reg EXCEPT ![q] = w]
        /\ beat' = beat /\ up' = up
    BY <1>5 DEF ClaimThreadStep, SendRegister, Registered, SendClaim, ClaimReturns,
                HandlerReturns, Completed, Forgotten
  <2>3. \E s : slot' = [slot EXCEPT ![t] = s]
    BY <1>5 DEF ClaimThreadStep, SendRegister, Registered, SendClaim, ClaimReturns,
                HandlerReturns, Completed, t
  <2>4. \A m \in net \cup net' : (m \in net /\ m \in net') \/ m.thread = t
    <3>1. CASE SendRegister(q, c)
      <4>1. PICK n : n = Request("register", t, NoWorker, {}, "")
        OBVIOUS
      <4>2. n.thread = t /\ net' = net \cup {n}
        BY <3>1, <4>1 DEF SendRegister, t, Request
      <4>3. QED
        BY <4>2
    <3>2. CASE SendClaim(q, c)
      <4>1. PICK n : n = Request("claim", t, reg[q], {}, "")
        OBVIOUS
      <4>2. n.thread = t /\ net' = net \cup {n}
        BY <3>2, <4>1 DEF SendClaim, t, Request
      <4>3. QED
        BY <4>2
    <3>6. CASE Registered(q, c)
      <4>1. PICK m \in RepliesTo(t) :
                 net' = (net \ {m}) \cup {Request("claim", t, m.worker, {}, "")}
        BY <3>6 DEF Registered, t
      <4>2. PICK n : n = Request("claim", t, m.worker, {}, "")
        OBVIOUS
      <4>3. n.thread = t /\ m.thread = t /\ net' = (net \ {m}) \cup {n}
        BY <4>1, <4>2 DEF Request, RepliesTo
      <4>4. QED
        BY <4>3
    <3>3. CASE ClaimReturns(q, c) \/ Completed(q, c)
      BY <3>3 DEF ClaimReturns, Completed, RepliesTo, t
    <3>4. CASE HandlerReturns(q, c)
      BY <3>4 DEF HandlerReturns, Request, t
    <3>5. QED
      BY <1>5, <3>1, <3>2, <3>3, <3>4, <3>6 DEF ClaimThreadStep
  <2>5. Untouched(p)
    BY <1>1, <1>2, <2>1, <2>2, <2>3 DEF Untouched
  <2>6. SameRequests(p)
    BY <2>1, <2>4 DEF SameRequests
  <2>7. QED
    BY <2>2, <2>5, <2>6
<1>6. CASE SendBeat(q) \/ BeatReturns(q)
  <2>1. /\ reg' = reg \/ reg' = [reg EXCEPT ![q] = NoWorker]
        /\ \E b : beat' = [beat EXCEPT ![q] = b]
        /\ slot' = slot /\ up' = up
    BY <1>6 DEF SendBeat, BeatReturns, Forgotten
  <2>2. \A m \in net \cup net' : (m \in net /\ m \in net') \/ m.thread = BeatThread(q)
    <3>1. CASE SendBeat(q)
      <4>1. PICK n : n = Request("heartbeat", BeatThread(q), reg[q], ActiveJobs(q), "")
        OBVIOUS
      <4>2. n.thread = BeatThread(q) /\ net' = net \cup {n}
        BY <3>1, <4>1 DEF SendBeat, Request
      <4>3. QED
        BY <4>2
    <3>2. CASE BeatReturns(q)
      BY <3>2 DEF BeatReturns, RepliesTo
    <3>3. QED
      BY <1>6, <3>1, <3>2
  <2>3. Untouched(p)
    BY <1>1, <2>1 DEF Untouched
  <2>4. SameRequests(p)
    BY <1>3, <2>2 DEF SameRequests
  <2>5. QED
    BY <2>1, <2>3, <2>4
<1>7. CASE Stop(q) \/ SendUnregister(q)
  <2>1. /\ reg' = reg /\ beat' = beat /\ slot' = slot
        /\ \E u : up' = [up EXCEPT ![q] = u]
    BY <1>7 DEF Stop, SendUnregister
  <2>2. \A m \in net \cup net' : (m \in net /\ m \in net') \/ m.thread = MainThread(q)
    <3>1. CASE SendUnregister(q)
      <4>1. PICK n : n = Request("unregister", MainThread(q), reg[q], {}, "")
        OBVIOUS
      <4>2. n.thread = MainThread(q) /\ net' = net \cup {n}
        BY <3>1, <4>1 DEF SendUnregister, Request
      <4>3. QED
        BY <4>2
    <3>2. CASE Stop(q)
      BY <3>2 DEF Stop
    <3>3. QED
      BY <1>7, <3>1, <3>2
  <2>3. Untouched(p) /\ up'[p] = up[p]
    BY <1>1, <2>1 DEF Untouched
  <2>4. SameRequests(p)
    BY <1>3, <2>2 DEF SameRequests
  <2>5. QED
    BY <2>3, <2>4
<1>8. CASE Exit(q) \/ Crash(q)
  <2>1. Gone(q)
    BY <1>8 DEF Exit, Crash
  <2>2. /\ up' = [up EXCEPT ![q] = "down"] /\ reg' = [reg EXCEPT ![q] = NoWorker]
        /\ slot' = [t \in ClaimThread |-> IF t[1] = q THEN IdleSlot ELSE slot[t]]
        /\ beat' = [beat EXCEPT ![q] = "beaten"]
    BY <2>1 DEF Gone
  <2>3. Untouched(p) /\ up'[p] = up[p]
    BY <1>1, <1>2, <2>2 DEF Untouched
  <2>4. ASSUME NEW m \in net', m.thread[1] = p PROVE m \in net
    <3>1. ASSUME NEW n \in net, n.thread[1] = q, m = Unheard(n) PROVE FALSE
      BY <2>4, <3>1, Fields, NetFields DEF ClusterIInv
    <3>2. QED
      BY <2>1, <2>4, <3>1 DEF Gone
  <2>5. \A m \in net : m.thread[1] = p => m \in net'
    BY <2>1 DEF Gone
  <2>6. QED
    BY <2>3, <2>4, <2>5 DEF SameRequests
<1>9. QED
  BY <1>5, <1>6, <1>7, <1>8 DEF ProcessStep

LEMMA ProcessStepStaysRegular ==
    ASSUME ClusterIInv, ClusterIInv', OrderIInv, LeaseSeconds > 1, AllRegular,
           NEW q \in Process, ProcessStep(q)
    PROVE  AllRegular'
<1>1. SUFFICES ASSUME NEW p \in Process, up'[p] = "up" PROVE Regular(p)'
  BY DEF AllRegular
<1>2. CASE p # q
  <2>1. Untouched(p) /\ SameRequests(p) /\ up[p] = "up"
    BY <1>1, <1>2, OthersLeftAlone
  <2>2. \A v \in Uses(p) : Kept(v)
    BY ProcessStepLeavesScheduler, OthersKept DEF Uses, ClusterIInv
  <2>3. QED
    BY <2>1, <2>2, LeftAlone DEF AllRegular
<1>3. CASE p = q
  <2>1. up \in [Process -> {"up", "stopping", "leaving", "down"}]
    BY DEF ClusterIInv, ProcessesOK
  <2>2. ~Stop(p) /\ ~SendUnregister(p) /\ ~Exit(p) /\ ~Crash(p)
    BY <1>1, <2>1 DEF Stop, SendUnregister, Exit, Crash, Gone
  <2>3. up' = up
    BY <1>3, <2>2 DEF ProcessStep, ClaimThreadStep, SendRegister, Registered, SendClaim,
              ClaimReturns, HandlerReturns, Completed, SendBeat, BeatReturns
  <2>4. up[p] = "up" /\ Regular(p)
    BY <1>1, <2>3 DEF AllRegular
  <2>5. QED
    BY <1>3, <2>2, <2>4, ClaimThreadStaysRegular, RegisteredIsRegular, BeatStaysRegular
       DEF ProcessStep
<1>4. QED
  BY <1>2, <1>3

-----------------------------------------------------------------------------
(* The coordinator serves a request                                         *)

LEMMA AnswerIsOneMessage ==
    ASSUME OrderIInv, NEW m \in net, m.heard, NEW v, NEW J, NEW word,
           net' = Answered(m, v, J, word)
    PROVE  \E n : /\ n.kind = "reply" /\ n.thread = m.thread /\ n.worker = v
                  /\ n.jobs = J /\ n.word = word
                  /\ net' = (net \ {m}) \cup {n}
                  /\ \A k \in net : k.thread = m.thread => k = m
<1>1. PICK n : n = Request("reply", m.thread, v, J, word)
  OBVIOUS
<1>2. /\ n.kind = "reply" /\ n.thread = m.thread /\ n.worker = v
      /\ n.jobs = J /\ n.word = word
  BY <1>1 DEF Request
<1>3. net' = (net \ {m}) \cup {n}
  BY <1>1 DEF Answered
<1>4. QED
  BY <1>2, <1>3 DEF OrderIInv, OneRequestEach

(* An answer that is not about job j to a request that was not about it.    *)
LEMMA AnswerHolds ==
    ASSUME OrderIInv, NEW m \in net, m.heard, m.kind # "reply",
           NEW v, NEW J, NEW word, net' = Answered(m, v, J, word),
           UNCHANGED processVars, NEW t, m.kind = "heartbeat" => m.thread # t,
           NEW j, m.thread = t => j \notin m.jobs /\ j \notin J
    PROVE  /\ Holds(t, j)' <=> Holds(t, j)
           /\ m.kind # "heartbeat" => (Renewed(t, j)' => Renewed(t, j))
<1>1. slot' = slot /\ beat' = beat
  BY DEF processVars
<1>2. PICK n : /\ n.kind = "reply" /\ n.thread = m.thread /\ n.jobs = J
               /\ net' = (net \ {m}) \cup {n}
  BY AnswerIsOneMessage
<1>3. Holds(t, j)' <=> Holds(t, j)
  BY <1>1, <1>2 DEF Holds
<1>4. ASSUME m.kind # "heartbeat", Renewed(t, j)' PROVE Renewed(t, j)
  <2>1. CASE \E k \in net' : k.kind = "reply" /\ k.thread = t /\ j \in k.jobs
    BY <1>2, <2>1 DEF Renewed
  <2>2. CASE beat'[t[1]] = "beaten"
    BY <1>1, <2>2 DEF Renewed
  <2>3. CASE /\ beat'[t[1]] = "sent"
             /\ ~ \E k \in net' : k.kind = "heartbeat" /\ k.thread = BeatThread(t[1])
                                  /\ j \in k.jobs
    BY <1>1, <1>2, <1>4, <2>3 DEF Renewed
  <2>4. QED
    BY <1>4, <2>1, <2>2, <2>3 DEF Renewed
<1>5. QED
  BY <1>3, <1>4

(* What is served for another process touches nothing of p.                 *)
LEMMA ServeOthersLeavesAlone ==
    ASSUME ClusterIInv, OrderIInv, NEW p \in Process, NEW m \in net,
           m.thread[1] # p, Serve(m)
    PROVE  Untouched(p) /\ SameRequests(p) /\ \A v \in Uses(p) : Kept(v)
<1> DEFINE q == m.thread[1]
<1>1. UNCHANGED processVars /\ IInv /\ NetOK
  BY DEF Serve, ClusterIInv
<1>2. m \in Message /\ q \in Process /\ live \subseteq Worker /\ LiveAfterReap \subseteq Worker
  BY <1>1, NetFields DEF IInv, TypeOK, LiveAfterReap
<1>3. ASSUME NEW v \in Uses(p) PROVE v \in Worker /\ m.worker # v
  <2>1. v \in Worker
    BY DEF Uses
  <2>2. m.worker \in Worker => m.worker \in Uses(q)
    BY DEF Uses
  <2>3. QED
    BY <1>2, <2>1, <2>2 DEF OrderIInv, IdsAreUnique
<1>4. Untouched(p)
  BY <1>1 DEF processVars, Untouched
<1>5. SameRequests(p)
  <2>1. net' = net \/ \E w, J, word : net' = Answered(m, w, J, word)
    BY DEF Serve, ServeRegister, ServeClaim, ServeComplete, ServeHeartbeat, ServeUnregister
  <2>2. ASSUME NEW w, NEW J, NEW word, net' = Answered(m, w, J, word)
        PROVE  SameRequests(p)
    <3>1. PICK n : n = Request("reply", m.thread, w, J, word)
      OBVIOUS
    <3>2. n.thread = m.thread
      BY <3>1 DEF Request
    <3>3. net' \in {net \ {m}, (net \ {m}) \cup {n}}
      BY <2>2, <3>1 DEF Answered
    <3>4. QED
      BY <3>2, <3>3 DEF SameRequests
  <2>3. QED
    BY <2>1, <2>2 DEF SameRequests
<1>6. ASSUME NEW v \in Uses(p) PROVE Kept(v)
  <2>1. v \in Worker /\ m.worker # v
    BY <1>3
  <2>2. CASE ServeRegister(m)
    <3>1. PICK w \in Worker : FreshWorker(w) /\ RegisterWorker(w)
      BY <2>2 DEF ServeRegister
    <3>2. w # v
      BY <3>1 DEF FreshWorker, Uses
    <3>3. QED
      BY <1>1, <2>1, <3>1, <3>2, OthersKept
  <2>3. CASE ServeClaim(m)
    <3>1. CASE Reap
      BY <1>1, <2>1, <3>1, SeenKeeps
    <3>2. CASE \E c : ClaimJob(m.worker, c) \/ ClaimNothing(m.worker, c)
      <4>1. m.worker \in Worker
        BY <1>2, <3>2 DEF ClaimJob, ClaimNothing
      <4>2. QED
        BY <1>1, <2>1, <3>2, <4>1, SeenKeeps
    <3>3. QED
      BY <2>3, <3>1, <3>2 DEF ServeClaim
  <2>4. CASE ServeComplete(m)
    <3>1. PICK j \in m.jobs : UNCHANGED vars \/ Finish(m.worker, j, m.word)
      BY <2>4 DEF ServeComplete
    <3>2. CASE UNCHANGED vars
      BY <1>1, <2>1, <3>2, OthersKept
    <3>3. CASE Finish(m.worker, j, m.word)
      <4>1. j \in Job /\ m.word \in Terminal
        BY <1>1, <1>2, <2>4 DEF ServeComplete, NetOK, WellFormed, Message
      <4>2. m.worker \in Worker
        BY <1>1, <3>3, <4>1 DEF Finish, MayComplete, IInv, UnfinishedJobsAreAccountedFor
      <4>3. QED
        BY <1>1, <2>1, <3>3, <4>1, <4>2, OthersKept
    <3>4. QED
      BY <3>1, <3>2, <3>3
  <2>5. CASE ServeHeartbeat(m)
    <3>1. CASE Reap
      BY <1>1, <2>1, <3>1, SeenKeeps
    <3>2. CASE Heartbeat(m.worker, m.jobs)
      <4>1. m.worker \in Worker
        BY <1>2, <3>2 DEF Heartbeat
      <4>2. QED
        BY <1>1, <2>1, <3>2, <4>1, SeenKeeps
    <3>3. QED
      BY <2>5, <3>1, <3>2 DEF ServeHeartbeat
  <2>6. CASE ServeUnregister(m)
    <3>1. CASE UNCHANGED vars
      BY <1>1, <2>1, <3>1, OthersKept
    <3>2. CASE Unregister(m.worker)
      <4>1. m.worker \in Worker
        BY <1>2, <3>2 DEF Unregister
      <4>2. QED
        BY <1>1, <2>1, <3>2, <4>1, OthersKept
    <3>3. QED
      BY <2>6, <3>1, <3>2 DEF ServeUnregister
  <2>7. QED
    BY <2>2, <2>3, <2>4, <2>5, <2>6 DEF Serve
<1>7. QED
  BY <1>4, <1>5, <1>6

(* A claim hands one job to its worker and leaves the rest to what a reap   *)
(* does.                                                                    *)
LEMMA ClaimedJob ==
    ASSUME IInv, NEW v \in Worker, NEW c, ClaimJob(v, c)
    PROVE  /\ KeptRecord(v)
           /\ \E k \in Job :
                 /\ status'[k] = "leased" /\ owner'[k] = v /\ lease'[k] = LeaseSeconds
                 /\ CapabilityOf[k] = c
                 /\ {j \in Job : attempts'[j] # attempts[j]} = {k}
                 /\ \A j \in Job : j # k => KeptJob(v, j)
<1>1. TypeOK
  BY DEF IInv
<1>2. PICK q \in QueuesAfterReap : \E i \in DOMAIN q :
           /\ IsOldestMatch(q, StatusAfterRetry(Reaped), i, c)
           /\ status' = [StatusAfterRetry(Reaped) EXCEPT ![q[i]] = "leased"]
           /\ owner' = [OwnerAfterRetry(Reaped) EXCEPT ![q[i]] = v]
           /\ attempts' = [attempts EXCEPT ![q[i]] = @ + 1]
           /\ lease' = [LeaseAfterRetry(Reaped) EXCEPT ![q[i]] = LeaseSeconds]
           /\ live' = LiveAfterReap /\ silent' = [SilentAfterReap EXCEPT ![v] = 0]
  BY DEF ClaimJob
<1>3. PICK i \in DOMAIN q :
           /\ IsOldestMatch(q, StatusAfterRetry(Reaped), i, c)
           /\ status' = [StatusAfterRetry(Reaped) EXCEPT ![q[i]] = "leased"]
           /\ owner' = [OwnerAfterRetry(Reaped) EXCEPT ![q[i]] = v]
           /\ attempts' = [attempts EXCEPT ![q[i]] = @ + 1]
           /\ lease' = [LeaseAfterRetry(Reaped) EXCEPT ![q[i]] = LeaseSeconds]
  BY <1>2
<1> DEFINE k == q[i]
<1>4. k \in Job /\ CapabilityOf[k] = c
  BY <1>3, ReapQueue, ElementOfSeq DEF IsOldestMatch
<1> HIDE DEF k
<1>5. /\ status'[k] = "leased" /\ owner'[k] = v /\ lease'[k] = LeaseSeconds
      /\ \A j \in Job : j # k => /\ status'[j] = StatusAfterRetry(Reaped)[j]
                                 /\ owner'[j] = OwnerAfterRetry(Reaped)[j]
                                 /\ lease'[j] = LeaseAfterRetry(Reaped)[j]
  BY <1>1, <1>3, <1>4, RetryTypes, ReapedAreLeased DEF k
<1>6. {j \in Job : attempts'[j] # attempts[j]} = {k}
  <2>1. attempts \in [Job -> 0..20]
    BY <1>1 DEF TypeOK
  <2>2. attempts' = [attempts EXCEPT ![k] = @ + 1]
    BY <1>3 DEF k
  <2>3. QED
    BY <1>4, <2>1, <2>2
<1>7. KeptRecord(v)
  <2>1. silent'[v] = 0 /\ live' = LiveAfterReap
    BY <1>1, <1>2, ReapTypes
  <2>2. v \in live /\ silent[v] <= 1 => silent[v] \in Nat
    BY <1>1, SchedulerAssumption DEF TypeOK
  <2>3. QED
    BY <2>1, <2>2, ReapKeepsOthers DEF KeptRecord
<1>8. ASSUME NEW j \in Job, j # k PROVE KeptJob(v, j)
  <2>1. lease[j] \in Nat
    BY <1>1, SchedulerAssumption DEF TypeOK
  <2>2. QED
    BY <1>5, <1>8, <2>1, ReapKeepsOthers DEF KeptJob
<1>9. QED
  BY <1>4, <1>5, <1>6, <1>7, <1>8

(* The reply fits what its thread waits for.                                *)
AnswerFits(p, m, v, word) ==
    \A n \in net' : (n.kind = "reply" /\ n.thread = m.thread /\ n.worker = v
                       /\ n.jobs = {} /\ n.word = word) => WellAddressed(p, n)'

LEMMA EmptyAnswerStays ==
    ASSUME ClusterIInv, ClusterIInv', OrderIInv, LeaseSeconds > 1,
           NEW p \in Process, up[p] = "up", Regular(p), UNCHANGED processVars,
           NEW m \in net, m.thread[1] = p, m.kind \notin {"reply", "heartbeat"}, m.jobs = {},
           NEW v, NEW word, net' = Answered(m, v, {}, word),
           \A u \in Uses(p) : Kept(u),
           AnswerFits(p, m, v, word)
    PROVE  Regular(p)'
<1>1. Untouched(p) /\ m.heard
  BY RequestsAreExpected DEF processVars, Untouched, ClusterIInv
<1>2. Known(p)' /\ Addressed(p)'
  <2>1. PICK n : /\ n.kind = "reply" /\ n.thread = m.thread /\ n.worker = v
                 /\ n.jobs = {} /\ n.word = word
                 /\ net' = (net \ {m}) \cup {n}
    BY <1>1, AnswerIsOneMessage
  <2>2. \A k \in net' : k.thread[1] = p /\ k \notin net => WellAddressed(p, k)'
    BY <2>1 DEF AnswerFits
  <2>3. \A u \in Uses(p) : /\ KeptRecord(u)
                           /\ u # reg[p] => \A j \in Job : owner'[j] = u => owner[j] = u
    BY DEF Kept, KeptJob
  <2>4. QED
    BY <1>1, <2>2, <2>3, RecordStays DEF Regular
<1>3. ASSUME NEW j \in Job PROVE WellHeld(p, j)'
  <2>1. \A c \in Serves[p] : /\ Holds(<<p, c>>, j)' <=> Holds(<<p, c>>, j)
                             /\ Renewed(<<p, c>>, j)' => Renewed(<<p, c>>, j)
    BY <1>1, AnswerHolds
  <2>2. reg[p] # NoWorker => KeptJob(reg[p], j)
    BY DEF Kept, Uses, ClusterIInv, ProcessesOK
  <2>3. QED
    BY <1>1, <2>1, <2>2, JobStays DEF Regular
<1>4. QED
  BY <1>2, <1>3 DEF Regular

(* A process that is up has requests of the kinds its threads wait for.     *)
LEMMA OwnRequests ==
    ASSUME ClusterIInv, OrderIInv, NEW p \in Process, up[p] = "up", Regular(p),
           NEW m \in net, m.thread[1] = p
    PROVE  /\ m.heard /\ m.kind # "unregister"
           /\ m.kind = "register" => /\ m.thread \in ClaimThread /\ m.jobs = {}
                                     /\ slot[m.thread].at = "registering"
           /\ m.kind = "claim" => /\ m.thread \in ClaimThread /\ m.jobs = {}
                                  /\ slot[m.thread].at = "claiming"
           /\ m.kind = "complete" => /\ m.thread \in ClaimThread
                                     /\ slot[m.thread].at = "completing"
           /\ m.kind = "heartbeat" => m.thread = BeatThread(p) /\ beat[p] = "sent"
           /\ m.thread \in ClaimThread =>
                 m.thread = <<p, m.thread[2]>> /\ m.thread[2] \in Serves[p]
           /\ m.kind \in {"claim", "complete", "heartbeat"} =>
                 /\ m.worker = reg[p] /\ reg[p] \in Worker /\ reg[p] \in Uses(p)
                 /\ reg[p] \in live /\ silent[reg[p]] <= 1 /\ reg[p] \in LiveAfterReap
<1>1. m.heard /\ Expected(m) /\ m.thread \in Thread
  BY RequestsAreExpected, NetFields DEF ClusterIInv
<1>2. m.thread \in ClaimThread \/ m.thread = BeatThread(p)
  BY <1>1, ThreadNames DEF Expected
<1>3. /\ m.thread \in ClaimThread => /\ ClaimExpects(slot[m.thread], m)
                                     /\ m.thread = <<p, m.thread[2]>>
                                     /\ m.thread[2] \in Serves[p]
      /\ m.thread = BeatThread(p) => beat[p] = "sent" /\ m.kind \in {"heartbeat", "reply"}
  BY <1>1, ThreadNames DEF Expected
<1>4. ASSUME m.kind \in {"claim", "complete", "heartbeat"}
      PROVE  /\ m.worker = reg[p] /\ reg[p] \in Worker /\ reg[p] \in Uses(p)
             /\ reg[p] \in live /\ silent[reg[p]] <= 1 /\ reg[p] \in LiveAfterReap
  <2>1. m.worker = reg[p]
    BY <1>4 DEF Regular, Addressed, WellAddressed
  <2>2. reg[p] # NoWorker
    <3>1. CASE m.thread \in ClaimThread
      <4>1. slot[m.thread].at \in {"claiming", "completing"}
        BY <1>3, <1>4, <3>1 DEF ClaimExpects
      <4>2. QED
        BY <1>3, <3>1, <4>1 DEF Regular, Known
    <3>2. CASE m.thread = BeatThread(p)
      BY <1>3, <3>2 DEF Regular, Known
    <3>3. QED
      BY <1>2, <3>1, <3>2
  <2>3. reg[p] \in live /\ silent[reg[p]] <= 1
    BY <2>2 DEF Regular, Known
  <2>4. reg[p] \in Worker /\ silent[reg[p]] \in Nat
    BY <2>3, SchedulerAssumption DEF ClusterIInv, IInv, TypeOK
  <2>5. reg[p] \in LiveAfterReap
    BY <2>3, <2>4, SchedulerAssumption DEF LiveAfterReap
  <2>6. QED
    BY <2>1, <2>3, <2>4, <2>5 DEF Uses
<1>5. m.kind \in {"register", "claim", "complete"} => m.thread \in ClaimThread
  BY <1>2, <1>3
<1>6. QED
  BY <1>1, <1>2, <1>3, <1>4, <1>5 DEF ClaimExpects

LEMMA OwnRegisterStaysRegular ==
    ASSUME ClusterIInv, ClusterIInv', OrderIInv, LeaseSeconds > 1,
           NEW p \in Process, up[p] = "up", Regular(p), UNCHANGED processVars,
           NEW m \in net, m.thread[1] = p, ServeRegister(m)
    PROVE  Regular(p)'
<1>1. PICK w \in Worker : /\ FreshWorker(w) /\ RegisterWorker(w)
                          /\ net' = Answered(m, w, {}, "ok")
  BY DEF ServeRegister
<1>2. m.kind = "register" /\ m.jobs = {} /\ m.thread \in ClaimThread
      /\ slot[m.thread].at = "registering"
  BY OwnRequests DEF ServeRegister
<1>3. \A u \in Uses(p) : Kept(u)
  <2>1. \A u \in Uses(p) : u \in Worker /\ w # u
    BY <1>1 DEF FreshWorker, Uses
  <2>2. QED
    BY <1>1, <2>1, OthersKept DEF ClusterIInv
<1>4. /\ w \in live' /\ silent'[w] = 0
      /\ \A j \in Job : owner'[j] # w
  BY <1>1 DEF RegisterWorker, jobVars, ClusterIInv, IInv, TypeOK
<1>5. ASSUME NEW n \in net', n.kind = "reply", n.thread = m.thread, n.worker = w,
             n.jobs = {}, n.word = "ok"
      PROVE  WellAddressed(p, n)'
  <2>1. slot' = slot
    BY DEF processVars
  <2>2. n.thread # BeatThread(p)
    BY <1>2, <1>5, ThreadNames
  <2>3. QED
    BY <1>2, <1>4, <1>5, <2>1, <2>2 DEF WellAddressed
<1>6. AnswerFits(p, m, w, "ok")
  BY <1>5 DEF AnswerFits
<1>7. m.kind \notin {"reply", "heartbeat"} /\ net' = Answered(m, w, {}, "ok")
  BY <1>1, <1>2
<1>8. QED
  BY <1>2, <1>3, <1>6, <1>7, EmptyAnswerStays

LEMMA OwnClaimStaysRegular ==
    ASSUME ClusterIInv, ClusterIInv', OrderIInv, LeaseSeconds > 1,
           NEW p \in Process, up[p] = "up", Regular(p), UNCHANGED processVars,
           NEW m \in net, m.thread[1] = p, ServeClaim(m)
    PROVE  Regular(p)'
<1> DEFINE t == m.thread
           c == t[2]
           w == reg[p]
<1>1. /\ m.kind = "claim" /\ m.heard /\ m.jobs = {} /\ m.worker = w
      /\ t \in ClaimThread /\ t = <<p, c>> /\ c \in Serves[p] /\ slot[t].at = "claiming"
      /\ w \in Worker /\ w \in Uses(p) /\ w \in LiveAfterReap
  BY OwnRequests DEF ServeClaim
<1>2. /\ reg' = reg /\ slot' = slot /\ beat' = beat /\ Untouched(p) /\ IInv
      /\ t # BeatThread(p)
  BY <1>1, ThreadNames DEF processVars, Untouched, ClusterIInv
<1>3. CASE /\ ClaimNothing(w, c)
           /\ net' \in {net, Answered(m, NoWorker, {}, "none")}
  <2>1. \A u \in Uses(p) : Kept(u)
    BY <1>1, <1>2, <1>3, SeenKeeps DEF Uses
  <2>2. CASE net' = net
    BY <1>2, <2>1, <2>2, LeftAlone DEF SameRequests
  <2>3. CASE net' = Answered(m, NoWorker, {}, "none")
    <3>1. ASSUME NEW n \in net', n.kind = "reply", n.thread = t, n.worker = NoWorker,
                 n.jobs = {}, n.word = "none"
          PROVE  WellAddressed(p, n)'
      BY <1>1, <1>2, <3>1 DEF WellAddressed
    <3>2. AnswerFits(p, m, NoWorker, "none")
      BY <3>1 DEF AnswerFits
    <3>3. m.kind \notin {"reply", "heartbeat"} /\ m.jobs = {}
      BY <1>1
    <3>4. QED
      BY <2>1, <2>3, <3>2, <3>3, EmptyAnswerStays
  <2>4. QED
    BY <1>3, <2>2, <2>3
<1>4. CASE /\ ClaimJob(w, c)
           /\ net' = Answered(m, w, {j \in Job : attempts'[j] # attempts[j]}, "ok")
  <2>1. KeptRecord(w)
    BY <1>1, <1>2, <1>4, ClaimedJob
  <2>2. PICK k \in Job :
             /\ status'[k] = "leased" /\ owner'[k] = w /\ lease'[k] = LeaseSeconds
             /\ CapabilityOf[k] = c
             /\ {j \in Job : attempts'[j] # attempts[j]} = {k}
             /\ \A j \in Job : j # k => KeptJob(w, j)
    BY <1>1, <1>2, <1>4, ClaimedJob
  <2>3. net' = Answered(m, w, {k}, "ok")
    BY <1>4, <2>2
  <2> HIDE DEF t, c, w
  <2>4. PICK n : /\ n.kind = "reply" /\ n.thread = t /\ n.worker = w
                 /\ n.jobs = {k} /\ n.word = "ok"
                 /\ net' = (net \ {m}) \cup {n}
    BY <1>1, <2>3, AnswerIsOneMessage DEF t
  <2>5. WellAddressed(p, n)'
    BY <1>1, <1>2, <2>4 DEF WellAddressed, w
  <2>6. Known(p)' /\ Addressed(p)'
    <3>1. ASSUME NEW u \in Uses(p), u # w PROVE Kept(u)
      BY <1>1, <1>2, <1>4, <3>1, SeenKeeps DEF Uses
    <3>2. \A k1 \in net' : k1.thread[1] = p /\ k1 \notin net => WellAddressed(p, k1)'
      BY <2>4, <2>5
    <3>3. \A u \in Uses(p) : /\ KeptRecord(u)
                             /\ u # w => \A j \in Job : owner'[j] = u => owner[j] = u
      BY <2>1, <3>1 DEF Kept, KeptJob
    <3>4. QED
      BY <1>2, <3>2, <3>3, RecordStays DEF Regular, w
  <2>7. ASSUME NEW j \in Job, j # k PROVE WellHeld(p, j)'
    <3>1. j \notin m.jobs /\ j \notin {k}
      BY <1>1, <2>7
    <3>2. \A d \in Serves[p] : /\ Holds(<<p, d>>, j)' <=> Holds(<<p, d>>, j)
                               /\ Renewed(<<p, d>>, j)' => Renewed(<<p, d>>, j)
      BY <1>1, <2>3, <3>1, AnswerHolds DEF t
    <3>3. KeptJob(reg[p], j)
      BY <2>2, <2>7 DEF w
    <3>4. QED
      BY <1>2, <3>2, <3>3, JobStays DEF Regular
  <2>8. WellHeld(p, k)'
    <3>1. Holds(t, k)'
      BY <2>4 DEF Holds
    <3>2. LeasedIsHeld(p, k)'
      BY <1>1, <2>2, <3>1 DEF LeasedIsHeld
    <3>3. ASSUME NEW d \in Serves[p], d # c PROVE ~Holds(<<p, d>>, k)'
      <4>1. ~Holds(<<p, d>>, k)
        BY <2>2, <3>3 DEF Regular, WellHeld, LeaseIsRenewed
      <4>2. <<p, d>> # t
        BY <1>1, <3>3
      <4>3. QED
        BY <1>2, <2>4, <4>1, <4>2 DEF Holds
    <3>4. LeaseIsRenewed(p, k)'
      <4>1. LeaseSeconds >= LeaseSeconds - 1
        BY SchedulerAssumption
      <4>2. QED
        BY <1>2, <2>2, <3>3, <4>1 DEF LeaseIsRenewed, w
    <3>5. QED
      BY <3>2, <3>4 DEF WellHeld
  <2>9. QED
    BY <2>6, <2>7, <2>8 DEF Regular
<1>5. QED
  BY <1>1, <1>3, <1>4 DEF ServeClaim

LEMMA OwnCompleteStaysRegular ==
    ASSUME ClusterIInv, ClusterIInv', OrderIInv, LeaseSeconds > 1,
           NEW p \in Process, up[p] = "up", Regular(p), UNCHANGED processVars,
           NEW m \in net, m.thread[1] = p, ServeComplete(m)
    PROVE  Regular(p)'
<1> DEFINE t == m.thread
           c == t[2]
           w == reg[p]
<1>1. /\ m.kind = "complete" /\ m.heard /\ m.worker = w
      /\ t \in ClaimThread /\ t = <<p, c>> /\ c \in Serves[p] /\ slot[t].at = "completing"
      /\ w \in Worker /\ w \in Uses(p)
  BY OwnRequests DEF ServeComplete
<1>2. /\ reg' = reg /\ slot' = slot /\ beat' = beat /\ Untouched(p) /\ IInv
      /\ t # BeatThread(p)
  BY <1>1, ThreadNames DEF processVars, Untouched, ClusterIInv
<1>3. \A j \in m.jobs : j \in Job
  BY NetFields DEF ClusterIInv
<1>4. \A j \in m.jobs : status[j] = "leased" /\ owner[j] = w /\ CapabilityOf[j] = c
  BY <1>1, <1>3 DEF Regular, WellHeld, LeaseIsRenewed, Holds
<1>5. PICK k \in m.jobs : /\ Finish(w, k, m.word)
                          /\ net' = Answered(m, NoWorker, {}, "ok")
  BY <1>1, <1>4 DEF ServeComplete, MayComplete
<1>6. \A j \in m.jobs : j = k
  BY <1>1 DEF OrderIInv, OneJobEach
<1>7. /\ status' = [status EXCEPT ![k] = m.word] /\ lease' = [lease EXCEPT ![k] = 0]
      /\ owner' = owner /\ live' = live /\ silent' = silent
  BY <1>5 DEF Finish
<1>8. TypeOK /\ m.word \in Terminal
  BY <1>1 DEF ClusterIInv, IInv, NetOK, WellFormed
<1> HIDE DEF t, c, w
<1>9. PICK n : /\ n.kind = "reply" /\ n.thread = t /\ n.worker = NoWorker
               /\ n.jobs = {} /\ n.word = "ok"
               /\ net' = (net \ {m}) \cup {n}
               /\ \A l \in net : l.thread = t => l = m
  BY <1>1, <1>5, AnswerIsOneMessage DEF t
<1>10. Known(p)' /\ Addressed(p)'
  <2>1. \A u \in Uses(p) : /\ KeptRecord(u)
                           /\ u # reg[p] => \A j \in Job : owner'[j] = u => owner[j] = u
    <3>1. \A u \in Uses(p) : silent[u] \in Nat
      BY <1>8, SchedulerAssumption DEF Uses, TypeOK
    <3>2. QED
      BY <1>7, <3>1 DEF KeptRecord
  <2>2. WellAddressed(p, n)'
    BY <1>1, <1>2, <1>9 DEF WellAddressed
  <2>3. \A l \in net' : l.thread[1] = p /\ l \notin net => WellAddressed(p, l)'
    BY <1>9, <2>2
  <2>4. QED
    BY <1>2, <2>1, <2>3, RecordStays DEF Regular
<1>11. ASSUME NEW j \in Job, j # k PROVE WellHeld(p, j)'
  <2>1. j \notin m.jobs
    BY <1>6, <1>11
  <2>2. \A d \in Serves[p] : /\ Holds(<<p, d>>, j)' <=> Holds(<<p, d>>, j)
                             /\ Renewed(<<p, d>>, j)' => Renewed(<<p, d>>, j)
    BY <1>1, <1>5, <2>1, AnswerHolds DEF t
  <2>3. KeptJob(reg[p], j)
    <3>1. status'[j] = status[j] /\ lease'[j] = lease[j] /\ lease[j] \in Nat
      BY <1>7, <1>8, <1>11, SchedulerAssumption DEF TypeOK
    <3>2. QED
      BY <1>7, <3>1 DEF KeptJob
  <2>4. QED
    BY <1>2, <2>2, <2>3, JobStays DEF Regular
<1>12. WellHeld(p, k)'
  <2>1. status'[k] # "leased"
    BY <1>3, <1>5, <1>7, <1>8 DEF TypeOK, Terminal
  <2>2. ASSUME NEW d \in Serves[p] PROVE ~Holds(<<p, d>>, k)'
    <3>1. CASE d = c
      BY <1>1, <1>2, <1>9, <3>1 DEF Holds
    <3>2. CASE d # c
      <4>1. ~Holds(<<p, d>>, k)
        BY <1>3, <1>4, <1>5, <3>2 DEF Regular, WellHeld, LeaseIsRenewed
      <4>2. <<p, d>> # t
        BY <1>1, <3>2
      <4>3. QED
        BY <1>2, <1>9, <4>1, <4>2 DEF Holds
    <3>3. QED
      BY <3>1, <3>2
  <2>3. QED
    BY <2>1, <2>2 DEF WellHeld, LeaseIsRenewed, LeasedIsHeld
<1>13. QED
  BY <1>10, <1>11, <1>12 DEF Regular

LEMMA OwnBeatStaysRegular ==
    ASSUME ClusterIInv, ClusterIInv', OrderIInv, LeaseSeconds > 1,
           NEW p \in Process, up[p] = "up", Regular(p), UNCHANGED processVars,
           NEW m \in net, m.thread[1] = p, ServeHeartbeat(m)
    PROVE  Regular(p)'
<1> DEFINE t == m.thread
           w == reg[p]
<1>1. /\ m.kind = "heartbeat" /\ m.heard /\ m.worker = w /\ t = BeatThread(p)
      /\ beat[p] = "sent"
      /\ w \in Worker /\ w \in Uses(p) /\ w \in LiveAfterReap
      /\ w \in live /\ silent[w] <= 1
  BY OwnRequests DEF ServeHeartbeat
<1>2. /\ reg' = reg /\ slot' = slot /\ beat' = beat /\ Untouched(p) /\ IInv
      /\ t \notin ClaimThread /\ BeatThread(p)[1] = p
  BY <1>1, ThreadNames DEF processVars, Untouched, ClusterIInv
<1>3. Heartbeat(w, m.jobs) /\ net' = Answered(m, NoWorker, {}, "ok")
  BY <1>1 DEF ServeHeartbeat
<1>4. \A u \in Uses(p) : Kept(u)
  BY <1>1, <1>2, <1>3, SeenKeeps DEF Uses
<1>5. silent'[w] = 0
  BY <1>1, <1>2, <1>3, ReapTypes DEF Heartbeat, IInv
<1> HIDE DEF t, w
<1>6. PICK n : /\ n.kind = "reply" /\ n.thread = t /\ n.worker = NoWorker
               /\ n.jobs = {} /\ n.word = "ok"
               /\ net' = (net \ {m}) \cup {n}
               /\ \A l \in net : l.thread = t => l = m
  BY <1>1, <1>3, AnswerIsOneMessage DEF t
<1>7. Known(p)' /\ Addressed(p)'
  <2>1. \A u \in Uses(p) : /\ KeptRecord(u)
                           /\ u # reg[p] => \A j \in Job : owner'[j] = u => owner[j] = u
    BY <1>4 DEF Kept, KeptJob
  <2>2. WellAddressed(p, n)'
    BY <1>2, <1>5, <1>6 DEF WellAddressed, w
  <2>3. \A l \in net' : l.thread[1] = p /\ l \notin net => WellAddressed(p, l)'
    BY <1>6, <2>2
  <2>4. QED
    BY <1>2, <2>1, <2>3, RecordStays DEF Regular
<1>8. ASSUME NEW j \in Job PROVE WellHeld(p, j)'
  <2>1. KeptJob(w, j)
    BY <1>1, <1>4 DEF Kept
  <2>2. ASSUME NEW d \in Serves[p]
        PROVE  Holds(<<p, d>>, j)' <=> Holds(<<p, d>>, j)
    <3>1. <<p, d>> # t
      BY <1>2, ThreadNames
    <3>2. QED
      BY <1>1, <1>3, <3>1, AnswerHolds DEF t
  <2>3. ASSUME NEW d \in Serves[p], Holds(<<p, d>>, j), j \in m.jobs
        PROVE  lease'[j] = LeaseSeconds
    <3>1. status[j] = "leased" /\ owner[j] = w /\ lease[j] > 0
      <4>1. /\ status[j] = "leased" /\ owner[j] = w /\ lease[j] >= LeaseSeconds - 1
            /\ lease[j] \in Nat /\ LeaseSeconds \in Nat
        BY <1>2, <2>3, SchedulerAssumption
           DEF Regular, WellHeld, LeaseIsRenewed, IInv, TypeOK, w
      <4>2. QED
        BY <4>1
    <3>2. status'[j] = "leased" /\ owner'[j] = w
      BY <1>1, <2>1, <3>1 DEF KeptJob
    <3>3. QED
      BY <1>3, <2>3, <3>2 DEF Heartbeat, RenewedLease
  <2>4. ASSUME NEW d \in Serves[p], j \notin m.jobs
        PROVE  Renewed(<<p, d>>, j)
    BY <1>1, <1>6, <2>4 DEF Renewed
  <2>5. QED
    BY <1>2, <2>1, <2>2, <2>3, <2>4, JobStays DEF Regular, w
<1>9. QED
  BY <1>7, <1>8 DEF Regular

LEMMA ServeStaysRegular ==
    ASSUME ClusterIInv, ClusterIInv', OrderIInv, LeaseSeconds > 1, AllRegular,
           NEW m \in net, Serve(m)
    PROVE  AllRegular'
<1>1. UNCHANGED processVars
  BY DEF Serve
<1>2. SUFFICES ASSUME NEW p \in Process, up[p] = "up" PROVE Regular(p)'
  BY <1>1 DEF AllRegular, processVars
<1>3. Regular(p)
  BY <1>2 DEF AllRegular
<1>4. CASE m.thread[1] # p
  BY <1>2, <1>3, <1>4, ServeOthersLeavesAlone, LeftAlone
<1>5. CASE m.thread[1] = p
  <2>1. ~ServeUnregister(m)
    BY <1>2, <1>3, <1>5, OwnRequests DEF ServeUnregister
  <2>2. QED
    BY <1>1, <1>2, <1>3, <1>5, <2>1, OwnRegisterStaysRegular, OwnClaimStaysRegular,
       OwnCompleteStaysRegular, OwnBeatStaysRegular DEF Serve
<1>6. QED
  BY <1>4, <1>5

-----------------------------------------------------------------------------
(* Time passes                                                              *)

(* A tick that is on time finds every lease of a live process renewed.      *)
LEMMA TickStaysRegular ==
    ASSUME ClusterIInv, OrderIInv, LeaseSeconds > 1, AllRegular, RegularTick
    PROVE  AllRegular'
<1>1. /\ reg' = reg /\ slot' = slot /\ up' = up /\ net' = net
      /\ status' = status /\ owner' = owner /\ live' = live
      /\ \A j \in Job : lease'[j] = IF lease[j] > 0 THEN lease[j] - 1 ELSE 0
      /\ \A v \in Worker : v \in live /\ silent[v] <= WorkerTTL => silent'[v] = silent[v] + 1
      /\ \A p \in Process : beat'[p] = IF up[p] = "up" /\ beat[p] = "beaten" THEN "due"
                                       ELSE beat[p]
  BY DEF RegularTick, Passing, Tick
<1>2. TypeOK /\ NetOK /\ beat \in [Process -> {"due", "sent", "beaten"}]
  BY DEF ClusterIInv, IInv, ProcessesOK
<1>3. SUFFICES ASSUME NEW p \in Process, up[p] = "up" PROVE Regular(p)'
  BY <1>1 DEF AllRegular
<1>4. Regular(p)
  BY <1>3 DEF AllRegular
<1>5. reg[p] # NoWorker => beat[p] = "beaten"
  BY <1>3 DEF RegularTick, OnTime
<1>6. beat'[p] = "due"
  BY <1>1, <1>2, <1>3, <1>4, <1>5 DEF Regular, Known
<1>7. Known(p)'
  <2>1. ASSUME reg[p] # NoWorker PROVE reg[p] \in live /\ silent'[reg[p]] <= 1
    <3>1. reg[p] \in live /\ silent[reg[p]] = 0
      BY <1>4, <1>5, <2>1 DEF Regular, Known
    <3>2. reg[p] \in Worker
      BY <1>2, <3>1 DEF TypeOK
    <3>3. silent'[reg[p]] = 1
      BY <1>1, <3>1, <3>2, SchedulerAssumption
    <3>4. QED
      BY <3>1, <3>3
  <2>2. QED
    BY <1>1, <1>4, <1>6, <2>1 DEF Regular, Known
<1>8. \A m \in net : m.thread[1] = p => m.kind = "claim"
  BY <1>2, <1>3, RequestsAreExpected DEF RegularTick, OnTime
<1>9. Addressed(p)'
  BY <1>1, <1>4, <1>8 DEF Regular, Addressed, WellAddressed
<1>10. ASSUME NEW j \in Job PROVE WellHeld(p, j)'
  <2>1. WellHeld(p, j)
    BY <1>4 DEF Regular
  <2>2. lease[j] \in Nat /\ LeaseSeconds \in Nat
    BY <1>2, SchedulerAssumption DEF TypeOK
  <2>3. ASSUME NEW c \in Serves[p], Holds(<<p, c>>, j)'
        PROVE  /\ status'[j] = "leased" /\ owner'[j] = reg[p] /\ CapabilityOf[j] = c
               /\ lease'[j] >= LeaseSeconds - 1 /\ ~Renewed(<<p, c>>, j)'
    <3>1. Holds(<<p, c>>, j)
      BY <1>1, <2>3 DEF Holds
    <3>2. status[j] = "leased" /\ owner[j] = reg[p] /\ CapabilityOf[j] = c
      BY <2>1, <3>1 DEF WellHeld, LeaseIsRenewed
    <3>3. reg[p] # NoWorker
      BY <3>2, SchedulerAssumption DEF ClusterIInv, IInv, UnfinishedJobsAreAccountedFor
    <3>4. Renewed(<<p, c>>, j)
      BY <1>5, <3>3 DEF Renewed
    <3>5. lease[j] = LeaseSeconds
      BY <2>1, <3>1, <3>4 DEF WellHeld, LeaseIsRenewed
    <3>6. lease'[j] >= LeaseSeconds - 1
      BY <1>1, <2>2, <3>5
    <3>7. ~Renewed(<<p, c>>, j)'
      <4>1. <<p, c>>[1] = p /\ \A m \in net : m.thread = <<p, c>> => m.kind # "reply"
        BY <1>8
      <4>2. QED
        BY <1>1, <1>6, <4>1 DEF Renewed
    <3>8. QED
      BY <1>1, <3>2, <3>6, <3>7
  <2>4. LeasedIsHeld(p, j)'
    BY <1>1, <2>1 DEF WellHeld, LeasedIsHeld, Holds
  <2>5. QED
    BY <1>1, <2>3, <2>4 DEF WellHeld, LeaseIsRenewed
<1>11. QED
  BY <1>7, <1>9, <1>10 DEF Regular

(* Clients do not reach the processes.                                      *)
LEMMA ClientsStayRegular ==
    ASSUME ClusterIInv, ClusterIInv', OrderIInv, LeaseSeconds > 1, AllRegular,
           \/ \E j \in Job : ClientSubmits(j)
           \/ ClientPolls \/ UNCHANGED clusterVars
    PROVE  AllRegular'
<1>1. UNCHANGED processVars /\ net' = net
  BY DEF ClientSubmits, ClientPolls, clusterVars
<1>2. SUFFICES ASSUME NEW p \in Process, up[p] = "up" PROVE Regular(p)'
  BY <1>1 DEF AllRegular, processVars
<1>3. Untouched(p) /\ SameRequests(p) /\ Regular(p)
  BY <1>1, <1>2 DEF Untouched, SameRequests, processVars, AllRegular
<1>4. \A v \in Uses(p) : Kept(v)
  <2>1. CASE ClientPolls
    BY <2>1, SeenKeeps DEF ClientPolls, Uses, ClusterIInv
  <2>2. CASE (\E j \in Job : ClientSubmits(j)) \/ UNCHANGED clusterVars
    BY <2>2, OthersKept DEF ClientSubmits, clusterVars, Uses, ClusterIInv
  <2>3. QED
    BY <2>1, <2>2
<1>5. QED
  BY <1>2, <1>3, <1>4, LeftAlone

-----------------------------------------------------------------------------
DepartureIInv == ClusterIInv /\ OrderIInv /\ AllRegular

LEMMA InitIsRegular == ClusterInit => AllRegular
<1>1. SUFFICES ASSUME ClusterInit, NEW p \in Process PROVE Regular(p)
  BY DEF AllRegular
<1>2. /\ reg[p] = NoWorker /\ beat[p] = "due" /\ net = {}
      /\ \A t \in ClaimThread : slot[t].at = "idle"
      /\ \A j \in Job : status[j] = "none"
  <2>1. reg[p] = NoWorker /\ beat[p] = "due" /\ net = {}
    BY <1>1 DEF ClusterInit
  <2>2. \A t \in ClaimThread : slot[t].at = "idle"
    BY <1>1 DEF ClusterInit, IdleSlot
  <2>3. \A j \in Job : status[j] = "none"
    BY <1>1 DEF ClusterInit, Init
  <2>4. QED
    BY <2>1, <2>2, <2>3
<1>7. \A c \in Serves[p] : slot[<<p, c>>].at = "idle"
  BY <1>2, ThreadNames
<1>3. Known(p)
  BY <1>2, <1>7 DEF Known
<1>4. Addressed(p)
  BY <1>2 DEF Addressed
<1>5. \A j \in Job : WellHeld(p, j)
  BY <1>2, <1>7 DEF WellHeld, LeaseIsRenewed, LeasedIsHeld, Holds
<1>6. QED
  BY <1>3, <1>4, <1>5 DEF Regular

LEMMA DepartureStep ==
    ASSUME OnlyDepartures, LeaseSeconds > 1, DepartureIInv, [ClusterNext]_clusterVars
    PROVE  DepartureIInv'
<1> USE DEF DepartureIInv
<1>1. ClusterIInv'
  BY ClusterNextKeeps
<1>2. OrderIInv'
  BY <1>1, StepKeepsOrder
<1>3. AllRegular'
  BY <1>1, NoOtherFaults, ProcessStepStaysRegular, ServeStaysRegular, TickStaysRegular,
     ClientsStayRegular DEF ClusterNext
<1>4. QED
  BY <1>1, <1>2, <1>3

(* What is regular stays regular while processes stop and crash at any      *)
(* moment, with their requests under way, but no request of a process that  *)
(* goes on is lost, no heartbeat is late and the coordinator is not started *)
(* anew.  A lease must outlive the pause between two heartbeats:            *)
(* LeaseSeconds counts ticks of at most a third of the TTL                  *)
(* (coordinator.py:121).                                                    *)
THEOREM DeparturesStayRegular ==
    ASSUME OnlyDepartures, LeaseSeconds > 1
    PROVE  ClusterSpec => []DepartureIInv
<1>1. ClusterInit => DepartureIInv
  BY ClusterInitOK, InitInOrder, InitIsRegular DEF DepartureIInv
<1>2. DepartureIInv /\ [ClusterNext]_clusterVars => DepartureIInv'
  BY DepartureStep
<1>3. QED
  BY <1>1, <1>2, PTL DEF ClusterSpec

(* No two processes that are up execute the same job at the same time,      *)
(* whatever processes stop or crash, when and with what requests under way  *)
(* (scheduler.py claim and unregister_worker).                              *)
THEOREM DeparturesRunNothingTwice ==
    ASSUME OnlyDepartures, LeaseSeconds > 1
    PROVE  ClusterSpec => []NoJobRunsTwiceAtOnce
<1>1. DepartureIInv => NoJobRunsTwiceAtOnce
  <2>1. SUFFICES ASSUME DepartureIInv, NEW t \in ClaimThread, NEW u \in ClaimThread,
                        t # u, up[t[1]] = "up", up[u[1]] = "up",
                        slot[t].at = "running", slot[u].at = "running",
                        NEW j, j \in slot[t].jobs, j \in slot[u].jobs
                 PROVE  FALSE
    BY DEF NoJobRunsTwiceAtOnce
  <2>2. j \in Job
    BY <2>1 DEF DepartureIInv, ClusterIInv, ProcessesOK, Slot
  <2>3. /\ t[1] \in Process /\ t[2] \in Serves[t[1]] /\ t = <<t[1], t[2]>>
        /\ u[1] \in Process /\ u[2] \in Serves[u[1]] /\ u = <<u[1], u[2]>>
    BY <2>1, ThreadNames
  <2>4. Holds(t, j) /\ Holds(u, j)
    BY <2>1 DEF Holds
  <2>5. LeaseIsRenewed(t[1], j) /\ LeaseIsRenewed(u[1], j)
    BY <2>1, <2>2, <2>3 DEF DepartureIInv, AllRegular, Regular, WellHeld
  <2>6. /\ status[j] = "leased"
        /\ owner[j] = reg[t[1]] /\ CapabilityOf[j] = t[2]
        /\ owner[j] = reg[u[1]] /\ CapabilityOf[j] = u[2]
    BY <2>3, <2>4, <2>5 DEF LeaseIsRenewed
  <2>7. owner[j] \in Worker
    BY <2>1, <2>2, <2>6 DEF DepartureIInv, ClusterIInv, IInv, UnfinishedJobsAreAccountedFor
  <2>8. t[1] = u[1]
    <3>1. owner[j] \in Uses(t[1]) /\ owner[j] \in Uses(u[1])
      BY <2>6, <2>7 DEF Uses
    <3>2. QED
      BY <2>1, <2>3, <3>1 DEF DepartureIInv, OrderIInv, IdsAreUnique
  <2>9. QED
    BY <2>1, <2>3, <2>6, <2>8
<1>2. QED
  BY <1>1, DeparturesStayRegular, PTL

-----------------------------------------------------------------------------
(* Each departure costs a job at most one execution                         *)

(* Thread t may yet be handed a job: its claim is under way, or it will     *)
(* claim as soon as it is registered.                                       *)
Claiming(t) ==
    \/ slot[t].at = "registering"
    \/ \E m \in net : m.kind = "claim" /\ m.thread = t

(* The processes that no longer are up and may yet be handed job j.         *)
Claimants(j) ==
    {p \in Process : /\ up[p] # "up" /\ CapabilityOf[j] \in Serves[p]
                     /\ Claiming(<<p, CapabilityOf[j]>>)}

(* Process p, which is up, is to execute j, ...                             *)
HasIt(p, j) == up[p] = "up" /\ status[j] = "leased" /\ reg[p] = owner[j]

(* ... so that only the departure of p costs j another execution.           *)
InSafeHands(j) == status[j] \in Terminal \/ \E p \in Process : HasIt(p, j)

(* A departure pays for one execution of j: for that which the process has  *)
(* begun, or for that which its claim may yet begin.                        *)
PaidFor(j) ==
    attempts[j] + Cardinality(Claimants(j)) <= spent + (IF InSafeHands(j) THEN 1 ELSE 0)

RetryIInv == DepartureIInv /\ \A j \in Job : PaidFor(j)

(* Only a thread of a process that is up begins to claim.                   *)
LEMMA ProcessBeginsNoClaim ==
    ASSUME ClusterIInv, NEW q \in Process, ProcessStep(q),
           NEW t \in ClaimThread, up'[t[1]] # "up", Claiming(t)'
    PROVE  Claiming(t)
<1> DEFINE p == t[1]
<1>1. p \in Process /\ t[2] \in Serves[p] /\ t = <<p, t[2]>>
  BY ThreadNames
<1>2. /\ slot \in [ClaimThread -> Slot]
      /\ up \in [Process -> {"up", "stopping", "leaving", "down"}]
  BY DEF ClusterIInv, ProcessesOK
<1> HIDE DEF p
<1>3. CASE p # q
  <2>1. Untouched(p) /\ SameRequests(p)
    BY <1>1, <1>3, OthersLeftAlone
  <2>2. slot'[t] = slot[t]
    BY <1>1, <2>1 DEF Untouched
  <2>3. \A m \in net' : m.thread = t => m \in net
    BY <1>1, <2>1 DEF SameRequests, p
  <2>4. QED
    BY <2>2, <2>3 DEF Claiming
<1>4. CASE p = q
  <2>1. ASSUME NEW c \in Serves[q], ClaimThreadStep(q, c)
        PROVE  Claiming(t)
    <3> DEFINE u == <<q, c>>
    <3>1. u \in ClaimThread
      BY ThreadNames
    <3>2. ~SendRegister(q, c) /\ ~SendClaim(q, c)
      BY <1>4 DEF SendRegister, SendClaim, p
    <3>3. CASE Registered(q, c)
      <4>1. slot[u].at = "registering" /\ slot' = [slot EXCEPT ![u].at = "claiming"]
        BY <3>3 DEF Registered
      <4>2. PICK k : net' \subseteq net \cup {Request("claim", u, k, {}, "")}
        BY <3>3 DEF Registered
      <4>3. PICK n : n = Request("claim", u, k, {}, "")
        OBVIOUS
      <4>4. n.thread = u /\ net' \subseteq net \cup {n}
        BY <4>2, <4>3 DEF Request
      <4> HIDE DEF u
      <4>5. slot'[t].at = "registering" => slot[t].at = "registering"
        BY <1>2, <3>1, <4>1
      <4>6. QED
        BY <4>1, <4>4, <4>5 DEF Claiming
    <3>4. CASE HandlerReturns(q, c)
      <4>1. slot' = [slot EXCEPT ![u].at = "completing"]
        BY <3>4 DEF HandlerReturns
      <4>2. PICK o : net' = net \cup {Request("complete", u, slot[u].worker, slot[u].jobs, o)}
        BY <3>4 DEF HandlerReturns
      <4>3. PICK n : n = Request("complete", u, slot[u].worker, slot[u].jobs, o)
        OBVIOUS
      <4>4. n.kind = "complete" /\ net' = net \cup {n}
        BY <4>2, <4>3 DEF Request
      <4> HIDE DEF u
      <4>5. slot'[t].at = "registering" => slot[t].at = "registering"
        BY <1>2, <3>1, <4>1
      <4>6. QED
        BY <4>4, <4>5 DEF Claiming
    <3>5. CASE ClaimReturns(q, c) \/ Completed(q, c)
      <4>1. net' \subseteq net
        BY <3>5 DEF ClaimReturns, Completed
      <4>2. PICK s : slot' = [slot EXCEPT ![u] = s] /\ s.at \in {"idle", "running"}
        <5>1. CASE ClaimReturns(q, c)
          <6>1. PICK m : slot' = [slot EXCEPT ![u] = AfterClaim(m)]
            BY <5>1 DEF ClaimReturns
          <6>2. AfterClaim(m).at \in {"idle", "running"}
            BY DEF AfterClaim, IdleSlot
          <6>3. QED
            BY <6>1, <6>2
        <5>2. CASE Completed(q, c)
          <6>1. slot' = [slot EXCEPT ![u] = IdleSlot] /\ IdleSlot.at = "idle"
            BY <5>2 DEF Completed, IdleSlot
          <6>2. QED
            BY <6>1
        <5>3. QED
          BY <3>5, <5>1, <5>2
      <4> HIDE DEF u
      <4>3. slot'[t].at = "registering" => slot[t].at = "registering"
        BY <1>2, <3>1, <4>2
      <4>4. QED
        BY <4>1, <4>3 DEF Claiming
    <3>6. QED
      BY <2>1, <3>2, <3>3, <3>4, <3>5 DEF ClaimThreadStep
  <2>2. CASE SendBeat(q) \/ SendUnregister(q)
    <3>1. slot' = slot
      BY <2>2 DEF SendBeat, SendUnregister
    <3>2. CASE SendBeat(q)
      <4>1. PICK n : n = Request("heartbeat", BeatThread(q), reg[q], ActiveJobs(q), "")
        OBVIOUS
      <4>2. n.kind # "claim" /\ net' = net \cup {n}
        BY <3>2, <4>1 DEF SendBeat, Request
      <4>3. QED
        BY <3>1, <4>2 DEF Claiming
    <3>3. CASE SendUnregister(q)
      <4>1. PICK n : n = Request("unregister", MainThread(q), reg[q], {}, "")
        OBVIOUS
      <4>2. n.kind # "claim" /\ net' = net \cup {n}
        BY <3>3, <4>1 DEF SendUnregister, Request
      <4>3. QED
        BY <3>1, <4>2 DEF Claiming
    <3>4. QED
      BY <2>2, <3>2, <3>3
  <2>3. CASE BeatReturns(q) \/ Stop(q)
    BY <2>3 DEF BeatReturns, Stop, Claiming
  <2>4. CASE Exit(q) \/ Crash(q)
    <3>1. Gone(q)
      BY <2>4 DEF Exit, Crash
    <3>2. slot'[t] = IdleSlot
      BY <1>4, <3>1 DEF Gone, p
    <3>3. ASSUME NEW m \in net', m.kind = "claim", m.thread = t
          PROVE  \E n \in net : n.kind = "claim" /\ n.thread = t
      <4>1. m \in net \/ \E n \in net : m = Unheard(n)
        BY <3>1 DEF Gone
      <4>2. QED
        BY <3>3, <4>1, Fields, NetFields DEF ClusterIInv
    <3>4. QED
      BY <3>2, <3>3 DEF Claiming, IdleSlot
  <2>5. QED
    BY <1>4, <2>1, <2>2, <2>3, <2>4 DEF ProcessStep
<1>5. QED
  BY <1>3, <1>4

LEMMA OnlyTheLivingBeginToClaim ==
    ASSUME OnlyDepartures, ClusterIInv, [ClusterNext]_clusterVars,
           NEW t \in ClaimThread, up'[t[1]] # "up", Claiming(t)'
    PROVE  Claiming(t)
<1>1. ASSUME NEW m \in net, Serve(m) PROVE Claiming(t)
  <2>1. slot' = slot
    BY <1>1 DEF Serve, processVars
  <2>2. net' = net \/ \E w, J, word : net' = Answered(m, w, J, word)
    BY <1>1 DEF Serve, ServeRegister, ServeClaim, ServeComplete, ServeHeartbeat,
                ServeUnregister
  <2>3. ASSUME NEW w, NEW J, NEW word, net' = Answered(m, w, J, word)
        PROVE  \A n \in net' : n \in net \/ n.kind = "reply"
    BY <2>3, Fields DEF Answered
  <2>4. QED
    BY <2>1, <2>2, <2>3 DEF Claiming
<1>2. CASE \/ \E j \in Job : ClientSubmits(j)
           \/ ClientPolls \/ RegularTick \/ UNCHANGED clusterVars
  <2>1. slot' = slot /\ net' = net
    BY <1>2 DEF ClientSubmits, ClientPolls, RegularTick, Passing, clusterVars, processVars
  <2>2. QED
    BY <2>1 DEF Claiming
<1>3. QED
  BY <1>1, <1>2, NoOtherFaults, ProcessBeginsNoClaim DEF ClusterNext

(* A process that is up keeps its registration.                             *)
LEMMA RegistrationStays ==
    ASSUME ClusterIInv, NEW p \in Process, up[p] = "up", Regular(p), reg[p] # NoWorker,
           NEW q \in Process, ProcessStep(q), up'[p] = "up"
    PROVE  reg'[p] = reg[p]
<1>1. /\ reg \in [Process -> Worker \cup {NoWorker}]
      /\ up \in [Process -> {"up", "stopping", "leaving", "down"}]
  BY DEF ClusterIInv, ProcessesOK
<1>2. CASE p # q
  BY <1>2, OthersLeftAlone DEF Untouched
<1>3. CASE p = q
  <2>1. ASSUME NEW t, t = BeatThread(p) \/ \E c \in Serves[p] : t = <<p, c>>,
               NEW m \in RepliesTo(t)
        PROVE  m.word # "gone"
    <3>1. t[1] = p
      BY <2>1, ThreadNames
    <3>2. m \in net /\ m.kind = "reply" /\ m.thread = t
      BY <2>1 DEF RepliesTo
    <3>3. QED
      BY <3>1, <3>2 DEF Regular, Addressed, WellAddressed
  <2>2. ASSUME NEW c \in Serves[p], ClaimThreadStep(p, c)
        PROVE  reg' = reg
    <3>1. ~Registered(p, c)
      BY <2>2 DEF Registered, Regular, Known
    <3>2. QED
      BY <2>1, <2>2, <3>1 DEF ClaimThreadStep, SendRegister, SendClaim, ClaimReturns,
                              HandlerReturns, Completed
  <2>3. CASE SendBeat(p) \/ BeatReturns(p) \/ Stop(p) \/ SendUnregister(p)
    BY <2>1, <2>3 DEF SendBeat, BeatReturns, Stop, SendUnregister
  <2>4. ~Exit(p) /\ ~Crash(p)
    BY <1>1 DEF Exit, Crash, Gone
  <2>5. QED
    BY <1>3, <2>2, <2>3, <2>4 DEF ProcessStep
<1>4. QED
  BY <1>2, <1>3

(* The process that executes a job holds it.                                *)
LEMMA ItsHolderHoldsIt ==
    ASSUME ClusterIInv, AllRegular, NEW p \in Process, NEW j \in Job, HasIt(p, j)
    PROVE  /\ CapabilityOf[j] \in Serves[p] /\ Holds(<<p, CapabilityOf[j]>>, j)
           /\ <<p, CapabilityOf[j]>> \in ClaimThread
           /\ reg[p] \in Worker /\ reg[p] # NoWorker /\ Regular(p)
<1>1. Regular(p) /\ status[j] = "leased" /\ reg[p] = owner[j]
  BY DEF HasIt, AllRegular
<1>2. CapabilityOf[j] \in Serves[p] /\ Holds(<<p, CapabilityOf[j]>>, j)
  BY <1>1 DEF Regular, WellHeld, LeasedIsHeld
<1>3. reg[p] \in Worker /\ reg[p] # NoWorker
  BY <1>1, SchedulerAssumption DEF ClusterIInv, IInv, UnfinishedJobsAreAccountedFor
<1>4. QED
  BY <1>1, <1>2, <1>3, ThreadNames

(* What a thread holds is not what it waits for.                            *)
LEMMA HoldersDoNotClaim ==
    ASSUME ClusterIInv, OrderIInv, NEW t \in ClaimThread, up[t[1]] = "up",
           NEW j \in Job, Holds(t, j)
    PROVE  ~Claiming(t)
<1>1. \A m \in net : m.thread = t => ClaimExpects(slot[t], m)
  BY RequestsAreExpected DEF ClusterIInv, Expected
<1>2. \A m, n \in net : m.thread = t /\ n.thread = t => m = n
  BY DEF OrderIInv, OneRequestEach
<1>3. CASE slot[t].at = "running"
  BY <1>1, <1>3 DEF Claiming, ClaimExpects
<1>4. CASE \E m \in net : m.thread = t /\ j \in m.jobs
  BY <1>1, <1>2, <1>4 DEF Claiming, ClaimExpects
<1>5. QED
  BY <1>3, <1>4 DEF Holds

(* As long as it is up, its holder keeps a job until it has completed it.   *)
LEMMA HandsStay ==
    ASSUME OnlyDepartures, LeaseSeconds > 1, DepartureIInv, DepartureIInv',
           [ClusterNext]_clusterVars,
           NEW p \in Process, NEW j \in Job, HasIt(p, j), up'[p] = "up"
    PROVE  InSafeHands(j)'
<1> DEFINE t == <<p, CapabilityOf[j]>>
<1>1. ClusterIInv /\ OrderIInv /\ AllRegular /\ AllRegular'
  BY DEF DepartureIInv
<1>2. /\ CapabilityOf[j] \in Serves[p] /\ Holds(t, j) /\ t \in ClaimThread /\ t[1] = p
      /\ reg[p] # NoWorker /\ Regular(p) /\ up[p] = "up"
      /\ status[j] = "leased" /\ reg[p] = owner[j]
  BY <1>1, ItsHolderHoldsIt DEF HasIt
<1>3. ASSUME Holds(t, j)' PROVE HasIt(p, j)'
  <2>1. LeaseIsRenewed(p, j)'
    BY <1>1 DEF AllRegular, Regular, WellHeld
  <2>2. status'[j] = "leased" /\ owner'[j] = reg'[p]
    BY <1>2, <1>3, <2>1 DEF LeaseIsRenewed
  <2>3. QED
    BY <2>2 DEF HasIt
<1> HIDE DEF t
<1>4. ASSUME NEW q \in Process, ProcessStep(q) PROVE HasIt(p, j)'
  <2>1. reg'[p] = reg[p] /\ status' = status /\ owner' = owner
    BY <1>1, <1>2, <1>4, RegistrationStays, ProcessStepLeavesScheduler DEF vars, jobVars
  <2>2. QED
    BY <1>2, <2>1 DEF HasIt
<1>5. ASSUME NEW m \in net, Serve(m) PROVE HasIt(p, j)' \/ status'[j] \in Terminal
  <2>1. slot' = slot
    BY <1>5 DEF Serve, processVars
  <2>2. CASE m.thread # t \/ j \notin m.jobs
    <3>1. net' = net \/ \E w, J, word : net' = Answered(m, w, J, word)
      BY <1>5 DEF Serve, ServeRegister, ServeClaim, ServeComplete, ServeHeartbeat,
                  ServeUnregister
    <3>2. \A n \in net : n # m => n \in net'
      BY <3>1 DEF Answered
    <3>3. Holds(t, j)'
      BY <1>2, <2>1, <2>2, <3>2 DEF Holds
    <3>4. QED
      BY <1>3, <3>3
  <2>3. CASE m.thread = t /\ j \in m.jobs
    <3>1. m.kind = "complete" /\ m.worker = reg[p]
      <4>1. m.kind # "register" /\ m.kind # "claim" /\ m.kind # "unregister"
        BY <1>1, <1>2, <2>3, OwnRequests
      <4>2. m.kind # "heartbeat"
        BY <1>1, <1>2, <2>3, OwnRequests, ThreadNames
      <4>3. m.kind \in RequestKind
        BY <1>5 DEF Serve, ServeRegister, ServeClaim, ServeComplete, ServeHeartbeat,
                    ServeUnregister, RequestKind
      <4>4. m.kind = "complete"
        BY <4>1, <4>2, <4>3 DEF RequestKind
      <4>5. QED
        BY <1>1, <1>2, <2>3, <4>4, OwnRequests
    <3>2. m.jobs = {j}
      BY <1>1, <2>3, <3>1 DEF OrderIInv, OneJobEach
    <3>3. Finish(m.worker, j, m.word)
      <4>1. ServeComplete(m)
        BY <1>5, <3>1 DEF Serve, ServeRegister, ServeClaim, ServeHeartbeat, ServeUnregister
      <4>2. MayComplete(m.worker, j) /\ status[j] # "none"
        BY <1>2, <3>1 DEF MayComplete
      <4>3. QED
        BY <3>2, <4>1, <4>2 DEF ServeComplete
    <3>4. m.word \in Terminal
      BY <1>1, <3>1 DEF ClusterIInv, NetOK, WellFormed
    <3>5. status'[j] = m.word
      BY <1>1, <3>3 DEF Finish, ClusterIInv, IInv, TypeOK
    <3>6. QED
      BY <3>4, <3>5
  <2>4. QED
    BY <2>2, <2>3
<1>6. CASE \/ \E i \in Job : ClientSubmits(i)
           \/ ClientPolls \/ RegularTick \/ UNCHANGED clusterVars
  <2>1. slot' = slot /\ net' = net
    BY <1>6 DEF ClientSubmits, ClientPolls, RegularTick, Passing, clusterVars, processVars
  <2>2. Holds(t, j)'
    BY <1>2, <2>1 DEF Holds
  <2>3. QED
    BY <1>3, <2>2 DEF InSafeHands
<1>7. QED
  BY <1>4, <1>5, <1>6, NoOtherFaults DEF ClusterNext, InSafeHands

(* What is over stays over.                                                 *)
LEMMA TerminalStays ==
    ASSUME OnlyDepartures, ClusterIInv, [ClusterNext]_clusterVars,
           NEW j \in Job, status[j] \in Terminal
    PROVE  status'[j] \in Terminal
<1>1. Lifecycle!JobStep(j)
  BY NoOtherFaults, ClusterStepIsSchedulerStep, StepIsLifecycleStep DEF ClusterIInv
<1>2. QED
  BY <1>1 DEF Lifecycle!JobStep, Lifecycle!Stay, Lifecycle!Accept, Lifecycle!TakeBack,
              Lifecycle!Conclude, Lifecycle!HandOut, Terminal

LEMMA HandsStaySafe ==
    ASSUME OnlyDepartures, LeaseSeconds > 1, DepartureIInv, DepartureIInv',
           [ClusterNext]_clusterVars, NEW j \in Job, InSafeHands(j),
           \A p \in Process : HasIt(p, j) => up'[p] = "up"
    PROVE  InSafeHands(j)'
<1>1. CASE status[j] \in Terminal
  BY <1>1, TerminalStays DEF DepartureIInv, InSafeHands
<1>2. CASE \E p \in Process : HasIt(p, j)
  BY <1>2, HandsStay
<1>3. QED
  BY <1>1, <1>2 DEF InSafeHands

(* A claim is handed one job, which waited or was just taken back.          *)
LEMMA ClaimTakesOne ==
    ASSUME IInv, NEW v \in Worker, NEW c, ClaimJob(v, c)
    PROVE  \E k \in Job : /\ CapabilityOf[k] = c
                          /\ StatusAfterRetry(Reaped)[k] = "queued"
                          /\ status'[k] = "leased" /\ owner'[k] = v
                          /\ attempts'[k] = attempts[k] + 1
                          /\ \A j \in Job : j # k => attempts'[j] = attempts[j]
<1>1. TypeOK
  BY DEF IInv
<1>2. PICK q \in QueuesAfterReap : \E i \in DOMAIN q :
           /\ IsOldestMatch(q, StatusAfterRetry(Reaped), i, c)
           /\ status' = [StatusAfterRetry(Reaped) EXCEPT ![q[i]] = "leased"]
           /\ owner' = [OwnerAfterRetry(Reaped) EXCEPT ![q[i]] = v]
           /\ attempts' = [attempts EXCEPT ![q[i]] = @ + 1]
  BY DEF ClaimJob
<1>3. PICK i \in DOMAIN q :
           /\ IsOldestMatch(q, StatusAfterRetry(Reaped), i, c)
           /\ status' = [StatusAfterRetry(Reaped) EXCEPT ![q[i]] = "leased"]
           /\ owner' = [OwnerAfterRetry(Reaped) EXCEPT ![q[i]] = v]
           /\ attempts' = [attempts EXCEPT ![q[i]] = @ + 1]
  BY <1>2
<1> DEFINE k == q[i]
<1>4. k \in Job /\ CapabilityOf[k] = c /\ StatusAfterRetry(Reaped)[k] = "queued"
  BY <1>3, ReapQueue, ElementOfSeq DEF IsOldestMatch
<1> HIDE DEF k
<1>5. status'[k] = "leased" /\ owner'[k] = v
  BY <1>1, <1>3, <1>4, RetryTypes, ReapedAreLeased DEF k
<1>6. attempts'[k] = attempts[k] + 1 /\ \A j \in Job : j # k => attempts'[j] = attempts[j]
  <2>1. attempts \in [Job -> 0..20]
    BY <1>1 DEF TypeOK
  <2>2. attempts' = [attempts EXCEPT ![k] = @ + 1]
    BY <1>3 DEF k
  <2>3. QED
    BY <1>4, <2>1, <2>2
<1>7. QED
  BY <1>4, <1>5, <1>6

(* A reap does not put a job that is in safe hands back into the queue.     *)
LEMMA SafeHandsAreNotReaped ==
    ASSUME ClusterIInv, AllRegular, LeaseSeconds > 1, NEW j \in Job, InSafeHands(j)
    PROVE  StatusAfterRetry(Reaped)[j] # "queued"
<1>1. CASE status[j] \in Terminal
  BY <1>1, ReapedAreLeased DEF StatusAfterRetry, Retried, LeasedJobs, Terminal
<1>2. ASSUME NEW p \in Process, HasIt(p, j) PROVE StatusAfterRetry(Reaped)[j] = "leased"
  <2>1. /\ CapabilityOf[j] \in Serves[p] /\ Holds(<<p, CapabilityOf[j]>>, j)
        /\ reg[p] \in Worker /\ reg[p] # NoWorker /\ Regular(p)
    BY <1>2, ItsHolderHoldsIt
  <2>2. lease[j] >= LeaseSeconds - 1
    BY <2>1 DEF Regular, WellHeld, LeaseIsRenewed
  <2>3. lease[j] > 0
    BY <2>2, SchedulerAssumption DEF ClusterIInv, IInv, TypeOK
  <2>4. reg[p] \in live /\ silent[reg[p]] <= 1
    BY <2>1 DEF Regular, Known
  <2>5. status[j] = "leased" /\ owner[j] = reg[p]
    BY <1>2 DEF HasIt
  <2>6. QED
    BY <2>1, <2>3, <2>4, <2>5, ReapKeepsOthers DEF ClusterIInv
<1>3. QED
  BY <1>1, <1>2 DEF InSafeHands

(* Only a claim that is served costs an execution.                          *)
LEMMA OnlyClaimsCost ==
    ASSUME OnlyDepartures, ClusterIInv, [ClusterNext]_clusterVars, attempts' # attempts
    PROVE  \E m \in net : /\ m.kind = "claim" /\ Serve(m)
                          /\ ClaimJob(m.worker, m.thread[2])
                          /\ \E J : net' = Answered(m, m.worker, J, "ok")
<1>1. ASSUME NEW q \in Process, ProcessStep(q) PROVE FALSE
  BY <1>1, ProcessStepLeavesScheduler DEF vars, jobVars
<1>2. ASSUME NEW m \in net, Serve(m)
      PROVE  /\ m.kind = "claim" /\ ClaimJob(m.worker, m.thread[2])
             /\ \E J : net' = Answered(m, m.worker, J, "ok")
  <2>1. ~ServeRegister(m)
    BY DEF ServeRegister, RegisterWorker, jobVars
  <2>2. ~ServeComplete(m)
    BY DEF ServeComplete, Finish, vars, jobVars
  <2>3. ~ServeHeartbeat(m)
    BY DEF ServeHeartbeat, Heartbeat, Reap
  <2>4. ~ServeUnregister(m)
    BY DEF ServeUnregister, Unregister, vars, jobVars
  <2>5. ServeClaim(m)
    BY <1>2, <2>1, <2>2, <2>3, <2>4 DEF Serve
  <2>6. QED
    BY <2>5 DEF ServeClaim, ClaimNothing, Reap
<1>3. CASE \/ \E j \in Job : ClientSubmits(j)
           \/ ClientPolls \/ RegularTick \/ UNCHANGED clusterVars
  BY <1>3 DEF ClientSubmits, ClientPolls, RegularTick, Passing, clusterVars, vars, jobVars,
              Submit, Reap, Tick
<1>4. QED
  BY <1>1, <1>2, <1>3, NoOtherFaults DEF ClusterNext

(* Only departures are faults, and nobody comes back.                       *)
LEMMA OnlyDeparturesAreSpent ==
    ASSUME OnlyDepartures, ClusterIInv, [ClusterNext]_clusterVars
    PROVE  \/ spent' = spent /\ \A p \in Process : up'[p] = "up" <=> up[p] = "up"
           \/ \E q \in Process :
                 /\ spent' = spent + 1 /\ attempts' = attempts
                 /\ \A p \in Process : /\ up'[p] = "up" => up[p] = "up"
                                       /\ up[p] = "up" /\ p # q => up'[p] = "up"
<1>1. up \in [Process -> {"up", "stopping", "leaving", "down"}]
  BY DEF ClusterIInv, ProcessesOK
<1>2. ASSUME NEW q \in Process, Stop(q) \/ Crash(q)
      PROVE  /\ spent' = spent + 1 /\ attempts' = attempts
             /\ \A p \in Process : /\ up'[p] = "up" => up[p] = "up"
                                   /\ up[p] = "up" /\ p # q => up'[p] = "up"
  BY <1>1, <1>2 DEF Stop, Crash, Gone, Fault, vars, jobVars
<1>3. ASSUME NEW q \in Process, ProcessStep(q), ~Stop(q), ~Crash(q)
      PROVE  spent' = spent /\ \A p \in Process : up'[p] = "up" <=> up[p] = "up"
  <2>1. CASE \E c \in Serves[q] : ClaimThreadStep(q, c)
    BY <2>1 DEF ClaimThreadStep, SendRegister, Registered, SendClaim,
                ClaimReturns, HandlerReturns, Completed
  <2>2. CASE SendBeat(q) \/ BeatReturns(q)
    BY <2>2 DEF SendBeat, BeatReturns
  <2>3. CASE SendUnregister(q) \/ Exit(q)
    BY <1>1, <2>3 DEF SendUnregister, Exit, Gone
  <2>4. QED
    BY <1>3, <2>1, <2>2, <2>3 DEF ProcessStep
<1>4. CASE \/ \E m \in net : Serve(m)
           \/ \E j \in Job : ClientSubmits(j)
           \/ ClientPolls \/ RegularTick \/ UNCHANGED clusterVars
  BY <1>4 DEF Serve, ClientSubmits, ClientPolls, RegularTick, Passing, clusterVars,
              processVars
<1>5. QED
  BY <1>2, <1>3, <1>4, NoOtherFaults DEF ClusterNext

(* One element more or less.                                                *)
LEMMA Counting ==
    ASSUME NEW S \in SUBSET Process, NEW T \in SUBSET Process, NEW x
    PROVE  /\ Cardinality(S) \in Nat /\ Cardinality(T) \in Nat
           /\ T \subseteq S => Cardinality(T) <= Cardinality(S)
           /\ T \subseteq S \cup {x} => Cardinality(T) <= Cardinality(S) + 1
           /\ x \in S /\ T \subseteq S \ {x} => Cardinality(T) + 1 <= Cardinality(S)
<1>1. IsFiniteSet(S) /\ IsFiniteSet(T)
  BY FS_Subset, ClusterAssumption
<1>2. Cardinality(S) \in Nat /\ Cardinality(T) \in Nat
  BY <1>1, FS_CardinalityType
<1>3. T \subseteq S => Cardinality(T) <= Cardinality(S)
  BY <1>1, FS_Subset
<1>4. ASSUME T \subseteq S \cup {x} PROVE Cardinality(T) <= Cardinality(S) + 1
  <2>1. /\ IsFiniteSet(S \cup {x})
        /\ Cardinality(S \cup {x}) = IF x \in S THEN Cardinality(S) ELSE Cardinality(S) + 1
    BY <1>1, FS_AddElement
  <2>2. Cardinality(T) <= Cardinality(S \cup {x})
    BY <1>4, <2>1, FS_Subset
  <2>3. QED
    BY <1>2, <2>1, <2>2
<1>5. ASSUME x \in S, T \subseteq S \ {x} PROVE Cardinality(T) + 1 <= Cardinality(S)
  <2>1. IsFiniteSet(S \ {x}) /\ Cardinality(S \ {x}) = Cardinality(S) - 1
    BY <1>1, <1>5, FS_RemoveElement
  <2>2. Cardinality(T) <= Cardinality(S \ {x})
    BY <1>5, <2>1, FS_Subset
  <2>3. QED
    BY <1>2, <2>1, <2>2
<1>6. QED
  BY <1>2, <1>3, <1>4, <1>5

(* The claim of a process that no longer is up is good for one execution.   *)
LEMMA ServedClaimIsSpent ==
    ASSUME ClusterIInv, OrderIInv, NEW m \in net, m.kind = "claim",
           NEW v, NEW J, NEW word, net' = Answered(m, v, J, word), slot' = slot
    PROVE  ~Claiming(m.thread)'
<1>1. m.thread \in ClaimThread /\ m.thread \in Thread /\ m.heard \in BOOLEAN
  BY NetFields DEF ClusterIInv, NetOK, WellFormed
<1>2. slot[m.thread].at # "registering"
  <2>1. CASE m.heard
    BY <1>1, <2>1 DEF OrderIInv, OneRequestEach, Expected, ClaimExpects
  <2>2. CASE ~m.heard
    BY <1>1, <2>2, ThreadNames DEF OrderIInv, OneRequestEach
  <2>3. QED
    BY <2>1, <2>2
<1>3. \A n \in net' : n.kind = "claim" => n \in net /\ n # m
  BY Fields DEF Answered
<1>4. QED
  BY <1>2, <1>3 DEF Claiming, OrderIInv, OneRequestEach

LEMMA RetryStep ==
    ASSUME OnlyDepartures, LeaseSeconds > 1, RetryIInv, [ClusterNext]_clusterVars
    PROVE  RetryIInv'
<1>1. DepartureIInv /\ DepartureIInv'
  BY DepartureStep DEF RetryIInv
<1>2. /\ ClusterIInv /\ OrderIInv /\ AllRegular
      /\ TypeOK /\ TypeOK' /\ spent \in Nat
  BY <1>1 DEF DepartureIInv, ClusterIInv, IInv, ProcessesOK
<1>3. SUFFICES ASSUME NEW j \in Job PROVE PaidFor(j)'
  BY <1>1 DEF RetryIInv
<1>4. /\ PaidFor(j) /\ attempts[j] \in Nat /\ attempts'[j] \in Nat
      /\ Claimants(j) \in SUBSET Process /\ Claimants(j)' \in SUBSET Process
  <2>1. PaidFor(j)
    BY DEF RetryIInv
  <2>2. attempts \in [Job -> 0..20] /\ attempts' \in [Job -> 0..20]
    BY <1>2 DEF TypeOK
  <2>3. attempts[j] \in Nat /\ attempts'[j] \in Nat
    BY <2>2
  <2>4. Claimants(j) \in SUBSET Process /\ Claimants(j)' \in SUBSET Process
    BY DEF Claimants
  <2>5. QED
    BY <2>1, <2>3, <2>4
<1> DEFINE S == Claimants(j)
           T == Claimants(j)'
           c == CapabilityOf[j]
<1>5. ASSUME NEW p \in T, p \notin S PROVE up[p] = "up" /\ c \in Serves[p] /\ Claiming(<<p, c>>)
  <2>1. /\ p \in Process /\ up'[p] # "up" /\ c \in Serves[p] /\ Claiming(<<p, c>>)'
    BY <1>5 DEF Claimants
  <2>2. <<p, c>> \in ClaimThread /\ <<p, c>>[1] = p
    BY <2>1, ThreadNames
  <2>3. Claiming(<<p, c>>)
    BY <1>2, <2>1, <2>2, OnlyTheLivingBeginToClaim
  <2>4. QED
    BY <1>5, <2>1, <2>3 DEF Claimants
<1>6. \A x : /\ Cardinality(S) \in Nat /\ Cardinality(T) \in Nat
             /\ T \subseteq S => Cardinality(T) <= Cardinality(S)
             /\ T \subseteq S \cup {x} => Cardinality(T) <= Cardinality(S) + 1
             /\ x \in S /\ T \subseteq S \ {x} => Cardinality(T) + 1 <= Cardinality(S)
  BY <1>4, Counting
<1>7. attempts[j] + Cardinality(S) <= spent + (IF InSafeHands(j) THEN 1 ELSE 0)
  BY <1>4 DEF PaidFor
<1>8. ASSUME attempts'[j] + Cardinality(T) <= spent' + (IF InSafeHands(j)' THEN 1 ELSE 0)
      PROVE  PaidFor(j)'
  BY <1>8 DEF PaidFor
<1>9. CASE spent' = spent /\ \A p \in Process : up'[p] = "up" <=> up[p] = "up"
  <2>1. InSafeHands(j) => InSafeHands(j)'
    BY <1>1, <1>9, HandsStaySafe DEF HasIt
  <2>2. T \subseteq S
    BY <1>5, <1>9 DEF Claimants
  <2> HIDE DEF S, T, c
  <2>3. CASE attempts'[j] = attempts[j]
    BY <1>2, <1>4, <1>6, <1>7, <1>8, <1>9, <2>1, <2>2, <2>3
  <2>4. CASE attempts'[j] # attempts[j]
    <3>1. PICK m \in net : /\ m.kind = "claim" /\ Serve(m)
                           /\ ClaimJob(m.worker, m.thread[2])
                           /\ \E J : net' = Answered(m, m.worker, J, "ok")
      BY <1>2, <2>4, OnlyClaimsCost
    <3> DEFINE p == m.thread[1]
    <3>2. /\ m.thread \in ClaimThread /\ p \in Process /\ m.thread[2] \in Serves[p]
          /\ m.thread = <<p, m.thread[2]>>
      BY <1>2, <3>1, ThreadNames DEF ClusterIInv, NetOK, WellFormed
    <3>3. m.worker \in Worker
      BY <1>2, <3>1 DEF ClaimJob, LiveAfterReap, TypeOK
    <3>4. /\ c = m.thread[2] /\ StatusAfterRetry(Reaped)[j] = "queued"
          /\ status'[j] = "leased" /\ owner'[j] = m.worker
          /\ attempts'[j] = attempts[j] + 1
      BY <1>2, <2>4, <3>1, <3>3, ClaimTakesOne DEF ClusterIInv, c
    <3>5. ~InSafeHands(j)
      BY <1>2, <3>4, SafeHandsAreNotReaped
    <3>6. slot' = slot /\ reg' = reg /\ up' = up
      BY <3>1 DEF Serve, processVars
    <3>7. CASE up[p] = "up"
      <4>1. m.worker = reg[p]
        BY <1>2, <3>1, <3>2, <3>7, OwnRequests DEF AllRegular
      <4>2. InSafeHands(j)'
        BY <3>2, <3>4, <3>6, <3>7, <4>1 DEF InSafeHands, HasIt
      <4>3. QED
        BY <1>2, <1>4, <1>6, <1>7, <1>8, <1>9, <2>2, <3>4, <3>5, <4>2
    <3>8. CASE up[p] # "up"
      <4>1. p \in S
        BY <3>1, <3>2, <3>4, <3>8 DEF Claimants, Claiming, S, c
      <4>2. p \notin T
        BY <1>2, <3>1, <3>2, <3>4, <3>6, ServedClaimIsSpent DEF Claimants, T, c
      <4>3. Cardinality(T) + 1 <= Cardinality(S)
        BY <1>6, <2>2, <4>1, <4>2
      <4>4. QED
        BY <1>2, <1>4, <1>6, <1>7, <1>8, <1>9, <3>4, <3>5, <4>3
    <3>9. QED
      BY <3>7, <3>8
  <2>5. QED
    BY <2>3, <2>4
<1>10. ASSUME NEW q \in Process, spent' = spent + 1, attempts' = attempts,
              \A p \in Process : /\ up'[p] = "up" => up[p] = "up"
                                 /\ up[p] = "up" /\ p # q => up'[p] = "up"
       PROVE  PaidFor(j)'
  <2>1. T \subseteq S \cup {q}
    BY <1>5, <1>10 DEF Claimants
  <2>2. ASSUME HasIt(q, j) PROVE T \subseteq S /\ InSafeHands(j)
    <3>1. ~Claiming(<<q, c>>)
      <4>1. /\ <<q, c>> \in ClaimThread /\ Holds(<<q, c>>, j) /\ up[q] = "up"
            /\ <<q, c>>[1] = q
        BY <1>2, <2>2, ItsHolderHoldsIt DEF HasIt
      <4>2. QED
        BY <1>2, <4>1, HoldersDoNotClaim
    <3>2. T \subseteq S
      BY <1>5, <2>1, <3>1
    <3>3. QED
      BY <2>2, <3>2 DEF InSafeHands
  <2>3. ASSUME ~HasIt(q, j), InSafeHands(j) PROVE InSafeHands(j)'
    BY <1>1, <1>10, <2>3, HandsStaySafe DEF HasIt
  <2> HIDE DEF S, T, c
  <2>4. CASE HasIt(q, j)
    BY <1>2, <1>4, <1>6, <1>7, <1>8, <1>10, <2>2, <2>4
  <2>5. CASE ~HasIt(q, j) /\ InSafeHands(j)
    BY <1>2, <1>4, <1>6, <1>7, <1>8, <1>10, <2>1, <2>3, <2>5
  <2>6. CASE ~InSafeHands(j)
    BY <1>2, <1>4, <1>6, <1>7, <1>8, <1>10, <2>1, <2>6
  <2>7. QED
    BY <2>4, <2>5, <2>6
<1>11. QED
  BY <1>2, <1>9, <1>10, OnlyDeparturesAreSpent

(* Executions are paid for: nothing else than departures makes the          *)
(* scheduler hand out a job again.                                          *)
THEOREM DeparturesPayForRetries ==
    ASSUME OnlyDepartures, LeaseSeconds > 1
    PROVE  ClusterSpec => []RetryIInv
<1>1. ClusterInit => RetryIInv
  <2>1. SUFFICES ASSUME ClusterInit PROVE RetryIInv
    OBVIOUS
  <2>2. DepartureIInv
    BY <2>1, ClusterInitOK, InitInOrder, InitIsRegular DEF DepartureIInv
  <2>3. ASSUME NEW j \in Job PROVE PaidFor(j)
    <3>1. Claimants(j) = {}
      BY <2>1 DEF ClusterInit, Claimants
    <3>2. attempts[j] = 0 /\ spent = 0 /\ Cardinality(Claimants(j)) = 0
      BY <2>1, <3>1, FS_EmptySet DEF ClusterInit, Init
    <3>3. QED
      BY <3>2 DEF PaidFor
  <2>4. QED
    BY <2>2, <2>3 DEF RetryIInv
<1>2. RetryIInv /\ [ClusterNext]_clusterVars => RetryIInv'
  BY RetryStep
<1>3. QED
  BY <1>1, <1>2, PTL DEF ClusterSpec

(* Each departure costs a job at most one execution: heartbeats, claims     *)
(* that wait and handlers that take long never let a lease lapse            *)
(* (scheduler.py heartbeat, claim and _reap_expired_locked).                *)
THEOREM DeparturesCostOneExecutionEach ==
    ASSUME OnlyDepartures, LeaseSeconds > 1
    PROVE  ClusterSpec => []RetriesNeedFaults
<1>1. RetryIInv => RetriesNeedFaults
  <2>1. SUFFICES ASSUME RetryIInv, NEW j \in Job PROVE attempts[j] <= 1 + spent
    BY DEF RetriesNeedFaults
  <2>2. attempts[j] \in Nat /\ spent \in Nat
    <3>1. attempts \in [Job -> 0..20] /\ spent \in 0..MaxFaults
      BY <2>1 DEF RetryIInv, DepartureIInv, ClusterIInv, IInv, TypeOK, ProcessesOK
    <3>2. attempts[j] \in Nat
      BY <3>1
    <3>3. QED
      BY <3>1, <3>2, ClusterAssumption
  <2>3. Claimants(j) \in SUBSET Process
    BY DEF Claimants
  <2>4. Cardinality(Claimants(j)) \in Nat
    BY <2>3, Counting
  <2>5. QED
    BY <2>1, <2>2, <2>4 DEF RetryIInv, PaidFor
<1>2. QED
  BY <1>1, DeparturesPayForRetries, PTL

-----------------------------------------------------------------------------
(***************************************************************************)
(* ANSWERS                                                                 *)
(*                                                                         *)
(* Whatever is irregular, lost requests and restarts of the coordinator    *)
(* included, a thread that waits has its request or the reply to it under  *)
(* way, and what it reads is the reply to the request that it waits for.   *)
(* Progress of the cluster rests on this: no thread waits in vain.         *)
(***************************************************************************)

(* A thread that has sent a request and does not go on without an answer.   *)
Asking(t) ==
    \/ t \in ClaimThread /\ slot[t].at \in {"registering", "claiming", "completing"}
    \/ \E p \in Process : t = BeatThread(p) /\ beat[p] = "sent"

(* Somebody listens for each reply, and nobody for two.                     *)
ListensForOne ==
    /\ \A m, n \in net : m.heard /\ n.heard /\ m.thread = n.thread => m = n
    /\ \A m \in net : m.kind = "reply" => m.heard

HeardAreExpected == \A m \in net : m.heard => Expected(m)

AskersAreHeard ==
    \A t \in Thread : Asking(t) => \E m \in net : m.heard /\ m.thread = t

TheGoneAskNothing ==
    \A p \in Process : up[p] = "down" =>
        /\ beat[p] # "sent"
        /\ \A t \in ClaimThread : t[1] = p => slot[t].at = "idle"

AnswersIInv == ListensForOne /\ HeardAreExpected /\ AskersAreHeard /\ TheGoneAskNothing

-----------------------------------------------------------------------------
(* Only the threads in T go on; of the others' messages only those that     *)
(* nobody listens for may go.                                               *)
OnlyMove(T) ==
    /\ \A u \in ClaimThread : u \notin T => slot'[u] = slot[u]
    /\ \A q \in Process : BeatThread(q) \notin T => (beat'[q] = "sent" <=> beat[q] = "sent")
    /\ \A q \in Process : MainThread(q) \notin T => (up'[q] = "leaving" <=> up[q] = "leaving")
    /\ \A n \in net' : n.thread \notin T => n \in net
    /\ \A n \in net : n.thread \notin T /\ n.heard => n \in net'

(* What the network holds of a thread afterwards: the one message that it   *)
(* waits for, and requests that it has given up.                            *)
HeardOnce(t) ==
    \E r \in net' : /\ r.heard /\ r.thread = t /\ Expected(r)'
                    /\ \A n \in net' : n.thread = t /\ n # r => ~n.heard /\ n.kind # "reply"

HeardNoMore(t) ==
    /\ ~Asking(t)'
    /\ \A n \in net' : n.thread = t => ~n.heard /\ n.kind # "reply"

LEMMA OnlyTheyAsk ==
    ASSUME NetOK, NetOK', AnswersIInv, NEW T, OnlyMove(T),
           \A t \in T : HeardOnce(t) \/ HeardNoMore(t),
           \A n \in net' : n.heard => up'[n.thread[1]] # "down",
           TheGoneAskNothing'
    PROVE  AnswersIInv'
<1>1. /\ \A u \in ClaimThread : u \notin T => slot'[u] = slot[u]
      /\ \A q \in Process : BeatThread(q) \notin T => (beat'[q] = "sent" <=> beat[q] = "sent")
      /\ \A q \in Process : MainThread(q) \notin T => (up'[q] = "leaving" <=> up[q] = "leaving")
  BY DEF OnlyMove
<1>2. /\ \A n \in net' : n.thread \notin T => n \in net
      /\ \A n \in net : n.thread \notin T /\ n.heard => n \in net'
  BY DEF OnlyMove
<1>3. /\ \A m, n \in net : m.heard /\ n.heard /\ m.thread = n.thread => m = n
      /\ \A m \in net : m.kind = "reply" => m.heard
      /\ \A m \in net : m.heard => Expected(m)
      /\ \A t \in Thread : Asking(t) => \E m \in net : m.heard /\ m.thread = t
  BY DEF AnswersIInv, ListensForOne, HeardAreExpected, AskersAreHeard
<1>4. ASSUME NEW t \in T
      PROVE  /\ \A m, n \in net' : m.heard /\ n.heard /\ m.thread = t /\ n.thread = t => m = n
             /\ \A m \in net' : m.thread = t /\ m.kind = "reply" => m.heard
             /\ \A m \in net' : m.thread = t /\ m.heard => Expected(m)'
             /\ Asking(t)' => \E m \in net' : m.heard /\ m.thread = t
  <2>1. CASE HeardNoMore(t)
    BY <2>1 DEF HeardNoMore
  <2>2. CASE HeardOnce(t)
    <3>1. PICK r \in net' :
             /\ r.heard /\ r.thread = t /\ Expected(r)'
             /\ \A n \in net' : n.thread = t /\ n # r => ~n.heard /\ n.kind # "reply"
      BY <2>2 DEF HeardOnce
    <3>2. QED
      BY <3>1
  <2>3. QED
    BY <2>1, <2>2
<1>5. ListensForOne'
  <2>1. ASSUME NEW m \in net', NEW n \in net', m.heard, n.heard, m.thread = n.thread
        PROVE  m = n
    BY <1>2, <1>3, <1>4, <2>1
  <2>2. ASSUME NEW m \in net', m.kind = "reply" PROVE m.heard
    BY <1>2, <1>3, <1>4, <2>2
  <2>3. QED
    BY <2>1, <2>2 DEF ListensForOne
<1>6. HeardAreExpected'
  <2>1. ASSUME NEW m \in net', m.heard PROVE Expected(m)'
    <3>1. CASE m.thread \in T
      BY <1>4, <2>1, <3>1
    <3>2. CASE m.thread \notin T
      <4>1. m \in net /\ Expected(m)
        BY <1>2, <1>3, <2>1, <3>2
      <4> DEFINE q == m.thread[1]
      <4>2. q \in Process /\ up'[q] # "down"
        BY <2>1, <4>1, NetFields
      <4>3. m.thread \in ClaimThread => ClaimExpects(slot'[m.thread], m)
        BY <1>1, <3>2, <4>1 DEF Expected
      <4>4. m.thread = BeatThread(q) => beat'[q] = "sent" /\ m.kind \in {"heartbeat", "reply"}
        BY <1>1, <3>2, <4>1, <4>2 DEF Expected
      <4>5. m.thread = MainThread(q)
               => up'[q] = "leaving" /\ m.kind \in {"unregister", "reply"}
        BY <1>1, <3>2, <4>1, <4>2 DEF Expected
      <4>6. QED
        BY <4>2, <4>3, <4>4, <4>5 DEF Expected, ClaimExpects
    <3>3. QED
      BY <3>1, <3>2
  <2>2. QED
    BY <2>1 DEF HeardAreExpected
<1>7. AskersAreHeard'
  <2>1. ASSUME NEW t \in Thread, Asking(t)'
        PROVE  \E m \in net' : m.heard /\ m.thread = t
    <3>1. CASE t \in T
      BY <1>4, <2>1, <3>1
    <3>2. CASE t \notin T
      <4>1. Asking(t)
        <5>1. CASE t \in ClaimThread
                   /\ slot'[t].at \in {"registering", "claiming", "completing"}
          BY <1>1, <3>2, <5>1 DEF Asking
        <5>2. CASE \E p \in Process : t = BeatThread(p) /\ beat'[p] = "sent"
          BY <1>1, <3>2, <5>2 DEF Asking
        <5>3. QED
          BY <2>1, <5>1, <5>2 DEF Asking
      <4>2. QED
        BY <1>2, <1>3, <3>2, <4>1
    <3>3. QED
      BY <3>1, <3>2
  <2>2. QED
    BY <2>1 DEF AskersAreHeard
<1>8. QED
  BY <1>5, <1>6, <1>7 DEF AnswersIInv

(* No process ends, and those that have ended stay as they are.             *)
LEMMA NobodyGoes ==
    ASSUME AnswersIInv, NetOK, NEW t \in Thread, up[t[1]] # "down",
           \A u \in ClaimThread : u # t => slot'[u] = slot[u],
           \A q \in Process : q # t[1] => beat'[q] = beat[q],
           \A q \in Process : up'[q] = "down" => up[q] = "down",
           \A n \in net' : n.thread # t => n \in net
    PROVE  /\ TheGoneAskNothing'
           /\ \A n \in net' : n.heard => up'[n.thread[1]] # "down"
<1>1. \A q \in Process : up'[q] = "down" => q # t[1] /\ up[q] = "down"
  OBVIOUS
<1>2. TheGoneAskNothing'
  <2>1. ASSUME NEW q \in Process, up'[q] = "down" PROVE beat'[q] # "sent"
    BY <1>1, <2>1 DEF AnswersIInv, TheGoneAskNothing
  <2>2. ASSUME NEW q \in Process, up'[q] = "down", NEW u \in ClaimThread, u[1] = q
        PROVE  slot'[u].at = "idle"
    <3>1. u # t /\ up[q] = "down"
      BY <1>1, <2>2
    <3>2. QED
      BY <2>2, <3>1 DEF AnswersIInv, TheGoneAskNothing
  <2>3. QED
    BY <2>1, <2>2 DEF TheGoneAskNothing
<1>3. ASSUME NEW n \in net', n.heard PROVE up'[n.thread[1]] # "down"
  <2>1. CASE n.thread = t
    BY <2>1, ThreadNames
  <2>2. CASE n.thread # t
    <3>1. n \in net /\ Expected(n)
      BY <1>3, <2>2 DEF AnswersIInv, HeardAreExpected
    <3>2. QED
      BY <3>1, NetFields DEF Expected
  <2>3. QED
    BY <2>1, <2>2
<1>4. QED
  BY <1>2, <1>3

(* One thread of a process that is not gone goes on: it has sent a request, *)
(* or it waits for none.                                                    *)
LEMMA OneThreadAsks ==
    ASSUME NetOK, NetOK', AnswersIInv, NEW t \in Thread,
           up[t[1]] # "down", up'[t[1]] # "down",
           \A u \in ClaimThread : u # t => slot'[u] = slot[u],
           \A q \in Process : BeatThread(q) # t => beat'[q] = beat[q],
           \A q \in Process : MainThread(q) # t => up'[q] = up[q],
           \A n \in net : n.thread # t => n \in net',
           \/ \E r \in net' :
                 /\ r.heard /\ r.thread = t /\ Expected(r)'
                 /\ \A n \in net' : n # r => n \in net /\ (n.thread = t => ~n.heard)
           \/ /\ ~Asking(t)'
              /\ \A n \in net' : n \in net /\ (n.thread = t => ~n.heard)
    PROVE  AnswersIInv'
<1>1. \A n \in net' : n.thread # t => n \in net
  OBVIOUS
<1>2. \A q \in Process : q # t[1] => BeatThread(q) # t /\ MainThread(q) # t
  BY ThreadNames
<1>3. OnlyMove({t})
  BY <1>1 DEF OnlyMove
<1>4. \A n \in net : ~n.heard => n.kind # "reply"
  BY DEF AnswersIInv, ListensForOne
<1>5. HeardOnce(t) \/ HeardNoMore(t)
  <2>1. ASSUME NEW r \in net', r.heard, r.thread = t, Expected(r)',
               \A n \in net' : n # r => n \in net /\ (n.thread = t => ~n.heard)
        PROVE  HeardOnce(t)
    BY <1>4, <2>1 DEF HeardOnce
  <2>2. ASSUME ~Asking(t)', \A n \in net' : n \in net /\ (n.thread = t => ~n.heard)
        PROVE  HeardNoMore(t)
    BY <1>4, <2>2 DEF HeardNoMore
  <2>3. QED
    BY <2>1, <2>2
<1>6. \A q \in Process : up'[q] = "down" => up[q] = "down"
  <2>1. ASSUME NEW q \in Process, up'[q] = "down" PROVE up[q] = "down"
    <3>1. q # t[1]
      BY <2>1
    <3>2. QED
      BY <1>2, <2>1, <3>1
  <2>2. QED
    BY <2>1
<1>7. \A q \in Process : q # t[1] => beat'[q] = beat[q]
  BY <1>2
<1>8. /\ TheGoneAskNothing'
      /\ \A n \in net' : n.heard => up'[n.thread[1]] # "down"
  BY <1>1, <1>6, <1>7, NobodyGoes
<1>9. QED
  BY <1>3, <1>5, <1>8, OnlyTheyAsk

(* What a thread of a process that is not gone may find in the network.     *)
LEMMA OneIsHeard ==
    ASSUME NetOK, AnswersIInv, NEW t \in Thread
    PROVE  /\ \A n \in net : n.thread = t /\ n.heard => Expected(n)
           /\ \A m \in RepliesTo(t) :
                 /\ m \in net /\ m.heard /\ m.thread = t
                 /\ \A n \in net : n.thread = t /\ n.heard => n = m
BY DEF RepliesTo, AnswersIInv, ListensForOne, HeardAreExpected

LEMMA ClaimThreadAsks ==
    ASSUME ClusterIInv, NetOK', AnswersIInv, NEW p \in Process, NEW c \in Serves[p],
           ClaimThreadStep(p, c)
    PROVE  AnswersIInv'
<1> DEFINE t == <<p, c>>
<1>1. /\ t \in ClaimThread /\ t[1] = p /\ t[2] = c
      /\ \A q \in Process : t # BeatThread(q) /\ t # MainThread(q)
  BY ThreadNames
<1>2. t \in Thread
  BY <1>1 DEF Thread
<1>3. /\ slot \in [ClaimThread -> Slot] /\ NetOK
  BY DEF ClusterIInv, ProcessesOK
<1>4. slot[t].at # "idle" => up[p] # "down"
  BY <1>1 DEF AnswersIInv, TheGoneAskNothing
<1>5. \A n \in net : n.thread = t /\ n.heard => ClaimExpects(slot[t], n)
  BY <1>1, <1>2, <1>3, OneIsHeard DEF Expected
<1>6. \A m \in RepliesTo(t) :
         /\ m \in net /\ m.heard /\ m.thread = t
         /\ \A n \in net : n.thread = t /\ n.heard => n = m
  BY <1>2, <1>3, OneIsHeard
<1>7. \A kind, w, J, word :
         LET m == Request(kind, t, w, J, word) IN
         /\ m.kind = kind /\ m.thread = t /\ m.worker = w /\ m.jobs = J /\ m.heard
  BY Fields
<1> HIDE DEF t
(* It is enough to know what becomes of the slot and the request.           *)
<1>8. SUFFICES
        /\ \A u \in ClaimThread : u # t => slot'[u] = slot[u]
        /\ beat' = beat /\ up' = up /\ up[p] # "down"
        /\ \A n \in net : n.thread # t => n \in net'
        /\ \/ \E r \in net' :
                 /\ r.heard /\ r.thread = t /\ ClaimExpects(slot'[t], r)
                 /\ \A n \in net' : n # r => n \in net /\ (n.thread = t => ~n.heard)
           \/ /\ slot'[t].at \in {"idle", "running"}
              /\ \A n \in net' : n \in net /\ (n.thread = t => ~n.heard)
  <2>1. up[t[1]] # "down" /\ up'[t[1]] # "down"
    BY <1>1, <1>8
  <2>2. ASSUME NEW r, r.thread = t, ClaimExpects(slot'[t], r) PROVE Expected(r)'
    BY <1>1, <1>8, <2>2 DEF Expected, ClaimExpects
  <2>3. slot'[t].at \in {"idle", "running"} => ~Asking(t)'
    BY <1>1 DEF Asking
  <2>4. \/ \E r \in net' :
              /\ r.heard /\ r.thread = t /\ Expected(r)'
              /\ \A n \in net' : n # r => n \in net /\ (n.thread = t => ~n.heard)
        \/ /\ ~Asking(t)'
           /\ \A n \in net' : n \in net /\ (n.thread = t => ~n.heard)
    BY <1>8, <2>2, <2>3
  <2>5. /\ \A q \in Process : BeatThread(q) # t => beat'[q] = beat[q]
        /\ \A q \in Process : MainThread(q) # t => up'[q] = up[q]
        /\ \A u \in ClaimThread : u # t => slot'[u] = slot[u]
        /\ \A n \in net : n.thread # t => n \in net'
    BY <1>8
  <2>6. QED
    BY <1>2, <1>3, <2>1, <2>4, <2>5, OneThreadAsks
<1>11. CASE SendRegister(p, c)
  <2>1. /\ up[p] = "up" /\ slot[t].at \in {"idle", "retrying"}
        /\ slot' = [slot EXCEPT ![t].at = "registering"]
        /\ net' = net \cup {Request("register", t, NoWorker, {}, "")}
        /\ UNCHANGED <<beat, up>>
    BY <1>11 DEF SendRegister, t
  <2>2. /\ slot'[t].at = "registering"
        /\ \A u \in ClaimThread : u # t => slot'[u] = slot[u]
    BY <1>1, <1>3, <2>1 DEF Slot
  <2>3. \A n \in net : n.thread = t => ~n.heard
    BY <1>5, <2>1 DEF ClaimExpects
  <2>4. PICK r : r = Request("register", t, NoWorker, {}, "")
    OBVIOUS
  <2>5. r.kind = "register" /\ r.thread = t /\ r.jobs = {} /\ r.heard
    BY <2>4 DEF Request
  <2>6. r \in net' /\ \A n \in net' : n = r \/ n \in net
    BY <2>1, <2>4
  <2>7. ClaimExpects(slot'[t], r)
    BY <2>2, <2>5 DEF ClaimExpects
  <2>8. QED
    BY <2>1, <2>2, <2>3, <2>5, <2>6, <2>7
<1>12. CASE Registered(p, c)
  <2>1. PICK m \in RepliesTo(t) :
           net' = (net \ {m}) \cup {Request("claim", t, m.worker, {}, "")}
    BY <1>12 DEF Registered, t
  <2>2. /\ slot[t].at = "registering"
        /\ slot' = [slot EXCEPT ![t].at = "claiming"]
        /\ UNCHANGED <<beat, up>>
    BY <1>12 DEF Registered, t
  <2>3. /\ slot'[t].at = "claiming" /\ up[p] # "down"
        /\ \A u \in ClaimThread : u # t => slot'[u] = slot[u]
    BY <1>1, <1>3, <1>4, <2>2 DEF Slot
  <2>4. PICK r : r = Request("claim", t, m.worker, {}, "")
    OBVIOUS
  <2>5. r.kind = "claim" /\ r.thread = t /\ r.jobs = {} /\ r.heard
    BY <2>4 DEF Request
  <2>6. r \in net' /\ \A n \in net' : n = r \/ (n \in net /\ n # m)
    BY <2>1, <2>4
  <2>7. ClaimExpects(slot'[t], r)
    BY <2>3, <2>5 DEF ClaimExpects
  <2>8. m.thread = t /\ \A n \in net : n.thread = t /\ n.heard => n = m
    BY <1>6
  <2>9. \A n \in net : n.thread # t => n \in net'
    BY <2>1, <2>8
  <2>10. QED
    BY <2>2, <2>3, <2>5, <2>6, <2>7, <2>8, <2>9
<1>13. CASE SendClaim(p, c)
  <2>1. /\ up[p] = "up" /\ slot[t].at = "idle"
        /\ slot' = [slot EXCEPT ![t].at = "claiming"]
        /\ net' = net \cup {Request("claim", t, reg[p], {}, "")}
        /\ UNCHANGED <<beat, up>>
    BY <1>13 DEF SendClaim, t
  <2>2. /\ slot'[t].at = "claiming"
        /\ \A u \in ClaimThread : u # t => slot'[u] = slot[u]
    BY <1>1, <1>3, <2>1 DEF Slot
  <2>3. \A n \in net : n.thread = t => ~n.heard
    BY <1>5, <2>1 DEF ClaimExpects
  <2>4. PICK r : r = Request("claim", t, reg[p], {}, "")
    OBVIOUS
  <2>5. r.kind = "claim" /\ r.thread = t /\ r.jobs = {} /\ r.heard
    BY <2>4 DEF Request
  <2>6. r \in net' /\ \A n \in net' : n = r \/ n \in net
    BY <2>1, <2>4
  <2>7. ClaimExpects(slot'[t], r)
    BY <2>2, <2>5 DEF ClaimExpects
  <2>8. QED
    BY <2>1, <2>2, <2>3, <2>5, <2>6, <2>7
<1>14. CASE ClaimReturns(p, c)
  <2>1. PICK m \in RepliesTo(t) :
           slot' = [slot EXCEPT ![t] = AfterClaim(m)] /\ net' = net \ {m}
    BY <1>14 DEF ClaimReturns, t
  <2>2. slot[t].at = "claiming" /\ UNCHANGED <<beat, up>>
    BY <1>14 DEF ClaimReturns, t
  <2>3. /\ slot'[t].at \in {"idle", "running"} /\ up[p] # "down"
        /\ \A u \in ClaimThread : u # t => slot'[u] = slot[u]
    BY <1>1, <1>3, <1>4, <2>1, <2>2 DEF AfterClaim, IdleSlot
  <2>4. m.thread = t /\ \A n \in net : n.thread = t /\ n.heard => n = m
    BY <1>6
  <2>5. \A n \in net : n.thread # t => n \in net'
    BY <2>1, <2>4
  <2>6. \A n \in net' : n \in net /\ (n.thread = t => ~n.heard)
    BY <2>1, <2>4
  <2>7. QED
    BY <2>2, <2>3, <2>5, <2>6
<1>15. CASE HandlerReturns(p, c)
  <2>1. PICK o \in Terminal :
           net' = net \cup {Request("complete", t, slot[t].worker, slot[t].jobs, o)}
    BY <1>15 DEF HandlerReturns, t
  <2>2. /\ slot[t].at = "running"
        /\ slot' = [slot EXCEPT ![t].at = "completing"]
        /\ UNCHANGED <<beat, up>>
    BY <1>15 DEF HandlerReturns, t
  <2>3. /\ slot'[t].at = "completing" /\ slot'[t].jobs = slot[t].jobs /\ up[p] # "down"
        /\ \A u \in ClaimThread : u # t => slot'[u] = slot[u]
    BY <1>1, <1>3, <1>4, <2>2 DEF Slot
  <2>4. \A n \in net : n.thread = t => ~n.heard
    BY <1>5, <2>2 DEF ClaimExpects
  <2>5. PICK r : r = Request("complete", t, slot[t].worker, slot[t].jobs, o)
    OBVIOUS
  <2>6. r.kind = "complete" /\ r.thread = t /\ r.jobs = slot[t].jobs /\ r.heard
    BY <1>7, <2>5
  <2>7. r \in net' /\ \A n \in net' : n = r \/ n \in net
    BY <2>1, <2>5
  <2>8. ClaimExpects(slot'[t], r)
    BY <2>3, <2>6 DEF ClaimExpects
  <2>9. \A n \in net : n \in net'
    BY <2>1
  <2>10. QED
    BY <2>2, <2>3, <2>4, <2>6, <2>7, <2>8, <2>9
<1>16. CASE Completed(p, c)
  <2>1. PICK m \in RepliesTo(t) : net' = net \ {m}
    BY <1>16 DEF Completed, t
  <2>2. /\ slot[t].at = "completing" /\ slot' = [slot EXCEPT ![t] = IdleSlot]
        /\ UNCHANGED <<beat, up>>
    BY <1>16 DEF Completed, t
  <2>3. /\ slot'[t].at = "idle" /\ up[p] # "down"
        /\ \A u \in ClaimThread : u # t => slot'[u] = slot[u]
    BY <1>1, <1>3, <1>4, <2>2 DEF IdleSlot
  <2>4. m.thread = t /\ \A n \in net : n.thread = t /\ n.heard => n = m
    BY <1>6
  <2>5. \A n \in net : n.thread # t => n \in net'
    BY <2>1, <2>4
  <2>6. \A n \in net' : n \in net /\ (n.thread = t => ~n.heard)
    BY <2>1, <2>4
  <2>7. QED
    BY <2>2, <2>3, <2>5, <2>6
<1>17. QED
  BY <1>11, <1>12, <1>13, <1>14, <1>15, <1>16 DEF ClaimThreadStep

LEMMA BeatThreadAsks ==
    ASSUME ClusterIInv, NetOK', AnswersIInv, NEW p \in Process, SendBeat(p) \/ BeatReturns(p)
    PROVE  AnswersIInv'
<1> DEFINE t == BeatThread(p)
<1>1. /\ t[1] = p /\ t \notin ClaimThread
      /\ \A q \in Process : t # MainThread(q) /\ (q # p => t # BeatThread(q))
  BY ThreadNames
<1>2. t \in Thread
  BY DEF Thread
<1>3. /\ beat \in [Process -> {"due", "sent", "beaten"}] /\ NetOK
  BY DEF ClusterIInv, ProcessesOK
<1>4. beat[p] = "sent" => up[p] # "down"
  BY DEF AnswersIInv, TheGoneAskNothing
<1>5. \A n \in net : n.thread = t /\ n.heard => beat[p] = "sent"
  BY <1>1, <1>2, <1>3, OneIsHeard DEF Expected
<1>6. \A m \in RepliesTo(t) :
         /\ m \in net /\ m.heard /\ m.thread = t
         /\ \A n \in net : n.thread = t /\ n.heard => n = m
  BY <1>2, <1>3, OneIsHeard
<1>7. CASE SendBeat(p)
  <2>1. /\ up[p] = "up" /\ beat[p] = "due" /\ slot' = slot /\ up' = up
        /\ beat' = [beat EXCEPT ![p] = "sent"]
        /\ net' = net \cup {Request("heartbeat", t, reg[p], ActiveJobs(p), "")}
    BY <1>7 DEF SendBeat
  <2>2. beat'[p] = "sent" /\ \A q \in Process : q # p => beat'[q] = beat[q]
    BY <1>3, <2>1
  <2>3. \A n \in net : n.thread = t => ~n.heard
    BY <1>5, <2>1
  <2>4. PICK r : r = Request("heartbeat", t, reg[p], ActiveJobs(p), "")
    OBVIOUS
  <2> HIDE DEF t
  <2>5. r.kind = "heartbeat" /\ r.thread = t /\ r.heard
    BY <2>4 DEF Request
  <2>6. r \in net' /\ (\A n \in net' : n = r \/ n \in net) /\ \A n \in net : n \in net'
    BY <2>1, <2>4
  <2>7. Expected(r)'
    BY <1>1, <2>1, <2>2, <2>5 DEF Expected
  <2>8. \A q \in Process : BeatThread(q) # t => beat'[q] = beat[q]
    BY <2>2 DEF t
  <2>9. up[t[1]] # "down" /\ up'[t[1]] # "down"
    BY <1>1, <2>1
  <2>10. \E k \in net' : /\ k.heard /\ k.thread = t /\ Expected(k)'
                         /\ \A n \in net' : n # k => n \in net /\ (n.thread = t => ~n.heard)
    BY <2>3, <2>5, <2>6, <2>7
  <2>11. slot' = slot /\ up' = up
    BY <2>1
  <2>12. QED
    BY <1>2, <1>3, <2>6, <2>8, <2>9, <2>10, <2>11, OneThreadAsks
<1>8. CASE BeatReturns(p)
  <2>1. PICK m \in RepliesTo(t) : net' = net \ {m}
    BY <1>8 DEF BeatReturns
  <2>2. /\ beat[p] = "sent" /\ slot' = slot /\ up' = up
        /\ beat' = [beat EXCEPT ![p] = "beaten"]
    BY <1>8 DEF BeatReturns
  <2>3. beat'[p] = "beaten" /\ \A q \in Process : q # p => beat'[q] = beat[q]
    BY <1>3, <2>2
  <2>4. m.thread = t /\ \A n \in net : n.thread = t /\ n.heard => n = m
    BY <1>6
  <2>5. \A n \in net : n.thread # t => n \in net'
    BY <2>1, <2>4
  <2>6. \A n \in net' : n \in net /\ (n.thread = t => ~n.heard)
    BY <2>1, <2>4
  <2>7. \A q \in Process : BeatThread(q) # t => beat'[q] = beat[q]
    BY <2>3
  <2>8. up[t[1]] # "down" /\ up'[t[1]] # "down"
    BY <1>1, <1>4, <2>2
  <2>9. ~Asking(t)'
    BY <1>1, <2>3 DEF Asking
  <2> HIDE DEF t
  <2>10. QED
    BY <1>2, <1>3, <2>2, <2>5, <2>6, <2>7, <2>8, <2>9, OneThreadAsks
<1>9. QED
  BY <1>7, <1>8

(* When no thread goes on and no listener loses its message.                *)
LEMMA NoneMoves ==
    ASSUME NetOK, NetOK', AnswersIInv, slot' = slot,
           \A q \in Process : beat'[q] = "sent" <=> beat[q] = "sent",
           \A q \in Process : up'[q] = "leaving" <=> up[q] = "leaving",
           \A q \in Process : up'[q] = "down" => up[q] = "down",
           net' \subseteq net, \A n \in net : n.heard => n \in net'
    PROVE  AnswersIInv'
<1>1. OnlyMove({})
  BY DEF OnlyMove
<1>2. TheGoneAskNothing'
  BY DEF AnswersIInv, TheGoneAskNothing
<1>3. \A n \in net' : n.heard => up'[n.thread[1]] # "down"
  BY NetFields DEF AnswersIInv, HeardAreExpected, Expected
<1>4. QED
  BY <1>1, <1>2, <1>3, OnlyTheyAsk

LEMMA GoneAsks ==
    ASSUME ClusterIInv, NetOK', AnswersIInv, NEW p \in Process, Gone(p)
    PROVE  AnswersIInv'
<1> DEFINE T == {t \in Thread : t[1] = p}
<1>1. /\ slot' = [t \in ClaimThread |-> IF t[1] = p THEN IdleSlot ELSE slot[t]]
      /\ beat' = [beat EXCEPT ![p] = "beaten"] /\ up' = [up EXCEPT ![p] = "down"]
      /\ net' = {m \in net : m.thread[1] # p}
                   \cup {Unheard(m) : m \in {n \in net : n.thread[1] = p /\ n.kind # "reply"}}
  BY DEF Gone
<1>2. /\ NetOK /\ beat \in [Process -> {"due", "sent", "beaten"}]
      /\ up \in [Process -> {"up", "stopping", "leaving", "down"}]
  BY DEF ClusterIInv, ProcessesOK
<1>3. /\ \A u \in ClaimThread : u[1] = p => slot'[u].at = "idle"
      /\ \A u \in ClaimThread : u[1] # p => slot'[u] = slot[u]
  BY <1>1 DEF IdleSlot
<1>4. /\ beat'[p] = "beaten" /\ up'[p] = "down"
      /\ \A q \in Process : q # p => beat'[q] = beat[q] /\ up'[q] = up[q]
  BY <1>1, <1>2
<1>5. \A n \in net : n.thread[1] # p => n \in net'
  BY <1>1
<1>6. \A n \in net' : \/ n \in net /\ n.thread[1] # p
                      \/ n.thread[1] = p /\ ~n.heard /\ n.kind # "reply"
  <2>1. \A m \in net : /\ Unheard(m).kind = m.kind /\ Unheard(m).thread = m.thread
                       /\ ~Unheard(m).heard
    BY <1>2, Fields, NetFields
  <2>2. QED
    BY <1>1, <2>1
<1>7. \A t \in ClaimThread : t \in Thread /\ t[1] \in Process
  BY ThreadNames DEF Thread
<1>8. /\ \A n \in net' : n.thread \in Thread /\ n.thread[1] \in Process
      /\ \A n \in net : n.thread \in Thread
  <2>1. \A n \in net' : n \in Message
    BY DEF NetOK, WellFormed
  <2>2. \A n \in net' : n.thread \in Thread
    BY <2>1 DEF Message
  <2>3. QED
    BY <1>2, <2>2, ThreadNames, NetFields
<1>9. OnlyMove(T)
  <2>1. \A u \in ClaimThread : u \notin T => slot'[u] = slot[u]
    BY <1>3, <1>7
  <2>2. \A q \in Process : BeatThread(q) \notin T => q # p
    BY ThreadNames DEF Thread
  <2>3. \A q \in Process : MainThread(q) \notin T => q # p
    BY ThreadNames DEF Thread
  <2>4. \A n \in net' : n.thread \notin T => n \in net
    BY <1>6, <1>8
  <2>5. \A n \in net : n.thread \notin T => n \in net'
    BY <1>5, <1>8
  <2> HIDE DEF T
  <2>6. QED
    BY <1>4, <2>1, <2>2, <2>3, <2>4, <2>5 DEF OnlyMove
<1>10. ASSUME NEW t \in T PROVE HeardNoMore(t)
  <2>1. ~Asking(t)'
    <3>1. ~(t \in ClaimThread /\ slot'[t].at \in {"registering", "claiming", "completing"})
      BY <1>3
    <3>2. \A q \in Process : t = BeatThread(q) => beat'[q] # "sent"
      BY <1>4, ThreadNames
    <3>3. QED
      BY <3>1, <3>2 DEF Asking
  <2>2. \A n \in net' : n.thread = t => ~n.heard /\ n.kind # "reply"
    BY <1>6
  <2>3. QED
    BY <2>1, <2>2 DEF HeardNoMore
<1>11. \A n \in net' : n.heard => up'[n.thread[1]] # "down"
  <2> SUFFICES ASSUME NEW n \in net', n.heard PROVE up'[n.thread[1]] # "down"
    OBVIOUS
  <2>1. n \in net /\ n.thread[1] # p
    BY <1>6
  <2>2. up[n.thread[1]] # "down"
    BY <2>1 DEF AnswersIInv, HeardAreExpected, Expected
  <2>3. QED
    BY <1>4, <1>8, <2>1, <2>2
<1>12. TheGoneAskNothing'
  <2>1. ASSUME NEW q \in Process, up'[q] = "down"
        PROVE  /\ beat'[q] # "sent"
               /\ \A t \in ClaimThread : t[1] = q => slot'[t].at = "idle"
    <3>1. CASE q = p
      BY <1>3, <1>4, <3>1
    <3>2. CASE q # p
      BY <1>3, <1>4, <2>1, <3>2 DEF AnswersIInv, TheGoneAskNothing
    <3>3. QED
      BY <3>1, <3>2
  <2>2. QED
    BY <2>1 DEF TheGoneAskNothing
<1> HIDE DEF T
<1>13. QED
  BY <1>2, <1>9, <1>10, <1>11, <1>12, OnlyTheyAsk

LEMMA MainThreadAsks ==
    ASSUME ClusterIInv, NetOK', AnswersIInv, NEW p \in Process,
           Stop(p) \/ SendUnregister(p) \/ Exit(p) \/ Crash(p)
    PROVE  AnswersIInv'
<1> DEFINE t == MainThread(p)
<1>1. /\ t[1] = p /\ t \notin ClaimThread
      /\ \A q \in Process : t # BeatThread(q) /\ (q # p => t # MainThread(q))
  BY ThreadNames
<1>2. t \in Thread
  BY DEF Thread
<1>3. up \in [Process -> {"up", "stopping", "leaving", "down"}] /\ NetOK
  BY DEF ClusterIInv, ProcessesOK
<1>4. CASE Stop(p)
  <2>1. /\ up[p] = "up" /\ up' = [up EXCEPT ![p] = "stopping"]
        /\ UNCHANGED <<slot, beat, net>>
    BY <1>4 DEF Stop
  <2>2. up'[p] = "stopping" /\ \A q \in Process : q # p => up'[q] = up[q]
    BY <1>3, <2>1
  <2>3. \A q \in Process : /\ up'[q] = "leaving" <=> up[q] = "leaving"
                           /\ up'[q] = "down" => up[q] = "down"
    BY <2>1, <2>2
  <2>4. QED
    BY <1>3, <2>1, <2>3, NoneMoves
<1>5. CASE SendUnregister(p)
  <2>1. /\ up[p] = "stopping" /\ up' = [up EXCEPT ![p] = "leaving"]
        /\ net' = net \cup {Request("unregister", t, reg[p], {}, "")}
        /\ UNCHANGED <<slot, beat>>
    BY <1>5 DEF SendUnregister
  <2>2. up'[p] = "leaving" /\ \A q \in Process : q # p => up'[q] = up[q]
    BY <1>3, <2>1
  <2>3. \A n \in net : n.thread = t => ~n.heard
    <3>1. \A n \in net : n.thread = t /\ n.heard => Expected(n)
      BY <1>2, <1>3, OneIsHeard
    <3>2. \A n \in net : n.thread = t /\ n.heard => up[p] = "leaving"
      BY <1>1, <3>1 DEF Expected
    <3>3. QED
      BY <2>1, <3>2
  <2>4. PICK r : r = Request("unregister", t, reg[p], {}, "")
    OBVIOUS
  <2> HIDE DEF t
  <2>5. r.kind = "unregister" /\ r.thread = t /\ r.heard
    BY <2>4 DEF Request
  <2>6. r \in net' /\ (\A n \in net' : n = r \/ n \in net) /\ \A n \in net : n \in net'
    BY <2>1, <2>4
  <2>7. Expected(r)'
    BY <1>1, <2>2, <2>5 DEF Expected
  <2>8. \A q \in Process : MainThread(q) # t => up'[q] = up[q]
    BY <2>2 DEF t
  <2>9. up[t[1]] # "down" /\ up'[t[1]] # "down"
    BY <1>1, <2>1, <2>2
  <2>10. \E k \in net' : /\ k.heard /\ k.thread = t /\ Expected(k)'
                         /\ \A n \in net' : n # k => n \in net /\ (n.thread = t => ~n.heard)
    BY <2>3, <2>5, <2>6, <2>7
  <2>11. slot' = slot /\ beat' = beat
    BY <2>1
  <2>12. QED
    BY <1>2, <1>3, <2>6, <2>8, <2>9, <2>10, <2>11, OneThreadAsks
<1>6. CASE Exit(p) \/ Crash(p)
  BY <1>6, GoneAsks DEF Exit, Crash
<1>7. QED
  BY <1>4, <1>5, <1>6

(* The coordinator answers a request; nobody hears it if its sender gave up.*)
LEMMA AnswerIsHeard ==
    ASSUME NetOK, NetOK', AnswersIInv, NEW m \in net, NEW w, NEW J, NEW word,
           m.kind # "reply", m.kind # "claim" => J = {},
           net' = Answered(m, w, J, word), UNCHANGED processVars
    PROVE  AnswersIInv'
<1>1. slot' = slot /\ beat' = beat /\ up' = up
  BY DEF processVars
<1>2. m \in Message /\ m.thread \in Thread /\ m.heard \in BOOLEAN
  BY NetFields
<1>3. CASE ~m.heard
  <2>1. net' = net \ {m}
    BY <1>3 DEF Answered
  <2>2. QED
    BY <1>1, <1>3, <2>1, NoneMoves
<1>4. CASE m.heard
  <2>1. Expected(m) /\ \A n \in net : n.heard /\ n.thread = m.thread => n = m
    BY <1>4 DEF AnswersIInv, ListensForOne, HeardAreExpected
  <2>2. PICK r : r = Request("reply", m.thread, w, J, word)
    OBVIOUS
  <2>3. r.kind = "reply" /\ r.thread = m.thread /\ r.jobs = J /\ r.heard
    BY <2>2 DEF Request
  <2>4. net' = (net \ {m}) \cup {r}
    BY <1>4, <2>2 DEF Answered
  <2>5. Expected(r)'
    <3> DEFINE t == m.thread
               p == t[1]
    <3>1. t \in ClaimThread => ClaimExpects(slot[t], m)
      BY <2>1 DEF Expected
    <3>2. t \in ClaimThread => ClaimExpects(slot[t], r)
      BY <2>3, <3>1 DEF ClaimExpects
    <3>3. /\ up[p] # "down"
          /\ t = BeatThread(p) => beat[p] = "sent"
          /\ t = MainThread(p) => up[p] = "leaving"
      BY <2>1 DEF Expected
    <3> HIDE DEF t
    <3>4. r.thread = t /\ r.kind = "reply"
      BY <2>3 DEF t
    <3>5. t \in ClaimThread => ClaimExpects(slot'[t], r)
      BY <1>1, <3>2
    <3>6. /\ up'[p] # "down"
          /\ t = BeatThread(p) => beat'[p] = "sent"
          /\ t = MainThread(p) => up'[p] = "leaving"
      BY <1>1, <3>3
    <3>7. QED
      BY <3>4, <3>5, <3>6 DEF Expected, ClaimExpects
  <2>6. \E k \in net' : /\ k.heard /\ k.thread = m.thread /\ Expected(k)'
                        /\ \A n \in net' : n # k => n \in net /\ (n.thread = m.thread => ~n.heard)
    BY <2>1, <2>3, <2>4, <2>5
  <2>7. \A n \in net : n.thread # m.thread => n \in net'
    BY <2>4
  <2>8. up[m.thread[1]] # "down" /\ up'[m.thread[1]] # "down"
    BY <1>1, <2>1 DEF Expected
  <2>9. QED
    BY <1>1, <1>2, <2>6, <2>7, <2>8, OneThreadAsks
<1>5. QED
  BY <1>2, <1>3, <1>4

LEMMA ServeAnswers ==
    ASSUME ClusterIInv, NetOK', AnswersIInv, NEW m \in net, Serve(m)
    PROVE  AnswersIInv'
<1>1. UNCHANGED processVars /\ NetOK
  BY DEF Serve, ClusterIInv
<1>2. CASE net' = net
  BY <1>1, <1>2, NoneMoves DEF processVars
<1>3. CASE \E w, word : m.kind # "reply" /\ net' = Answered(m, w, {}, word)
  BY <1>1, <1>3, AnswerIsHeard
<1>4. CASE \E w, J, word : m.kind = "claim" /\ net' = Answered(m, w, J, word)
  <2>1. PICK w, J, word : m.kind = "claim" /\ net' = Answered(m, w, J, word)
    BY <1>4
  <2>2. m.kind # "reply"
    BY <2>1
  <2>3. QED
    BY <1>1, <2>1, <2>2, AnswerIsHeard
<1>5. CASE ServeRegister(m) \/ ServeComplete(m) \/ ServeHeartbeat(m) \/ ServeUnregister(m)
  <2>1. /\ m.kind \in {"register", "complete", "heartbeat", "unregister"}
        /\ \E w, word : net' = Answered(m, w, {}, word)
    BY <1>5 DEF ServeRegister, ServeComplete, ServeHeartbeat, ServeUnregister
  <2>2. QED
    BY <1>3, <2>1
<1>6. CASE ServeClaim(m)
  <2>1. m.kind = "claim" /\ (net' = net \/ \E w, J, word : net' = Answered(m, w, J, word))
    BY <1>6 DEF ServeClaim
  <2>2. QED
    BY <1>2, <1>4, <2>1
<1>7. QED
  BY <1>5, <1>6 DEF Serve

(* Requests fail, and their senders go on without an answer.                *)
LEMMA CutOffAsks ==
    ASSUME NetOK, NetOK', ProcessesOK, AnswersIInv, NEW T, T \subseteq Thread, CutOff(T),
           \A n \in net' : n.thread \notin T => n \in net,
           \A n \in net' : n.thread \in T => ~n.heard /\ n.kind # "reply",
           \A n \in net : n.thread \notin T /\ n.heard => n \in net'
    PROVE  AnswersIInv'
<1>1. /\ up' = up
      /\ \A q \in Process : beat'[q] = IF BeatThread(q) \in T THEN "beaten" ELSE beat[q]
      /\ \A u \in ClaimThread : u \notin T => slot'[u] = slot[u]
  BY DEF CutOff
<1>2. \A u \in ClaimThread : u \in T => slot'[u].at \in {"idle", "retrying"}
  BY DEF CutOff, IdleSlot
<1>3. \A u \in ClaimThread : slot[u].at = "idle" => slot'[u].at = "idle"
  BY DEF CutOff, IdleSlot
<1>4. OnlyMove(T)
  BY <1>1 DEF OnlyMove
<1>5. ASSUME NEW t \in T PROVE HeardNoMore(t)
  <2>1. \A q \in Process : t = BeatThread(q) => beat'[q] # "sent"
    BY <1>1
  <2>2. t \in ClaimThread => slot'[t].at \notin {"registering", "claiming", "completing"}
    BY <1>2
  <2>3. QED
    BY <2>1, <2>2 DEF HeardNoMore, Asking
<1>6. \A n \in net' : n.heard => up'[n.thread[1]] # "down"
  BY <1>1 DEF AnswersIInv, HeardAreExpected, Expected
<1>7. TheGoneAskNothing'
  <2>1. ASSUME NEW q \in Process, up'[q] = "down"
        PROVE  /\ beat'[q] # "sent"
               /\ \A t \in ClaimThread : t[1] = q => slot'[t].at = "idle"
    BY <1>1, <1>3, <2>1 DEF AnswersIInv, TheGoneAskNothing
  <2>2. QED
    BY <2>1 DEF TheGoneAskNothing
<1>8. QED
  BY <1>4, <1>5, <1>6, <1>7, OnlyTheyAsk

LEMMA AbandonAsks ==
    ASSUME ClusterIInv, NetOK', AnswersIInv, NEW m \in net, Abandon(m)
    PROVE  AnswersIInv'
<1> DEFINE T == {m.thread}
<1>1. NetOK /\ ProcessesOK /\ m.thread \in Thread
  BY NetFields DEF ClusterIInv
<1>2. /\ m.heard /\ CutOff(T)
      /\ \/ net' = net \ {m}
         \/ m.kind # "reply" /\ net' = (net \ {m}) \cup {Unheard(m)}
  BY DEF Abandon
<1>3. \A n \in net : n.heard /\ n.thread = m.thread => n = m
  BY <1>2 DEF AnswersIInv, ListensForOne
<1>4. \A n \in net : n.kind = "reply" => n.heard
  BY DEF AnswersIInv, ListensForOne
<1>5. /\ Unheard(m).kind = m.kind /\ Unheard(m).thread = m.thread /\ ~Unheard(m).heard
  BY <1>1, Fields, NetFields
<1>6. /\ \A n \in net' : n.thread \notin T => n \in net
      /\ \A n \in net' : n.thread \in T => ~n.heard /\ n.kind # "reply"
      /\ \A n \in net : n.thread \notin T => n \in net'
  BY <1>2, <1>3, <1>4, <1>5
<1>7. T \subseteq Thread
  BY <1>1
<1> HIDE DEF T
<1>8. QED
  BY <1>1, <1>2, <1>6, <1>7, CutOffAsks

LEMMA RestartAsks ==
    ASSUME ClusterIInv, NetOK', AnswersIInv, Restart
    PROVE  AnswersIInv'
<1>1. NetOK /\ ProcessesOK
  BY DEF ClusterIInv
<1>2. PICK M \in SUBSET {m \in net : m.heard} : net' = net \ M /\ CutOff({m.thread : m \in M})
  BY DEF Restart
<1> DEFINE T == {m.thread : m \in M}
<1>3. T \subseteq Thread
  BY <1>1, NetFields
<1>4. \A n \in net : n.kind = "reply" => n.heard
  BY DEF AnswersIInv, ListensForOne
<1>5. ASSUME NEW n \in net', n.thread \in T PROVE ~n.heard
  <2>1. PICK m \in M : m.thread = n.thread
    BY <1>5
  <2>2. m \in net /\ m.heard /\ n \in net /\ n # m
    BY <1>2, <2>1
  <2>3. QED
    BY <2>1, <2>2 DEF AnswersIInv, ListensForOne
<1>6. /\ \A n \in net' : n \in net
      /\ \A n \in net : n.thread \notin T => n \in net'
      /\ \A n \in net' : n.thread \in T => ~n.heard /\ n.kind # "reply"
  BY <1>2, <1>4, <1>5
<1>7. CutOff(T)
  BY <1>2
<1> HIDE DEF T
<1>8. QED
  BY <1>1, <1>3, <1>6, <1>7, CutOffAsks

(* Clients call no worker, and a tick only asks for the next heartbeat.     *)
LEMMA OthersAsk ==
    ASSUME ClusterIInv, NetOK', AnswersIInv,
           \/ \E j \in Job : ClientSubmits(j)
           \/ ClientPolls \/ RegularTick \/ LateTick \/ UNCHANGED clusterVars
    PROVE  AnswersIInv'
<1>1. NetOK
  BY DEF ClusterIInv
<1>2. net' = net /\ slot' = slot /\ up' = up
  BY DEF ClientSubmits, ClientPolls, RegularTick, LateTick, Passing, clusterVars, processVars
<1>3. \A q \in Process : beat'[q] = "sent" <=> beat[q] = "sent"
  <2>1. CASE beat' = beat
    BY <2>1
  <2>2. CASE Passing
    BY <2>2 DEF Passing
  <2>3. QED
    BY <2>1, <2>2
       DEF ClientSubmits, ClientPolls, RegularTick, LateTick, clusterVars, processVars
<1>4. QED
  BY <1>1, <1>2, <1>3, NoneMoves

-----------------------------------------------------------------------------
(* Whatever requests and replies are lost or late, whenever processes stop  *)
(* or crash and the coordinator is started again: a thread that has called  *)
(* the coordinator has the request or its reply under way until it goes on, *)
(* no reply waits for a thread that has gone on or asks something else, and *)
(* a process that is gone waits for nothing (client.py:113, worker.py:90,   *)
(* 121, 144).                                                               *)
THEOREM NobodyWaitsInVain == ClusterSpec => []AnswersIInv
<1>1. ClusterInit => AnswersIInv
  <2> SUFFICES ASSUME ClusterInit PROVE AnswersIInv
    OBVIOUS
  <2>1. /\ net = {} /\ \A t \in ClaimThread : slot[t].at = "idle"
        /\ \A p \in Process : beat[p] = "due" /\ up[p] = "up"
    BY DEF ClusterInit, IdleSlot
  <2>2. \A t \in Thread : ~Asking(t)
    BY <2>1 DEF Asking
  <2>3. QED
    BY <2>1, <2>2
       DEF AnswersIInv, ListensForOne, HeardAreExpected, AskersAreHeard, TheGoneAskNothing
<1>2. ClusterIInv /\ ClusterIInv' /\ AnswersIInv /\ [ClusterNext]_clusterVars => AnswersIInv'
  <2> SUFFICES ASSUME ClusterIInv, ClusterIInv', AnswersIInv, [ClusterNext]_clusterVars
               PROVE  AnswersIInv'
    OBVIOUS
  <2>1. NetOK'
    BY DEF ClusterIInv
  <2>2. ASSUME NEW p \in Process, ProcessStep(p) PROVE AnswersIInv'
    BY <2>1, <2>2, ClaimThreadAsks, BeatThreadAsks, MainThreadAsks DEF ProcessStep
  <2>3. ASSUME NEW m \in net, Serve(m) \/ Abandon(m) PROVE AnswersIInv'
    BY <2>1, <2>3, ServeAnswers, AbandonAsks
  <2>4. CASE Restart
    BY <2>1, <2>4, RestartAsks
  <2>5. QED
    BY <2>1, <2>2, <2>3, <2>4, OthersAsk DEF ClusterNext
<1>3. QED
  BY <1>1, <1>2, ClusterInvariant, PTL DEF ClusterSpec
=============================================================================
