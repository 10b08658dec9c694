------------------------------ MODULE Cluster ------------------------------
(***************************************************************************)
(* The whole inference cluster: worker processes (distributed/worker.py)   *)
(* that reach the scheduler over HTTP (distributed/coordinator.py and      *)
(* client.py), and clients that submit jobs and poll them.                 *)
(*                                                                         *)
(* A worker process runs one claim thread per capability, a heartbeat      *)
(* thread and its main thread.  Each thread has at most one request under  *)
(* way.  The coordinator serves a request in one step (a scheduler method  *)
(* holds the lock throughout); the reply travels on its own, so everything *)
(* may happen between serving a request and acting on its reply.  A        *)
(* connection error leaves the request behind: it may be lost, or served   *)
(* at any later time with nobody listening.                                *)
(*                                                                         *)
(* The heartbeat interval, a third of the TTL or less (coordinator.py:121),*)
(* is the tick here.  MaxFaults bounds what is not regular: connection     *)
(* errors, ticks that overtake a process or the network, stops, crashes,   *)
(* and restarts of the coordinator, which keeps everything in memory.      *)
(***************************************************************************)
EXTENDS Scheduler

CONSTANTS Process,     (* worker processes                                  *)
          Serves,      (* the capabilities each process has handlers for    *)
          Steady,      (* the processes that neither stop nor crash         *)
          FaultKinds,  (* the irregular events that happen                  *)
          MaxFaults    (* bound on how many of them happen                  *)

ASSUME ClusterAssumption ==
       /\ IsFiniteSet(Process)
       /\ {"heartbeat", "main"} \cap Capability = {}
       /\ Serves \in [Process -> SUBSET Capability]
       /\ \A p \in Process : Serves[p] # {}
       /\ Steady \subseteq Process
       /\ FaultKinds \subseteq {"error", "late", "stop", "crash", "restart"}
       /\ MaxFaults \in Nat

VARIABLES reg,      (* _worker_id of each process                           *)
          slot,     (* where each claim thread is; jobs is its share of     *)
                    (* _active_job_ids                                      *)
          beat,     (* where each heartbeat thread is in the current tick   *)
          up,       (* where each main thread is                            *)
          net,      (* requests and replies under way                       *)
          spent     (* irregular events so far                              *)

processVars == <<reg, slot, beat, up>>
clusterVars == <<vars, processVars, net, spent>>

ClaimThread == UNION {{p} \X Serves[p] : p \in Process}
BeatThread(p) == <<p, "heartbeat">>
MainThread(p) == <<p, "main">>
Thread == ClaimThread \cup {BeatThread(p) : p \in Process}
                      \cup {MainThread(p) : p \in Process}

RequestKind == {"register", "claim", "complete", "heartbeat", "unregister"}

(* word is the outcome in a completion and the verdict in a reply: "none"   *)
(* is a claim's 204, "gone" is 404, "refused" is 409.                       *)
Message == [kind : RequestKind \cup {"reply"}, thread : Thread,
            worker : Worker \cup {NoWorker}, jobs : SUBSET Job,
            word : Terminal \cup {"", "ok", "none", "gone", "refused"},
            heard : BOOLEAN]

Slot == [at : {"idle", "retrying", "registering", "claiming", "running", "completing"},
         worker : Worker \cup {NoWorker}, jobs : SUBSET Job]

IdleSlot == [at |-> "idle", worker |-> NoWorker, jobs |-> {}]

ClusterTypeOK ==
    /\ TypeOK
    /\ reg \in [Process -> Worker \cup {NoWorker}]
    /\ slot \in [ClaimThread -> Slot]
    /\ beat \in [Process -> {"due", "sent", "beaten"}]
    /\ up \in [Process -> {"up", "stopping", "leaving", "down"}]
    /\ net \in SUBSET Message
    /\ spent \in 0..MaxFaults

ClusterInit ==
    /\ Init
    /\ reg = [p \in Process |-> NoWorker]
    /\ slot = [t \in ClaimThread |-> IdleSlot]
    /\ beat = [p \in Process |-> "due"]
    /\ up = [p \in Process |-> "up"]
    /\ net = {}
    /\ spent = 0

-----------------------------------------------------------------------------
Request(kind, t, w, J, word) ==
    [kind |-> kind, thread |-> t, worker |-> w, jobs |-> J, word |-> word,
     heard |-> TRUE]

(* A request that its sender no longer waits for.                           *)
Unheard(m) == [m EXCEPT !.heard = FALSE]

(* What the network holds once m is answered: nothing listens to the reply  *)
(* to a request whose sender gave up.                                       *)
Answered(m, w, J, word) ==
    (net \ {m}) \cup
        IF m.heard THEN {Request("reply", m.thread, w, J, word)} ELSE {}

Fault(kind) == kind \in FaultKinds /\ spent < MaxFaults /\ spent' = spent + 1

RepliesTo(t) == {m \in net : m.kind = "reply" /\ m.thread = t}

(* Variant: a job counts as active only once its handler has returned.      *)
FinishedJobs(p) ==
    UNION {slot[<<p, c>>].jobs : c \in {d \in Serves[p] : slot[<<p, d>>].at = "completing"}}

(* _active_job_ids *)
ActiveJobs(p) == UNION {slot[<<p, c>>].jobs : c \in Serves[p]}

(* _registration_lock is held across the whole of _ensure_registered.       *)
Registering(p) ==
    \E c \in Serves[p] : \/ slot[<<p, c>>].at = "registering"
                         \/ slot[<<p, c>>].at = "retrying" /\ up[p] = "up"

(* An identifier that nobody has or remembers stands for a fresh one.       *)
FreshWorker(w) ==
    /\ w \notin live
    /\ \A j \in Job : owner[j] # w
    /\ \A p \in Process : reg[p] # w
    /\ \A t \in ClaimThread : slot[t].worker # w
    /\ \A m \in net : m.worker # w

Advertises(w, p) ==
    \A c \in Capability : Slots[w][c] = IF c \in Serves[p] THEN 1 ELSE 0

(* Variant: the registration survives a 404.                                *)
Remembered(p) == reg

(* _forget_registration, whichever registration the process has by now.     *)
Forgotten(p) == [reg EXCEPT ![p] = NoWorker]

-----------------------------------------------------------------------------
(* The worker's claim loop, thread <<p, c>>.                                *)

(* _ensure_registered, first or further attempt.                            *)
SendRegister(p, c) ==
    LET t == <<p, c>> IN
    /\ up[p] = "up"
    /\ \/ slot[t].at = "idle" /\ reg[p] = NoWorker /\ ~Registering(p)
       \/ slot[t].at = "retrying"
    /\ slot' = [slot EXCEPT ![t].at = "registering"]
    /\ net' = net \cup {Request("register", t, NoWorker, {}, "")}
    /\ UNCHANGED <<vars, reg, beat, up, spent>>

(* The registration is kept and used for a claim at once.                   *)
Registered(p, c) ==
    LET t == <<p, c>> IN
    /\ slot[t].at = "registering"
    /\ \E m \in RepliesTo(t) :
          /\ reg' = [reg EXCEPT ![p] = m.worker]
          /\ net' = (net \ {m}) \cup {Request("claim", t, m.worker, {}, "")}
    /\ slot' = [slot EXCEPT ![t].at = "claiming"]
    /\ UNCHANGED <<vars, beat, up, spent>>

SendClaim(p, c) ==
    LET t == <<p, c>> IN
    /\ up[p] = "up"
    /\ slot[t].at = "idle" /\ reg[p] # NoWorker /\ ~Registering(p)
    /\ slot' = [slot EXCEPT ![t].at = "claiming"]
    /\ net' = net \cup {Request("claim", t, reg[p], {}, "")}
    /\ UNCHANGED <<vars, reg, beat, up, spent>>

(* What a claim thread is doing after reply m to its claim.                 *)
AfterClaim(m) ==
    IF m.word = "ok"
    THEN [at |-> "running", worker |-> m.worker, jobs |-> m.jobs]
    ELSE IdleSlot

(* The reply to a claim: a job, nothing, or 404.                            *)
ClaimReturns(p, c) ==
    LET t == <<p, c>> IN
    /\ slot[t].at = "claiming"
    /\ \E m \in RepliesTo(t) :
          /\ m.word = "gone" => ~Registering(p)
          /\ reg' = IF m.word = "gone" THEN Forgotten(p) ELSE reg
          /\ slot' = [slot EXCEPT ![t] = AfterClaim(m)]
          /\ net' = net \ {m}
    /\ UNCHANGED <<vars, beat, up, spent>>

(* The handler returns or raises; a failure is reported as final.           *)
HandlerReturns(p, c) ==
    LET t == <<p, c>> IN
    /\ slot[t].at = "running"
    /\ slot' = [slot EXCEPT ![t].at = "completing"]
    /\ \E o \in Terminal :
          net' = net \cup {Request("complete", t, slot[t].worker, slot[t].jobs, o)}
    /\ UNCHANGED <<vars, reg, beat, up, spent>>

(* Whatever the verdict on the completion, the thread goes on; a 404, for a *)
(* job that the coordinator has forgotten, costs the registration.          *)
Completed(p, c) ==
    LET t == <<p, c>> IN
    /\ slot[t].at = "completing"
    /\ \E m \in RepliesTo(t) :
          /\ m.word = "gone" => ~Registering(p)
          /\ reg' = IF m.word = "gone" THEN Forgotten(p) ELSE reg
          /\ net' = net \ {m}
    /\ slot' = [slot EXCEPT ![t] = IdleSlot]
    /\ UNCHANGED <<vars, beat, up, spent>>

-----------------------------------------------------------------------------
(* The heartbeat loop.                                                      *)
SendBeat(p) ==
    /\ up[p] = "up" /\ beat[p] = "due"
    /\ reg[p] # NoWorker /\ ~Registering(p)
    /\ beat' = [beat EXCEPT ![p] = "sent"]
    /\ net' = net \cup {Request("heartbeat", BeatThread(p), reg[p], ActiveJobs(p), "")}
    /\ UNCHANGED <<vars, reg, slot, up, spent>>

BeatReturns(p) ==
    /\ beat[p] = "sent"
    /\ \E m \in RepliesTo(BeatThread(p)) :
          /\ m.word = "gone" => ~Registering(p)
          /\ reg' = IF m.word = "gone" THEN Forgotten(p) ELSE reg
          /\ net' = net \ {m}
    /\ beat' = [beat EXCEPT ![p] = "beaten"]
    /\ UNCHANGED <<vars, slot, up, spent>>

-----------------------------------------------------------------------------
(* The main thread.                                                         *)

(* KeyboardInterrupt or a dead thread: stop_event is set.                   *)
Stop(p) ==
    /\ up[p] = "up" /\ p \notin Steady
    /\ Fault("stop")
    /\ up' = [up EXCEPT ![p] = "stopping"]
    /\ UNCHANGED <<vars, reg, slot, beat, net>>

(* _unregister                                                              *)
SendUnregister(p) ==
    /\ up[p] = "stopping" /\ reg[p] # NoWorker /\ ~Registering(p)
    /\ up' = [up EXCEPT ![p] = "leaving"]
    /\ net' = net \cup {Request("unregister", MainThread(p), reg[p], {}, "")}
    /\ UNCHANGED <<vars, reg, slot, beat, spent>>

(* The process is gone, its daemon threads with it; the requests they sent  *)
(* may still be served.                                                     *)
Gone(p) ==
    /\ up' = [up EXCEPT ![p] = "down"]
    /\ reg' = [reg EXCEPT ![p] = NoWorker]
    /\ slot' = [t \in ClaimThread |-> IF t[1] = p THEN IdleSlot ELSE slot[t]]
    /\ beat' = [beat EXCEPT ![p] = "beaten"]
    /\ net' = {m \in net : m.thread[1] # p}
                 \cup {Unheard(m) :
                          m \in {n \in net : n.thread[1] = p /\ n.kind # "reply"}}
    /\ UNCHANGED vars

(* The process ends once its unregistration is answered or has failed, or   *)
(* without one if it has no registration.                                   *)
Exit(p) ==
    /\ \/ up[p] = "stopping" /\ reg[p] = NoWorker /\ ~Registering(p)
       \/ /\ up[p] = "leaving"
          /\ ~ \E m \in net : /\ m.thread = MainThread(p)
                               /\ m.heard /\ m.kind = "unregister"
    /\ Gone(p)
    /\ UNCHANGED spent

Crash(p) ==
    /\ up[p] # "down" /\ p \notin Steady
    /\ Fault("crash")
    /\ Gone(p)

-----------------------------------------------------------------------------
(* The coordinator: one request, one scheduler method, one reply.           *)

(* CHOOSE has no value when the identifiers run out: a run that ends well   *)
(* never needed more than it was given.                                     *)
ServeRegister(m) ==
    /\ m.kind = "register"
    /\ \E w \in Worker :
          /\ w = CHOOSE v \in Worker : FreshWorker(v) /\ Advertises(v, m.thread[1])
          /\ FreshWorker(w) /\ Advertises(w, m.thread[1])
          /\ RegisterWorker(w)
          /\ net' = Answered(m, w, {}, "ok")

(* A claim is answered with a job, goes on waiting, or runs out of time; a  *)
(* worker that the reap removed, even under a waiting claim, is answered    *)
(* with 404.                                                                *)
ServeClaim(m) ==
    LET w == m.worker
        c == m.thread[2]
    IN  /\ m.kind = "claim"
        /\ \/ /\ ClaimJob(w, c)
              /\ net' = Answered(m, w, {j \in Job : attempts'[j] # attempts[j]}, "ok")
           \/ ClaimNothing(w, c) /\ net' = net
           \/ ClaimNothing(w, c) /\ net' = Answered(m, NoWorker, {}, "none")
           \/ /\ w \notin LiveAfterReap
              /\ Reap /\ net' = Answered(m, NoWorker, {}, "gone")

ServeComplete(m) ==
    /\ m.kind = "complete"
    /\ \E j \in m.jobs :
          \/ Finish(m.worker, j, m.word) /\ net' = Answered(m, NoWorker, {}, "ok")
          \/ /\ ~MayComplete(m.worker, j) /\ status[j] # "none"
             /\ UNCHANGED vars /\ net' = Answered(m, NoWorker, {}, "refused")
          \/ /\ status[j] = "none"
             /\ UNCHANGED vars /\ net' = Answered(m, NoWorker, {}, "gone")

ServeHeartbeat(m) ==
    /\ m.kind = "heartbeat"
    /\ \/ Heartbeat(m.worker, m.jobs) /\ net' = Answered(m, NoWorker, {}, "ok")
       \/ /\ m.worker \notin LiveAfterReap
          /\ Reap /\ net' = Answered(m, NoWorker, {}, "gone")

(* Variant: the worker's record goes, but its jobs are not given back.      *)
ServeUnregisterOnly(m) ==
    /\ m.kind = "unregister"
    /\ live' = live \ {m.worker}
    /\ UNCHANGED <<jobVars, silent, active>>
    /\ net' = Answered(m, NoWorker, {}, "ok")

ServeUnregister(m) ==
    /\ m.kind = "unregister"
    /\ \/ Unregister(m.worker)
       \/ m.worker \notin live /\ UNCHANGED vars
    /\ net' = Answered(m, NoWorker, {}, "ok")

Serve(m) ==
    /\ \/ ServeRegister(m) \/ ServeClaim(m) \/ ServeComplete(m)
       \/ ServeHeartbeat(m) \/ ServeUnregister(m)
    /\ UNCHANGED <<processVars, spent>>

-----------------------------------------------------------------------------
(* Clients submit jobs and poll them (submit and wait of client.py).  A job *)
(* gets an identifier that no thread or message still knows.                *)
ClientSubmits(j) ==
    /\ \A t \in ClaimThread : j \notin slot[t].jobs
    /\ \A m \in net : j \notin m.jobs
    /\ Submit(j) /\ UNCHANGED <<processVars, net, spent>>

ClientPolls == Reap /\ UNCHANGED <<processVars, net, spent>>

(* Variant: an error that no except clause names ends the claim thread.     *)
CutOffForGood(T) ==
    /\ beat' = [p \in Process |-> IF BeatThread(p) \in T THEN "beaten" ELSE beat[p]]
    /\ UNCHANGED <<slot, reg, up>>

(* The threads in T go on as their except clauses say; a registration is    *)
(* tried again under the lock.                                              *)
CutOff(T) ==
    /\ slot' = [t \in ClaimThread |->
                   IF t \notin T THEN slot[t]
                   ELSE IF slot[t].at = "registering" THEN [IdleSlot EXCEPT !.at = "retrying"]
                   ELSE IdleSlot]
    /\ beat' = [p \in Process |-> IF BeatThread(p) \in T THEN "beaten" ELSE beat[p]]
    /\ UNCHANGED <<reg, up>>

(* A connection error: the request is lost or stays behind, or its reply is *)
(* lost.                                                                    *)
Abandon(m) ==
    /\ m.heard
    /\ Fault("error")
    /\ \/ net' = net \ {m}
       \/ m.kind # "reply" /\ net' = (net \ {m}) \cup {Unheard(m)}
    /\ CutOff({m.thread})
    /\ UNCHANGED vars

(* A new scheduler, as Init has it.                                         *)
NewScheduler ==
    /\ status' = [j \in Job |-> "none"]
    /\ attempts' = [j \in Job |-> 0]
    /\ owner' = [j \in Job |-> NoWorker]
    /\ lease' = [j \in Job |-> 0]
    /\ queue' = <<>>
    /\ live' = {}
    /\ silent' = [w \in Worker |-> 0]
    /\ active' = [w \in Worker |-> {}]

(* The coordinator's process ends and is started again: jobs, workers and   *)
(* leases are gone.  Connections break; a request that was not yet accepted *)
(* reaches the new process.                                                 *)
Restart ==
    /\ Fault("restart")
    /\ NewScheduler
    /\ \E M \in SUBSET {m \in net : m.heard} :
          net' = net \ M /\ CutOff({m.thread : m \in M})

(* Time passes.  It is regular while every registered process that is up    *)
(* has had its heartbeat answered and only claims are still waiting.        *)
OnTime ==
    /\ \A p \in Process : up[p] = "up" /\ reg[p] # NoWorker => beat[p] = "beaten"
    /\ \A m \in net : m.heard => m.kind = "claim"

Passing ==
    /\ Tick
    /\ beat' = [p \in Process |-> IF up[p] = "up" /\ beat[p] = "beaten" THEN "due"
                                  ELSE beat[p]]
    /\ UNCHANGED <<reg, slot, up, net>>

RegularTick == OnTime /\ Passing /\ UNCHANGED spent

LateTick == ~OnTime /\ Passing /\ Fault("late")

ClaimThreadStep(p, c) ==
    \/ SendRegister(p, c) \/ Registered(p, c)
    \/ SendClaim(p, c) \/ ClaimReturns(p, c)
    \/ HandlerReturns(p, c) \/ Completed(p, c)

ProcessStep(p) ==
    \/ \E c \in Serves[p] : ClaimThreadStep(p, c)
    \/ SendBeat(p) \/ BeatReturns(p)
    \/ Stop(p) \/ SendUnregister(p) \/ Exit(p) \/ Crash(p)

ClusterNext ==
    \/ \E p \in Process : ProcessStep(p)
    \/ \E m \in net : Serve(m) \/ Abandon(m)
    \/ \E j \in Job : ClientSubmits(j)
    \/ ClientPolls
    \/ RegularTick
    \/ LateTick
    \/ Restart

ClusterSpec == ClusterInit /\ [][ClusterNext]_clusterVars

(* The coordinator answers the request of thread t; a claim waits at most   *)
(* ten seconds (worker.py:80).                                              *)
Answer(t) == \E m \in net : m.thread = t /\ m.heard /\ Serve(m) /\ net' # net

(* It also gets done with the requests whose senders gave up.               *)
ServeUnheard == \E m \in net : ~m.heard /\ Serve(m) /\ net' # net

(* The threads of a process run while it is up, handlers return, requests   *)
(* that are not lost are served, and time keeps passing regularly.          *)
FairClusterSpec ==
    /\ ClusterSpec
    /\ \A p \in Process :
          /\ \A c \in Serves[p] : WF_clusterVars(ClaimThreadStep(p, c))
          /\ WF_clusterVars(SendBeat(p) \/ BeatReturns(p))
          /\ WF_clusterVars(SendUnregister(p) \/ Exit(p))
    /\ \A t \in Thread : WF_clusterVars(Answer(t))
    /\ WF_clusterVars(ServeUnheard)
    /\ SF_clusterVars(RegularTick)

-----------------------------------------------------------------------------
(* PROPERTIES *)

(* While everything is regular, no job is executed twice: heartbeats,       *)
(* claims that wait and handlers that take long never let a lease lapse,    *)
(* and each irregular event costs a job at most one execution.              *)
RetriesNeedFaults == \A j \in Job : attempts[j] <= 1 + spent

(* No two processes that are up execute the same job at the same time.      *)
NoJobRunsTwiceAtOnce ==
    \A t, u \in ClaimThread :
        (/\ t # u /\ up[t[1]] = "up" /\ up[u[1]] = "up"
         /\ slot[t].at = "running" /\ slot[u].at = "running")
           => slot[t].jobs \cap slot[u].jobs = {}

(* Every change the cluster makes to the scheduler's state is a step of     *)
(* the scheduler, so what holds of Scheduler holds of the cluster, as long  *)
(* as the coordinator's process lives (scheduler.py).                       *)
ImplementsScheduler == Spec

(* "Remove a worker and immediately return its leased work to the queue"    *)
(* (scheduler.py:161): no job stays leased to a worker that unregisters.    *)
UnregisterReturnsLeasedWork ==
    [][\A w \in live \ live' : silent[w] <= WorkerTTL =>
          \A j \in Job : ~(status'[j] = "leased" /\ owner'[j] = w)]_clusterVars

(* Every submitted job comes to an end, whatever requests fail, ticks come  *)
(* late and other processes go, as long as a steady process serves it.      *)
SubmittedJobsEnd ==
    \A j \in Job : status[j] # "none" ~> status[j] \in Terminal

(* A coordinator that has lost everything gets back to work: its workers    *)
(* find out by their 404s and register again, and a job submitted to it     *)
(* ends, unless it is lost to another restart (scheduler.py:110).           *)
JobsEndOrAreLost ==
    \A j \in Job : []<>(status[j] \in Terminal \cup {"none"})

(* A worker record that no process goes by any more, for instance because a *)
(* late 404 for an older identifier made its process forget the newer one   *)
(* (worker.py:185), does not last: time and again every record is in use.   *)
ForgottenWorkersGo ==
    []<>(\A w \in live : \E p \in Process : reg[p] = w)

(* A steady process that lost its registration gets back to one that the    *)
(* scheduler knows (the 404 branches of worker.py).                         *)
SteadyProcessesAreKnown ==
    \A p \in Steady : []<>(reg[p] \in live)
=============================================================================
