# A TLA+ verification of DETECT_OBJECTS (ODIA)

ODIA listens to Korean speech, matches it to object classes and shows those
objects in a camera picture. The repository holds three programs around one set
of models: the *classic* application (`main.py`, `runtime.py`), the *desktop*
window (`desktop/`, with the story session of `story/`), and the *cluster*
(`distributed/`), which moves the models to other machines behind a job queue.
All paths below are relative to `src/src/detect_objects/`.

## 1. Inventory

| part | state it keeps | operations | talks to |
|---|---|---|---|
| Job scheduler `distributed/scheduler.py` | jobs, worker records with active jobs, one queue, all under a condition | submit, register, heartbeat, unregister, claim, complete, get_job; each reaps first | called by the coordinator's request threads |
| Coordinator `distributed/coordinator.py` | the scheduler; one thread per request | one route per scheduler method | HTTP |
| Client `distributed/client.py`, `remote_inference.py` | nothing | submit, poll, wait; timeouts; detect, transcribe | coordinator |
| Model handlers `distributed/model_handlers.py`, `models/yolo_world_module.py` | the loaded model, the classes noted as active, the device | execute: activate, predict, fall back to the CPU | called by claim threads |
| Worker process `distributed/worker.py` | registration id, active jobs, stop event; one claim thread per capability, a heartbeat thread, the main thread | register, claim, execute, complete, heartbeat, unregister | coordinator, model handlers |
| Class nodes `distributed/comm.py`, `yolo_node.py`, `whisper_node.py` | a POST at a time; queue of one, shutdown event, receiver thread, camera loop | send, receive, put the newest, apply | each other; text matching |
| Text matching `voice_text_convert/parse_and_match_module.py` | two dictionaries | extract | both runtimes, the Whisper node |
| Classic runtime `runtime.py`, `main.py`, `tui/startup_screen.py` | models and devices, `_closed`, shutdown event, queue of one | prepare, run, voice thread, close | microphone manager, camera loop |
| Camera loop `camera_cv/camera_cv.py` | capture, model, classes in force | start_record, class switch, cleanup | runtime's queue and event |
| Microphone manager `voice_text_convert/mic_whisper_manager.py` | stream, audio and result queues, worker thread, stop event | start, stop, close, collect (voice activity), transcribe | runtime, desktop |
| Desktop window `desktop/runtime_window.py` | labels and buttons of the Qt thread | clicks, slots, closeEvent | camera, Whisper and story threads by queued signals |
| Camera and Whisper threads `desktop/camera_video.py`, `yolo_detection.py`, `whisper_stream.py` | stop flag, queue of one with a snapshot, detector | start, stop, set_classes, run | signals to the window |
| Story session `story/session.py`, `worker.py`, `generator.py` | crops in memory, crop files, events.json; a worker thread per story | record, select, remove, generate | the window's gallery; Codex |
| Setup wizard `tui/`, `device_setup/`, `opencv_preview/` | the session's choices, the finished context; per screen a selection, buttons, a test in a thread | tabs, Prev, Next, tests and their results | devices, the programs it launches |
| Measurements, model catalog, simulated video | none that another part sees | pure functions, a timer | – |

What makes the system hard: worker threads, heartbeats and a reaper share jobs
through leases whose loss is only noticed later; requests and replies are lost
or late; a client reads a record while it changes; the classic run may be
interrupted in the middle of its own cleanup; Qt slots act on signals of thread
runs that are over; files are rewritten in place while another thread reads
them.

What would make each part correct, in a line each:

* scheduler: no job is lost or handed out twice; only the holder of a lease ends
  its try; a job never gets more tries than it may have; old jobs go first;
  abandoned leases come back;
* cluster: every step is a step of that scheduler; without faults a job runs
  once; a job never runs in two live processes; every job ends while a worker
  serves it; after a restart of the coordinator its workers find back to it;
* job record: what a client was told stays true, and is complete;
* remote detection: what a caller gets was found by a model with its classes,
  whoever used that model before and whoever had the job before;
* class nodes: what was said is sent, the newest classes win, what was answered
  takes effect;
* runtime: whatever fails or interrupts, devices are released; the newest
  request wins; either side stops the other;
* desktop: buttons and labels fit the threads once the signals are handled; the
  newest instruction reaches the detector; the window closes;
* story: file, memory and gallery agree; a story is told from the selected crops
  and from no others;
* microphone: speech is told in order, once, and cut where it ends; close leaves
  nothing behind;
* wizard: what is launched is complete and is what was shown; choices are kept;
  tests stay with their screen and device, and end.

The hazards, each at its line, are in `PROJECT.json`.

## 2. The modules

```
JobLifecycle  <--implements--  Scheduler  <--implements--  Cluster
                                   ^ EXTENDS                  |
                                   +--------------------------+  <--  ClusterProofs
JobView       <--EXTENDS-----  RemoteVision       <--  RemoteVisionProofs
LatestRequest <--implements--  LocalRuntime       <--  LocalRuntimeProofs
LatestRequest <--implements--  ClassNodes         <--  ClassNodesProofs
TextMatching  <--EXTENDS------/
                               DesktopVideo       <--  DesktopVideoProofs
                               StorySession       <--  StorySessionProofs
                               MicrophoneManager  <--  MicrophoneProofs
                               SetupWizard        <--  SetupWizardProofs
```

**Scheduler** is `scheduler.py` with one action per method. The lock makes each
method one step, and the reap at the head of each method is part of its action
(`Reaped`, `Expired`, `Orphaned`, the `...AfterReap` and `...AfterRetry`
operators follow `_reap_expired_locked` and `_retry_or_fail_locked`). Times are
kept as what is left of each lease and how long each worker has been silent;
`Tick` lets one unit pass. A call with an unknown worker raises in the code
after the reap; that is `Reap` here. The reap loops over dictionaries, so the
order in which several jobs are requeued at once is left open (`Requeues`).

**JobLifecycle** is what the scheduler promises of a single job: queued, leased,
final; a try per lease, never more than `max_attempts`; final is final.

**Cluster** puts worker processes and a network in front of it. Each claim
thread, heartbeat thread and main thread is a small state machine that follows
the loops of `worker.py`; a request, its service by the coordinator and its
reply are three steps. A connection error (`Abandon`) leaves the request in the
network with nobody listening: served later or never. `_registration_lock` is
`Registering`, `_active_job_ids` the union of the slots' jobs, and the snapshot
a heartbeat sends is part of its message. `spent` counts irregular events:
errors, ticks that overtake a process or the network, stops, crashes, restarts of
the coordinator. `FaultKinds` says which of them may happen. `Restart` puts the
scheduler back to `Init` and breaks the connections, while processes, and
requests that nobody listens for any more, stay as they are; the restart of the
coordinator is not part of Scheduler, so `ImplementsScheduler` is about the life
of one coordinator.
Simplifications: main's first registration is that of the first claim thread;
the heartbeat interval is one tick (the code's is a third of the TTL or less);
abandoned requests that are equal are one; worker ids come from a finite set and
are used again once nobody remembers them. Methods that read the clock before
they take the lock are not distinguished from those that read it after.

**JobView** looks below the lock: `complete`, `claim` and the retry assign the
fields of a `JobRecord` one by one, and a GET reads them one by one without the
lock.

**RemoteVision** puts that record between a caller of `RemoteInference.detect`
and the workers. Each worker keeps a YOLO handler with what it takes for active
(`active`), what its manager would restore (`wanted`), what the model really
detects (`names`) and whether the device is still `mps`. `CallHandler` is one
call: activation unless the tuple is the active one, prediction, and on an MPS
device a fallback that reloads the model and may fail at any of its three steps.
A worker also serves others, so a job of the caller meets a model that somebody
else has changed. The caller may give up; what still runs for a job that was
given up counts as somebody else's. Leases are lost when the scheduler says so
(`LeaseLost`), which here may be at any time.

**LocalRuntime** is one classic run: `prepare` on the startup screen's thread,
`run` with the voice thread and the camera loop, `close` from `run` and from
`main`, and Ctrl+C. Each operation on queue, event or lock is a step.
**LatestRequest** is its mailbox's promise: the request in force only changes to
a newer one.

**ClassNodes** is the two-machine form of the program and the second user of
LatestRequest. The Whisper node has one POST under way; a POST it has given up on
stays at the YOLO node, whose receiver thread serves one after the other and may
find it when the node has been started again. Put, evict and second put are three
steps of the receiver, so the camera loop's gets come between them. Transcripts
are matched by **TextMatching**, which is `Text_Manager.extract` over short texts
of letters, syllables and spaces, and a reference definition, `Mentioned`, that
says word by word what a text mentions. The dictionary is a constant. What `replace`,
`split` and `sort` leave, and in which order, is said by counting (`InOrder`,
`Keep`) rather than by folds, whose values for every input cannot be proved here.

**DesktopVideo** is the live part of the window. `gui` says what the Qt thread is
blocked in, `events` is its queue of signals; every slot is an action guarded by
`Handle`, every click an action between any two of them. Only signals that
concern what is modelled are queued; a status that merely appears in a label is
not. The camera thread takes the classes that wait, announces that the slot is
empty, and switches the detector in three steps, with clicks and signals in
between; that it has switched it announces in the step of the switch. Whether
loading, reading, switching or predicting fails is open. An instruction is the
whole slot: the classes in memory, the recorder's write, which may fail and leave
the slot there (`unsaved`), and only then the request to the camera thread.

**StorySession** is the story side. A change of the recorder's memory and the
rewriting of `events.json` are two steps with the file torn between them, and the
write may fail in either half. A `StoryWorker` reads the file whenever it likes.
A crop file that was saved before a later crop of the same frame failed stays on
disk. A worker that has reported forgets what it was asked and what it sent,
which nothing reads any more.

**MicrophoneManager** is `mic_whisper_manager.py`, with time counted in audio
blocks. A block has a number and is loud or not; a text is the stretch of blocks
it was made from, so order and completeness of speech can be stated. Every
operation on a queue, the stop event or the stream is a step; the two checks of
the stop event at the top of the loops of `_worker` and `collect_audio` are one.
The owner's steps follow `start` and `close`; its join of three seconds gives up
only while the worker transcribes, since its other waits last 0.2 seconds.

**SetupWizard** is `OdiaApp` with its screens. One record `screen` serves all
seven pages, since they share their controls: `test` and `second` are the
buttons of the page's device tests. A user's click and a test's result are
messages in `inbox`, handled one by one, and a handler is an action that follows
the method of its name. A button that is disabled cannot be clicked, but a click
that waits is still handled after its button was disabled: `hasty` says that this
may have happened. The two model menus are one choice.

## 3. What TLC checks

`expect: violation` runs hold one property each that a comment or docstring
promises and the code breaks; the others pass.

| run | shows |
|---|---|
| `scheduler` (3 jobs, 2 workers, 2 capabilities) | the invariants of the queue and of active sets; leases lost only for cause; oldest job first; JobLifecycle implemented |
| `departures` (2 processes, 1 stop or crash) | every step is Scheduler's; a job runs once plus once per irregular event; never in two live processes; it ends |
| `faults` (1 process, 2 errors, late ticks or restarts of the coordinator) | jobs end or are lost to a restart; the process registers again; records forgotten after a late 404 go |
| `unregister` (violation) | a job may stay leased to a worker that has unregistered |
| `remote_vision` (2 workers, one on MPS; 2 class tuples and an unsupported one; 2 tries) | what detect returns was found with its classes; an outcome seen is final |
| `job_view_result` (violation) | an answer may say succeeded without a result |
| `local_runtime` (3 requests, 2 interrupts) | devices released, microphone never closed under the voice thread, newest request applied, LatestRequest implemented, the run ends |
| `class_nodes` (4 names, texts of 3 symbols, 3 requests, 2 runs of the Whisper node) | what is sent is what the text mentions; LatestRequest implemented; classes answered with 204 take effect |
| `desktop_video` (2 instructions, 2 restarts) | buttons and labels fit, the newest instruction is detected, the recorder has the classes YOLO was asked for, closing ends |
| `story_session` (2 crops, 3 stories) | file, memory and gallery agree; only selected crops are sent and stay on disk; workers end with the window; the gallery comes back |
| `setup_wizard` (2 microphones, one of all else, 2 clicks waiting, 1 test at once) | what is launched is complete and as the session has it; choices are kept; results stay with device and screen; tests end |
| `microphone` (6 blocks, queues of 2 and 1, 2 starts) | speech in order and once; utterances cut where they end; nothing outlives close; workers end |

The type invariants are theorems (in `remote_vision` and in the wizard for the
fields that the proofs need), and are not among the runs' properties; the wizard's
whole `TypeOK` only documents the domains of the variables. The third invariant of
the scheduler, `UnfinishedJobsAreAccountedFor`, is a theorem, too. That abandoned
leases end is what `SubmittedJobsEnd` and `JobsEndOrAreLost` need on the way.

*Bounds.* Three jobs with two capabilities give a queue in which a matching job
stands behind one that does not match and two that compete; two workers give a
lease taken from one and a late call of the other. A lease of two ticks over a
TTL of one lets a worker die before and after its lease. One irregular event per
process pair and two per single process reach the hazards listed; all kinds at
once, and more of them, are covered by the proofs, not by TLC. Two instructions
show the older one give way, two restarts a signal of a run that is over; three
stories show the `finished` signal of one worker meet the next and the one after.
Two class tuples and two workers give a model that detects what the last caller
asked for, a handler that believes otherwise, and an answer from the worker that
lost the job; two tries an answer to each. The dictionary of the class nodes has
an English name inside another, a Korean name inside another, and one class with
names in both languages; three symbols are the shortest text with a name of two
words, or one between two letters. Three requests and two runs put a request of
the first run, one of the second and one in force side by side.
Two microphones suffice for a result that belongs to a device no longer
selected, one of the others for a device that vanishes; two waiting clicks are one
click too early. Six blocks hold two utterances that end by a pause, the
second of which finds the result queue full, one that ends by its length of four,
and a block lost by the queue of two inside one; two starts bring back a worker that outlived its
join. `MaxFaults`, `MaxRequests`, `MaxInterrupts`, `MaxStarts`, `MaxStories`,
`MaxBlocks`, `MaxInputs`, `MaxRuns` and `MaxTests` only limit how often something
happens, `MaxText` how long a transcript is. Symmetry (of the class tuples) is used
in `remote_vision` alone, which checks no liveness.

*Fairness.* The scheduler alone is checked for safety. A reap happens in calls
only; in the cluster the claims and heartbeats of a steady process make them, and
no client has to ask for its job (`ClientPolls` may happen at any time).
Cluster: threads of a process that is up run, requests that are listened for are
served or fail, and ticks go on; the coordinator also gets done with requests
that nobody listens for any more (`ServeUnheard`); a process may stop or crash
unless it is in `Steady`. No user ever has to submit. Runtime and desktop:
loading, reading a frame, predicting and closing return, and a thread that was asked to stop sees
its flag; nobody has to speak or click. Story: the Qt thread handles its signals
(strong fairness, since new crops interrupt it), and Codex answers or is given up
after its timeout of 120 seconds. Wizard: messages are handled, sounds and
preview windows end, a recording whose event is set returns. Microphone: the
worker and the owner inside a method go on, a transcription returns; no audio has
to arrive. Class nodes: both threads of the YOLO node run; the Whisper node need
not speak, send or wait. `remote_vision` checks safety only.

*Deadlock* is checked in the cluster, scheduler and remote detection runs. It is
switched off where the program ends: the classic run, the class nodes, the two
desktop modules after closing, the wizard after the launch, and the microphone
manager after its last start.

## 4. What TLAPS proves

Every invariant and every action property of the passing runs, and the four
refinements, are theorems. They hold for
every number of jobs, workers, processes, requests, instructions, crops, stories,
blocks, tests and faults, and for queues and thresholds of any size. They rest on
the assumptions that the modules make of their constants and that TLC evaluates for
the runs (`SchedulerAssumption`, `ClusterAssumption`, `JobViewAssumption`,
`RemoteVisionAssumption`, `LocalRuntimeAssumption`, `ClassNodesAssumption`,
`DesktopVideoAssumption`, `StoryAssumption`, `MicrophoneAssumption`,
`WizardAssumption`); some theorems about the cluster name what else they assume of
its faults and leases. Each proof has the same shape: an inductive invariant, checked by TLC
on the run of its module before it was proved, one lemma per action or group of
actions, and theorems that follow from it.

* **ClusterProofs, first part: Scheduler.** `IInv` = types, queue, active sets and
  attempts together. None of the three invariants is inductive alone: a reap that
  requeues jobs keeps the queue free of duplicates only if the queue held no leased
  job, and retries of an active set take jobs from their holder only if active jobs
  are leased to it. The proof splits each action into its effect on the active
  sets, the queue and the statuses; lemmas at its head say that a set's members
  can be appended in any order without duplicates. `SchedulerImplementsLifecycle`
  follows step by step, for all jobs at once. Two action properties follow as
  well. `LeasesAreLostForCause`: a reap takes a job only from the worker that holds
  it, because active jobs are leased to their worker, and every other action that
  changes the holder is the holder's own. `OldestFirst`: a reap only appends to
  the queue, and the queue has no duplicates, so the position a claim takes is
  that of the oldest match.
* **Second part: Cluster.** `ClusterIInv` adds what the threads can hold and what
  messages can be under way. From it every step of the cluster is a step of
  `Scheduler` or leaves its state alone (`ClusterImplementsScheduler`), so the
  scheduler's invariants, its lifecycle and its two action properties hold of the
  whole system whatever the network does. A restart of the coordinator is a step
  of the cluster but not of the scheduler: `ClusterIInv` survives it, so
  `ClusterLosesNoJob` and `ClusterActiveJobsAreHeld` hold with restarts, while
  `ClusterImplementsScheduler`, `ClusterKeepsLifecycle` and
  `ClusterWorkStaysInOrder` assume that there are none
  (`"restart" \notin FaultKinds`).
* **Third part: departures.** `NoJobRunsTwiceAtOnce` and `RetriesNeedFaults`, for
  any number of processes that stop or crash, whenever and with whatever requests
  under way. Both are false when requests are lost (section 5), so the theorems
  assume `OnlyDepartures` (`FaultKinds \subseteq {"stop", "crash"}`), as their run
  does. They also assume that a lease outlives the pause between two heartbeats,
  `LeaseSeconds > 1`: it counts ticks of one heartbeat interval, and the code's
  default is a lease of 300 seconds (`scheduler.py:98`) renewed every third of the
  TTL, ten seconds at most (`coordinator.py:121`). The invariant has three parts.
  `OrderIInv`: no two processes share an identifier, a thread has one request under
  way, a claim brings one job. `AllRegular`: what a process that is up believes is
  so: its record is there and fresh, and the jobs in its threads and messages are
  leased to it with time left. `PaidFor`: each departure pays for one execution of
  a job, be it the one that the process has begun or the one that its claim may yet
  begin, since a claim left in the network may still be served; one more is free
  while a process that is up has the job or it is over.
* **Fourth part: answers.** `NobodyWaitsInVain` is what the liveness of the cluster
  rests on, and it holds under every kind of fault. `AnswersIInv` has four parts:
  somebody listens for each reply and nobody for two messages (`ListensForOne`),
  what is listened for fits what its thread is doing (`HeardAreExpected`), a thread
  that does not go on without an answer has its request or the reply under way
  (`AskersAreHeard`), and a process that is gone waits for nothing. They need
  each other: a reply answers what its thread waits for only because no older one of
  that thread is left. The proof reduces each step to the threads that go
  on (`OnlyTheyAsk`): one of them, those of a process that goes, or, when the
  coordinator is started again, any whose connections break. TLC checked
  it with every kind of fault, for one process and for two, before it was proved.
* **RemoteVisionProofs.** `VisionIInv` follows an answer from the model to the
  caller. `HandlerKnowsItsModel` (what is active is wanted, and detected unless the
  model was spoilt) gives that every call was answered by the classes it asks for
  (`CallsAreAnsweredRight`); a result in the record, about to be assigned to it,
  or in a GET's hands is that of the holder's call, and no other completion can
  follow (`ResultsAreFinal`). Without the last one the property is not inductive:
  the caller returns on a copy that it read field by field. `OutcomesAreFinal`
  needs less: a method assigns the status once and only to a job that is not over
  (`OutcomesStay`), and a GET reads the status first.
* **LocalRuntimeProofs.** `RuntimeIInv` says what is known while `prepare` holds
  the lock (nothing else runs), how old the requests under way are (in force <
  taken < waiting < spoken) and what a `close` that was not interrupted has
  released at each step. It gives the types, `MicStaysOpen`, `DevicesAreReleased`
  and `RequestsImplementLatest`. `NewestRequestIsNotLost` is the safety half of
  `RequestTakesEffect`: the newest request is always in force or on its way, and
  the second `put_nowait` of `_put_latest_classes` finds room. `NobodyLeavesSilently`
  is that of `ShutdownEndsTheRun`: whoever ends has set the shared event before.
* **ClassNodesProofs.** `OrderIInv` keeps requests in the order in which they were
  sent on their whole way: in force < taken < in the queue < not yet put there. The
  one it cannot put in that order is the request that the receiver is answering,
  which may be in the queue, taken or in force already; all behind it are newer.
  `NodesImplementLatest` follows, for any dictionary. `AnsweredRequestsArrive` is
  the safety half of `AnsweredClassesTakeEffect`: what was answered has arrived at
  the queue or further, or something newer has, until the YOLO node ends.
  `SentIsWhatIsMentioned` is about `extract`, for texts of any length. A name is
  found just if it is mentioned (`FoundIsMentioned`): the letters of a stretch of a
  text are a stretch of its letters (`LettersOfPart`, `PartOfText`), which is all
  that Korean names need; for English ones, the spaces at the end of a stretch do
  not count, and a letter or digit with none before it begins a maximal run
  (`RunsAround`). A class of which a name is found is among `Found`, once, although
  longer names come first (`ClassesAreNamedOnce`, by the well-founded order in
  which names are tried), and sorting by place neither loses nor repeats a name,
  since ranks in a strict order are distinct (`InOrderLists`).
* **DesktopVideoProofs.** The properties speak of a window whose signals are all
  handled; the invariant must say what each label waits for until then. `MicIInv`
  and `CameraIInv`: a label or button that does not fit has a signal in the queue
  that corrects it and that none after it undoes (`LastWord`), for which `ended`
  must be followed by `finished`. `LabelIInv` says so of the two labels with
  classes. `RequestIInv`: from the slot over the camera thread to the detector
  instructions only grow, and while one is on its way the newest is taken, waits,
  or could not be written down. `ClosingWaitsForTheStopped` is the safety half of
  `CloseEnds`: what a blocked Qt thread waits for has been asked to stop, and no
  signal or click takes that back.
* **StorySessionProofs.** `StoryIInv` is the run's four invariants and what they
  need of two moments in between: while `events.json` is being written, the change
  under way leads to what is recorded; and while a worker runs it is the current
  one and the gallery is locked, so only crops and instructions are added, which
  take nothing from the selection that the worker was asked for.
  `StoriesGiveTheGalleryBack` is the safety half of `GalleryComesBack`: the gallery
  is locked only while a worker runs or its last signal waits.
* **MicrophoneProofs.** `SessionIInv`: a stop event that is set has no other thread
  to stop than the one being joined, and nothing fills the queues while they are
  cleared. `UtteranceIInv`: the counters of `collect_audio` are what they count, and
  the utterance was complete at no earlier block. `OrderIInv`: blocks and texts are
  in order wherever they are, what is held is newer than what was told, and a block
  missing from it was dropped by the full queue. Once a worker has outlived its
  join, two workers share the queues and nothing is claimed about order.
* **SetupWizardProofs.** `LaunchIInv`: the screen shown is one that the session has
  reached, and from the last page on the context is the session; the welcome page
  needs a part of its own (`WelcomeIInv`), since it alone has no Prev and no tabs to
  leave by. `LaunchIsComplete` and `ChoicesSurvive` hold however fast the user
  clicks. `TestIInv` is about a user who waits (`~hasty`): then one input waits at
  most, one test runs or has a result waiting, and a busy screen can only end its
  recording; `TestsStayWithTheirScreen` follows. `TestsGiveTheScreenBack` is the
  safety half of `TestsEnd`: a busy screen has a test, or the result of one, that
  ends it.

Only model-checked:

* everything about eventual progress: liveness under fairness and ENABLED are out
  of the prover's reach (`SubmittedJobsEnd`, `JobsEndOrAreLost`,
  `SteadyProcessesAreKnown`, `ForgottenWorkersGo`, `RequestTakesEffect`,
  `ShutdownEndsTheRun`, `AnsweredClassesTakeEffect`, `RequestIsDetected`,
  `CloseEnds`, `GalleryComesBack`, `WorkersEnd`, `TestsEnd`);
* the two disagreements with the code's documentation, which are counterexamples.

## 5. What the work has shown of the code

Two disagreements are recorded as findings with the run that shows each:
`unregister_worker` does not return all leased work; a GET may answer succeeded
without a result. Besides these:

* `close()` of the classic runtime sets `_closed` before it releases anything
  (`runtime.py:368`). Ctrl+C while `run`'s `close()` joins the voice thread leaves
  it there, `main`'s `close()` returns at once, and the camera is not released,
  although `main.py:102` promises it. `ReleasedAtExit` therefore excludes a Ctrl+C
  inside `close()` (`cut`).
* A restarted camera thread loads the detector with its default classes
  (`yolo_detection.py:85`) without a signal: the target label ("classes currently
  active", `runtime_window.py:504`) names the last instruction until the next one.
  `LabelsFit` therefore excludes the default classes.
* In the wizard two quick clicks can outrun the handlers. Done pressed twice
  before the first is handled starts a second recording whose stop event is
  forgotten when the first one's result arrives (`device_setup_screen.py:539`):
  its thread keeps the microphone. Test followed at once by Next leaves the screen
  while the test holds the device, since `finish_*` do not look at `_busy`. The
  properties say `~hasty` where they need it.
* The wizard's tests are optional (`tests/tui/test_app.py:320`), so "verified
  devices" on the summary, and the "verification-type wizard" of
  `docs/project_interface.md:84`, promise more than the code does. A device that
  vanished stays in the session when its tab is left without a choice.
* A microphone worker that outlives its join would be revived by a second start of
  the same manager: two workers would share the blocks, and an old text might
  arrive in the new session. Nothing in the repository restarts a manager, so this
  is no hazard of the program; the properties are stated for joins that succeed.
* An answer of the coordinator that breaks off (`IncompleteRead`, which is no
  `OSError`) is not caught by `client.py:113` or by its callers: the claim or
  heartbeat thread ends, `run` sees within half a second that not all of its threads
  are alive, and the process stops. In Cluster this is the action `Stop`, the reply
  left in the network; it has no outcome of its own among those of a request.
* A late 404 for an old worker id makes a process forget its newer registration
  (`worker.py:136`, `185`); heartbeats stop until the next claim, and a job may
  run a second time. `RetriesNeedFaults` is therefore checked with stops and
  crashes, not with connection errors. The record left behind goes with the TTL
  (`ForgottenWorkersGo`), and the process registers again
  (`SteadyProcessesAreKnown`).
* When a fallback to the CPU reloads the model and then fails to set its classes,
  the handler goes on taking the old tuple for active (`model_handlers.py:73`):
  the next job with the same tuple is answered by the stock classes of the weights,
  as a success. `DetectionsFitTheRequest` allows for it (`spoilt`); any other tuple
  in between repairs the model.
* A refused connection, or five seconds without an answer, ends the Whisper node:
  nothing catches `URLError` on the way to its `finally` (`whisper_node.py:57`).
* Korean names are found inside other words, and in the text without its spaces:
  among the names of the dictionary 양 (sheep) is found in 고양이 (cat), 말 (horse)
  in 얼룩말 (zebra), 소 (cow) in 소파 (sofa) and 소화전 (hydrant), 곰 (bear) in
  곰인형 (teddy bear). The search takes the longest name first but does not cross
  out what it has found, so both classes are sent.
* An empty list of classes passes the checks of `comm.py`; the camera loop would
  end on it. No code of the repository sends one, so it is not modelled.
* A claim that times out at the worker leaves a job leased that the next heartbeat
  drops from the active set, so a worker may hold more leases than it has slots
  once a request was lost.
* The `finished` signal of a story worker deletes whichever worker is the current
  one; a click between its result and that signal makes this a running one, and
  Qt ends the program (`aborted` in StorySession).
* After a failed write a crop that the user has excluded may still be sent, since
  the file still selects it; `OnlySelectedCropsAreSent` says "while every write
  went well".
* `docs/session-story-prototype.md` names `snapshots/*.png`; the code writes
  `crops/`.

## 6. Not modelled, and the plan

Left out for good:

* drawing, layout, texts, installation scripts, archived code and prototypes, the
  model library's internals; argument parsing and constants of the entry points;
* simulated video: a timer of the Qt thread whose state no other part reads;
* the recognition benchmark (edit distance, character error rate), which runs by
  hand and which nothing depends on;
* encodings of frames and audio, and the validation of requests: a request that is
  refused changes nothing;
* the echo and Whisper handlers, which keep nothing from call to call: they return
  or raise, as every handler does in Cluster.

Possible next steps, in this order:

1. DesktopVideo and StorySession composed through `record_instruction`, whose
   slot is modelled on the side of DesktopVideo; LocalRuntime's `mic` shown to be
   an abstraction of MicrophoneManager.
2. Proofs: the whole `TypeOK` of SetupWizard, for which the clicks under way must be
   counted against `MaxTests`.
3. The level meter's and the simulated microphone's timers in SetupWizard.
