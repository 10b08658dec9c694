------------------------- MODULE StorySessionProofs -------------------------
(***************************************************************************)
(* Proofs about StorySession, for any crops and any number of stories: the *)
(* gallery, the recorder and events.json agree, a story worker sends what  *)
(* was selected and nothing else, none is left behind, and what was locked *)
(* for it is given back.                                                   *)
(***************************************************************************)
EXTENDS StorySession, SequenceTheorems, TLAPS

(* While the window is there, a worker that runs is the current one, and    *)
(* the gallery is locked for it.                                            *)
RunningIsCurrent ==
    gui # "aborted" => \A w \in Worker : Running(w) => w = current /\ locked

(* A write under way that goes well makes the gallery show what is recorded.*)
GalleryWillFollow ==
    gui = "writing" /\ saved = "always" => recorded = GalleryAfter(doing)

(* Only new crops and instructions are written while a worker runs ...      *)
WorkersSeeOnlyAdditions ==
    gui = "writing" /\ (\E w \in Worker : Running(w)) => doing.what \in {"add", "instruction"}

(* ... and what events.json selects until then stays selected.              *)
AdditionsKeepSelections ==
    gui = "writing" /\ saved = "always" /\ doing.what \in {"add", "instruction"}
        => Selected(file) \subseteq Selected(recorded)

(* What was selected at the click is selected in the file that the worker   *)
(* is about to read.                                                        *)
AskedIsInTheFile ==
    saved = "always" /\ gui # "aborted" =>
        \A w \in Worker : worker[w] = "loading" => asked[w] \subseteq Selected(file)

(* The inductive invariant: the four invariants that the run checks, and    *)
(* what they need to know of a write under way and of the locked gallery.   *)
StoryIInv ==
    /\ TypeOK
    /\ FileAndGalleryFollow /\ GalleryWillFollow
    /\ RunningIsCurrent /\ WorkersEndWithTheWindow
    /\ WorkersSeeOnlyAdditions /\ AdditionsKeepSelections
    /\ AskedIsInTheFile /\ OnlySelectedCropsAreSent /\ SentCropsStayOnDisk
-----------------------------------------------------------------------------
(* Types *)

LEMMA InitTypes == Init => TypeOK
<1> SUFFICES ASSUME Init PROVE TypeOK
  OBVIOUS
<1>1. recorded \in [Crop -> Mark] /\ gallery = recorded /\ file = recorded
  BY DEF Init, Mark
<1>2. asked \in [Worker -> SUBSET Crop] /\ sent = asked
  BY DEF Init
<1>3. doing \in Change
  BY DEF Init, Nothing, Change
<1>4. locked \in BOOLEAN /\ button \in BOOLEAN /\ torn \in BOOLEAN
  BY DEF Init
<1>5. QED
  BY <1>1, <1>2, <1>3, <1>4 DEF Init, TypeOK

LEMMA RecordTypes ==
    ASSUME TypeOK, Record PROVE TypeOK'
<1>1. ASSUME NEW S \in SUBSET Crop, RecordDetection(S) PROVE TypeOK'
  BY <1>1 DEF RecordDetection, Rewrite, TypeOK, Change, Mark, stories
<1>2. ASSUME NEW S \in SUBSET Crop, RecordDetectionFails(S) PROVE TypeOK'
  BY <1>2 DEF RecordDetectionFails, TypeOK, stories
<1>3. ASSUME RecordInstruction PROVE TypeOK'
  BY <1>3 DEF RecordInstruction, Rewrite, TypeOK, Change, stories
<1>4. QED
  BY <1>1, <1>2, <1>3 DEF Record

LEMMA ClickTypes ==
    ASSUME TypeOK, Click PROVE TypeOK'
<1>1. ASSUME NEW c \in Crop, SelectCrop(c) PROVE TypeOK'
  <2> DEFINE mark == IF gallery[c] = "selected" THEN "excluded" ELSE "selected"
  <2>1. mark \in Mark
    BY DEF Mark
  <2>2. gallery' = [gallery EXCEPT ![c] = mark]
    BY <1>1 DEF SelectCrop
  <2>3. CASE recorded[c] = "absent"
    BY <1>1, <2>1, <2>2, <2>3 DEF SelectCrop, TypeOK, stories
  <2>4. CASE recorded[c] # "absent"
    <3>1. recorded' = [recorded EXCEPT ![c] = mark]
          /\ Rewrite([what |-> "select", crops |-> {c}])
      BY <1>1, <2>4 DEF SelectCrop
    <3>2. [what |-> "select", crops |-> {c}] \in Change
      BY DEF Change
    <3>3. QED
      BY <1>1, <2>1, <2>2, <3>1, <3>2 DEF SelectCrop, Rewrite, TypeOK, stories
  <2>5. QED
    BY <2>3, <2>4
<1>2. ASSUME NEW c \in Crop, RemoveCrop(c) PROVE TypeOK'
  BY <1>2 DEF RemoveCrop, Rewrite, TypeOK, Change, Mark, stories
<1>3. ASSUME NEW w \in Worker, GenerateStory(w) PROVE TypeOK'
  BY <1>3 DEF GenerateStory, StartWorker, TypeOK, Selected, recorder
<1>4. ASSUME CloseWindow PROVE TypeOK'
  BY <1>4 DEF CloseWindow, TypeOK, recorder, stories
<1>5. QED
  BY <1>1, <1>2, <1>3, <1>4 DEF Click

LEMMA EventLoopTypes ==
    ASSUME TypeOK, EventLoop PROVE TypeOK'
<1>1. CASE Written
  <2>1. GalleryAfter(doing) \in [Crop -> Mark]
    BY DEF TypeOK, GalleryAfter, Mark
  <2>2. QED
    BY <1>1, <2>1 DEF Written, TypeOK, Nothing, Change, stories
<1>2. CASE WriteFails
  BY <1>2 DEF WriteFails, TypeOK, Nothing, Change, stories
<1>3. CASE ShowStory
  BY <1>3 DEF ShowStory, Handle, TypeOK, recorder, stories
<1>4. CASE StoryWorkerFinished
  <2>1. gui' \in {"aborted", gui} /\ current' = NoWorker /\ locked' \in BOOLEAN
    BY <1>4 DEF StoryWorkerFinished
  <2>2. events' = Tail(events) /\ events # <<>>
    BY <1>4 DEF StoryWorkerFinished, Handle
  <2>3. QED
    BY <1>4, <2>1, <2>2 DEF StoryWorkerFinished, TypeOK, recorder
<1>5. CASE WindowClosed
  BY <1>5 DEF WindowClosed, TypeOK, recorder, stories
<1>6. QED
  BY <1>1, <1>2, <1>3, <1>4, <1>5 DEF EventLoop

LEMMA WorkerTypes ==
    ASSUME TypeOK, NEW w \in Worker, WorkerThread(w) PROVE TypeOK'
<1>1. ASSUME NEW kind \in {"completed", "failed"}, Report(w, kind) PROVE TypeOK'
  BY <1>1 DEF Report, Emit, WorkerKeeps, TypeOK, recorder
<1>2. CASE LoadInputs(w)
  BY <1>2 DEF LoadInputs, WorkerKeeps, TypeOK, recorder, Selected
<1>3. CASE WorkerEnds(w)
  BY <1>3 DEF WorkerEnds, Emit, WorkerKeeps, TypeOK, recorder
<1>4. QED
  BY <1>1, <1>2, <1>3 DEF WorkerThread, LoadFails, Generated

(* The step changes nothing that the invariant is about.                    *)
LEMMA QuietSteps ==
    ASSUME StoryIInv, TypeOK',
           UNCHANGED <<gui, doing, recorded, gallery, locked, disk, file, torn, saved,
                       current, worker, asked, sent>>
    PROVE  StoryIInv'
BY DEF StoryIInv, FileAndGalleryFollow, GalleryWillFollow, RunningIsCurrent, Running,
       WorkersEndWithTheWindow, WorkersSeeOnlyAdditions, AdditionsKeepSelections,
       AskedIsInTheFile, OnlySelectedCropsAreSent, SentCropsStayOnDisk, Selected,
       GalleryAfter, Open

-----------------------------------------------------------------------------
(* The recorder and its writes                                              *)

LEMMA RecordKeeps ==
    ASSUME StoryIInv, Record PROVE StoryIInv'
<1> USE DEF StoryIInv
<1>0. TypeOK'
  BY RecordTypes
<1>1. ASSUME NEW S \in SUBSET Crop, RecordDetection(S) PROVE StoryIInv'
  <2> USE DEF RecordDetection, Rewrite, stories
  <2>1. FileAndGalleryFollow' /\ GalleryWillFollow'
    BY <1>1 DEF FileAndGalleryFollow, GalleryWillFollow, GalleryAfter, Open, TypeOK
  <2>2. RunningIsCurrent' /\ WorkersEndWithTheWindow'
    BY <1>1 DEF RunningIsCurrent, WorkersEndWithTheWindow, Running
  <2>3. WorkersSeeOnlyAdditions'
    BY <1>1 DEF WorkersSeeOnlyAdditions
  <2>4. Selected(recorded) \subseteq Selected(recorded')
    BY <1>1 DEF Selected
  <2>5. AdditionsKeepSelections'
    BY <1>1, <2>4 DEF AdditionsKeepSelections, FileAndGalleryFollow, Open, Selected
  <2>6. AskedIsInTheFile' /\ OnlySelectedCropsAreSent'
    BY <1>1, <2>4 DEF AskedIsInTheFile, OnlySelectedCropsAreSent, Selected
  <2>7. SentCropsStayOnDisk'
    BY <1>1 DEF SentCropsStayOnDisk
  <2>8. QED
    BY <1>0, <2>1, <2>2, <2>3, <2>5, <2>6, <2>7
<1>2. ASSUME NEW S \in SUBSET Crop, RecordDetectionFails(S) PROVE StoryIInv'
  <2> USE DEF RecordDetectionFails, stories
  <2>1. SentCropsStayOnDisk'
    BY <1>2 DEF SentCropsStayOnDisk
  <2>2. QED
    BY <1>0, <1>2, <2>1
       DEF FileAndGalleryFollow, GalleryWillFollow, GalleryAfter, Open, RunningIsCurrent,
           WorkersEndWithTheWindow, Running, WorkersSeeOnlyAdditions,
           AdditionsKeepSelections, AskedIsInTheFile, OnlySelectedCropsAreSent, Selected
<1>3. ASSUME RecordInstruction PROVE StoryIInv'
  <2> USE DEF RecordInstruction, Rewrite, stories
  <2>1. FileAndGalleryFollow' /\ GalleryWillFollow'
    BY <1>3 DEF FileAndGalleryFollow, GalleryWillFollow, GalleryAfter, Open, TypeOK
  <2>2. RunningIsCurrent' /\ WorkersEndWithTheWindow' /\ WorkersSeeOnlyAdditions'
    BY <1>3 DEF RunningIsCurrent, WorkersEndWithTheWindow, Running, WorkersSeeOnlyAdditions
  <2>3. AdditionsKeepSelections'
    BY <1>3 DEF AdditionsKeepSelections, FileAndGalleryFollow, Open, Selected
  <2>4. AskedIsInTheFile' /\ OnlySelectedCropsAreSent' /\ SentCropsStayOnDisk'
    BY <1>3 DEF AskedIsInTheFile, OnlySelectedCropsAreSent, SentCropsStayOnDisk, Selected
  <2>5. QED
    BY <1>0, <2>1, <2>2, <2>3, <2>4
<1>4. QED
  BY <1>1, <1>2, <1>3 DEF Record

(* Whoever edits the gallery finds it unlocked, so no worker runs.          *)
LEMMA NobodyRuns ==
    ASSUME StoryIInv, gui # "aborted", ~locked
    PROVE  \A w \in Worker : worker[w] \notin {"loading", "generating", "leaving"}
BY DEF StoryIInv, RunningIsCurrent, Running

LEMMA EditKeeps ==
    ASSUME StoryIInv, TypeOK', gui = "idle", ~locked, UNCHANGED <<locked, stories, file, saved>>,
           \/ /\ gui' = "writing"
              /\ doing'.what \notin {"add", "instruction"}
              /\ saved = "always" => recorded' = GalleryAfter(doing)'
           \/ saved # "always" /\ UNCHANGED <<gui, recorded, torn>>
    PROVE  StoryIInv'
<1> USE DEF StoryIInv
<1>1. \A w \in Worker : worker'[w] \notin {"loading", "generating", "leaving"}
  BY NobodyRuns DEF stories
<1>2. RunningIsCurrent' /\ WorkersSeeOnlyAdditions' /\ WorkersEndWithTheWindow'
  BY <1>1 DEF RunningIsCurrent, WorkersSeeOnlyAdditions, WorkersEndWithTheWindow, Running
<1>3. AskedIsInTheFile' /\ OnlySelectedCropsAreSent' /\ SentCropsStayOnDisk'
  BY <1>1 DEF AskedIsInTheFile, OnlySelectedCropsAreSent, SentCropsStayOnDisk
<1>4. FileAndGalleryFollow' /\ GalleryWillFollow' /\ AdditionsKeepSelections'
  BY DEF FileAndGalleryFollow, GalleryWillFollow, AdditionsKeepSelections, Open
<1>5. QED
  BY <1>2, <1>3, <1>4

LEMMA ClickKeeps ==
    ASSUME StoryIInv, Click PROVE StoryIInv'
<1> USE DEF StoryIInv
<1>0. TypeOK'
  BY ClickTypes
<1>1. ASSUME NEW c \in Crop, SelectCrop(c) PROVE StoryIInv'
  <2>1. CASE recorded[c] = "absent"
    <3>1. saved # "always"
      BY <1>1, <2>1 DEF SelectCrop, FileAndGalleryFollow, Open
    <3>2. QED
      BY <1>0, <1>1, <2>1, <3>1, EditKeeps DEF SelectCrop
  <2>2. CASE recorded[c] # "absent"
    <3>1. saved = "always" => recorded' = gallery'
      BY <1>1, <2>2 DEF SelectCrop, FileAndGalleryFollow, Open
    <3>2. Rewrite([what |-> "select", crops |-> {c}])
      BY <1>1, <2>2 DEF SelectCrop
    <3>3. doing' = [what |-> "select", crops |-> {c}] /\ gui' = "writing"
          /\ UNCHANGED <<file, saved>>
      BY <3>2 DEF Rewrite
    <3>4. GalleryAfter(doing)' = gallery'
      BY <1>0, <3>3 DEF GalleryAfter, TypeOK
    <3>5. QED
      BY <1>0, <1>1, <3>1, <3>3, <3>4, EditKeeps DEF SelectCrop
  <2>3. QED
    BY <2>1, <2>2
<1>2. ASSUME NEW c \in Crop, RemoveCrop(c) PROVE StoryIInv'
  <2>1. doing' = [what |-> "remove", crops |-> {c}] /\ gui = "idle" /\ gui' = "writing"
        /\ UNCHANGED <<file, saved, gallery>>
    BY <1>2 DEF RemoveCrop, Rewrite
  <2>2. saved = "always" => recorded = gallery
    BY <2>1 DEF FileAndGalleryFollow, Open
  <2>3. saved = "always" => recorded' = GalleryAfter(doing)'
    BY <1>2, <2>1, <2>2 DEF RemoveCrop, GalleryAfter, TypeOK
  <2>4. QED
    BY <1>0, <1>2, <2>1, <2>3, EditKeeps DEF RemoveCrop
<1>3. ASSUME NEW w \in Worker, GenerateStory(w) PROVE StoryIInv'
  <2> USE DEF GenerateStory, StartWorker, recorder
  <2>1. \A v \in Worker : ~Running(v)
    BY <1>3 DEF RunningIsCurrent
  <2>2. \A v \in Worker : Running(v)' => v = w
    BY <1>3, <2>1 DEF Running, TypeOK
  <2>3. \A v \in Worker : worker'[v] # "generating"
    BY <1>3, <2>1 DEF Running, TypeOK
  <2>4. RunningIsCurrent' /\ WorkersEndWithTheWindow' /\ WorkersSeeOnlyAdditions'
    BY <1>3, <2>2 DEF RunningIsCurrent, WorkersEndWithTheWindow, WorkersSeeOnlyAdditions
  <2>5. AskedIsInTheFile'
    BY <1>3, <2>1
       DEF AskedIsInTheFile, FileAndGalleryFollow, Open, Running, Selected, TypeOK
  <2>6. OnlySelectedCropsAreSent' /\ SentCropsStayOnDisk'
    BY <2>3 DEF OnlySelectedCropsAreSent, SentCropsStayOnDisk
  <2>7. FileAndGalleryFollow' /\ GalleryWillFollow' /\ AdditionsKeepSelections'
    BY <1>3 DEF FileAndGalleryFollow, GalleryWillFollow, AdditionsKeepSelections, Open
  <2>8. QED
    BY <1>0, <2>4, <2>5, <2>6, <2>7
<1>4. ASSUME CloseWindow PROVE StoryIInv'
  BY <1>0, <1>4
     DEF CloseWindow, recorder, stories, FileAndGalleryFollow, GalleryWillFollow, Open,
         RunningIsCurrent, WorkersEndWithTheWindow, Running, WorkersSeeOnlyAdditions,
         AdditionsKeepSelections, AskedIsInTheFile, OnlySelectedCropsAreSent, Selected,
         SentCropsStayOnDisk
<1>5. QED
  BY <1>1, <1>2, <1>3, <1>4 DEF Click

-----------------------------------------------------------------------------
(* The event loop and the workers                                           *)

LEMMA EventLoopKeeps ==
    ASSUME StoryIInv, EventLoop PROVE StoryIInv'
<1> USE DEF StoryIInv
<1>0. TypeOK'
  BY EventLoopTypes
<1>1. CASE Written
  <2> USE <1>1 DEF Written, stories
  <2>1. FileAndGalleryFollow'
    BY DEF FileAndGalleryFollow, GalleryWillFollow, Open, TypeOK
  <2>2. GalleryWillFollow' /\ AdditionsKeepSelections' /\ WorkersSeeOnlyAdditions'
    BY DEF GalleryWillFollow, AdditionsKeepSelections, WorkersSeeOnlyAdditions
  <2>3. RunningIsCurrent' /\ WorkersEndWithTheWindow'
    BY DEF RunningIsCurrent, WorkersEndWithTheWindow, Running
  <2>4. AskedIsInTheFile'
    BY DEF AskedIsInTheFile, AdditionsKeepSelections, WorkersSeeOnlyAdditions, Running,
           Selected
  <2>5. OnlySelectedCropsAreSent' /\ SentCropsStayOnDisk'
    BY DEF OnlySelectedCropsAreSent, SentCropsStayOnDisk, Selected
  <2>6. QED
    BY <1>0, <2>1, <2>2, <2>3, <2>4, <2>5
<1>2. CASE WriteFails
  <2> USE <1>2 DEF WriteFails, stories
  <2>1. FileAndGalleryFollow' /\ GalleryWillFollow' /\ AdditionsKeepSelections'
        /\ WorkersSeeOnlyAdditions' /\ AskedIsInTheFile' /\ OnlySelectedCropsAreSent'
    BY DEF FileAndGalleryFollow, GalleryWillFollow, AdditionsKeepSelections,
           WorkersSeeOnlyAdditions, AskedIsInTheFile, OnlySelectedCropsAreSent
  <2>2. RunningIsCurrent' /\ WorkersEndWithTheWindow' /\ SentCropsStayOnDisk'
    BY DEF RunningIsCurrent, WorkersEndWithTheWindow, Running, SentCropsStayOnDisk
  <2>3. QED
    BY <1>0, <2>1, <2>2
<1>3. CASE ShowStory
  BY <1>0, <1>3, QuietSteps DEF ShowStory, recorder, stories
<1>4. CASE StoryWorkerFinished
  <2> USE <1>4 DEF StoryWorkerFinished, Handle, recorder
  <2>1. gui = "idle"
    OBVIOUS
  <2>2. FileAndGalleryFollow' /\ GalleryWillFollow' /\ AdditionsKeepSelections'
        /\ WorkersSeeOnlyAdditions'
    BY <2>1 DEF FileAndGalleryFollow, GalleryWillFollow, AdditionsKeepSelections,
                WorkersSeeOnlyAdditions, Open
  <2>3. RunningIsCurrent'
    BY <2>1 DEF RunningIsCurrent, Running
  <2>4. WorkersEndWithTheWindow'
    BY <2>1 DEF WorkersEndWithTheWindow, Running
  <2>5. AskedIsInTheFile' /\ OnlySelectedCropsAreSent' /\ SentCropsStayOnDisk'
    BY <2>1 DEF AskedIsInTheFile, OnlySelectedCropsAreSent, SentCropsStayOnDisk, Selected
  <2>6. QED
    BY <1>0, <2>2, <2>3, <2>4, <2>5
<1>5. CASE WindowClosed
  <2> USE <1>5 DEF WindowClosed, recorder, stories
  <2>1. \A w \in Worker : ~Running(w)
    BY DEF RunningIsCurrent
  <2>2. RunningIsCurrent' /\ WorkersEndWithTheWindow' /\ WorkersSeeOnlyAdditions'
    BY <2>1 DEF RunningIsCurrent, WorkersEndWithTheWindow, WorkersSeeOnlyAdditions, Running
  <2>3. FileAndGalleryFollow' /\ GalleryWillFollow' /\ AdditionsKeepSelections'
    BY DEF FileAndGalleryFollow, GalleryWillFollow, AdditionsKeepSelections, Open
  <2>4. AskedIsInTheFile' /\ OnlySelectedCropsAreSent' /\ SentCropsStayOnDisk'
    BY DEF AskedIsInTheFile, OnlySelectedCropsAreSent, SentCropsStayOnDisk, Selected
  <2>5. QED
    BY <1>0, <2>2, <2>3, <2>4
<1>6. QED
  BY <1>1, <1>2, <1>3, <1>4, <1>5 DEF EventLoop

LEMMA WorkerKeepsInvariant ==
    ASSUME StoryIInv, NEW w \in Worker, WorkerThread(w) PROVE StoryIInv'
<1> USE DEF StoryIInv
<1>0. TypeOK' /\ gui \notin {"closed", "aborted"}
  BY WorkerTypes DEF WorkerThread
<1>1. UNCHANGED <<gui, doing, recorded, file, torn, saved, gallery, disk, locked, current>>
  BY DEF WorkerThread, LoadInputs, LoadFails, Generated, WorkerEnds, Report, WorkerKeeps,
         recorder
<1>2. \A v \in Worker : /\ v # w => /\ worker'[v] = worker[v] /\ asked'[v] = asked[v]
                                    /\ sent'[v] = sent[v]
                        /\ Running(v)' => Running(v)
  BY DEF WorkerThread, LoadInputs, LoadFails, Generated, WorkerEnds, Report, WorkerKeeps,
         Running, TypeOK
<1>3. FileAndGalleryFollow' /\ GalleryWillFollow' /\ AdditionsKeepSelections'
  BY <1>1 DEF FileAndGalleryFollow, GalleryWillFollow, GalleryAfter,
              AdditionsKeepSelections, Open, Selected
<1>4. RunningIsCurrent' /\ WorkersEndWithTheWindow' /\ WorkersSeeOnlyAdditions'
  BY <1>1, <1>2 DEF RunningIsCurrent, WorkersEndWithTheWindow, WorkersSeeOnlyAdditions
<1>5. AskedIsInTheFile' /\ OnlySelectedCropsAreSent' /\ SentCropsStayOnDisk'
  <2>1. CASE LoadInputs(w)
    <3>1. /\ worker[w] = "loading" /\ worker'[w] = "generating"
          /\ sent'[w] = Selected(file) /\ asked'[w] = asked[w]
          /\ Selected(file) \subseteq disk
      BY <2>1 DEF LoadInputs, Readable, TypeOK
    <3>2. Running(w)
      BY <3>1 DEF Running
    <3>3. saved = "always" => Selected(file) \subseteq Selected(recorded)
      BY <1>0, <3>2 DEF FileAndGalleryFollow, AdditionsKeepSelections,
                        WorkersSeeOnlyAdditions, Open, TypeOK
    <3>4. AskedIsInTheFile'
      BY <1>1, <1>2, <3>1 DEF AskedIsInTheFile, Selected
    <3>5. OnlySelectedCropsAreSent'
      BY <1>0, <1>1, <1>2, <3>1, <3>3
         DEF OnlySelectedCropsAreSent, AskedIsInTheFile, Selected
    <3>6. SentCropsStayOnDisk'
      BY <1>1, <1>2, <3>1 DEF SentCropsStayOnDisk
    <3>7. QED
      BY <3>4, <3>5, <3>6
  <2>2. CASE ~LoadInputs(w)
    <3>1. worker'[w] \in {"leaving", "off"}
      BY <2>2 DEF WorkerThread, LoadFails, Generated, WorkerEnds, Report, TypeOK
    <3>2. QED
      BY <1>1, <1>2, <3>1
         DEF AskedIsInTheFile, OnlySelectedCropsAreSent, SentCropsStayOnDisk, Selected
  <2>3. QED
    BY <2>1, <2>2
<1>6. QED
  BY <1>0, <1>3, <1>4, <1>5

-----------------------------------------------------------------------------
(* Theorems *)

LEMMA InitStoryIInv == Init => StoryIInv
<1> SUFFICES ASSUME Init PROVE StoryIInv
  OBVIOUS
<1>1. TypeOK
  BY InitTypes
<1>2. \A w \in Worker : worker[w] = "new"
  BY DEF Init
<1>3. FileAndGalleryFollow /\ gui = "idle"
  BY DEF Init, FileAndGalleryFollow
<1>4. QED
  BY <1>1, <1>2, <1>3
     DEF StoryIInv, GalleryWillFollow, RunningIsCurrent, Running, WorkersEndWithTheWindow,
         WorkersSeeOnlyAdditions, AdditionsKeepSelections, AskedIsInTheFile,
         OnlySelectedCropsAreSent, SentCropsStayOnDisk

LEMMA NextStoryIInv == StoryIInv /\ [Next]_vars => StoryIInv'
<1> SUFFICES ASSUME StoryIInv, [Next]_vars PROVE StoryIInv'
  OBVIOUS
<1>1. CASE UNCHANGED vars
  BY <1>1, QuietSteps DEF vars, recorder, stories, StoryIInv, TypeOK
<1>2. QED
  BY <1>1, RecordKeeps, ClickKeeps, EventLoopKeeps, WorkerKeepsInvariant DEF Next

THEOREM StoryInvariant == Spec => []StoryIInv
BY InitStoryIInv, NextStoryIInv, PTL DEF Spec

(* Recorder, gallery, events.json and the workers keep their types, for any *)
(* crops and any number of stories.                                         *)
THEOREM StoryTypes == Spec => []TypeOK
<1>1. StoryIInv => TypeOK
  BY DEF StoryIInv
<1>2. QED
  BY <1>1, StoryInvariant, PTL

(* However crops, edits, failed writes and the signals of the workers       *)
(* interleave, what is on the screen and in events.json is what the         *)
(* recorder holds, as far as the writes have gone well                      *)
(* (SessionRecorder._write_events, RuntimeWindow._add_crop).                *)
THEOREM RecorderIsShownAndSaved == Spec => []FileAndGalleryFollow
<1>1. StoryIInv => FileAndGalleryFollow
  BY DEF StoryIInv
<1>2. QED
  BY <1>1, StoryInvariant, PTL

(* A story is told of the crops that were selected when it was asked for    *)
(* and of none that is deselected (StoryWorker.run, _load_story_inputs).    *)
THEOREM StoriesUseTheSelection == Spec => []OnlySelectedCropsAreSent
<1>1. StoryIInv => OnlySelectedCropsAreSent
  BY DEF StoryIInv
<1>2. QED
  BY <1>1, StoryInvariant, PTL

(* The files of a story's crops are there until Codex has answered, also    *)
(* when writes of events.json have failed (remove_crop, which the locked    *)
(* gallery keeps from being called).                                        *)
THEOREM StoriesKeepTheirFiles == Spec => []SentCropsStayOnDisk
<1>1. StoryIInv => SentCropsStayOnDisk
  BY DEF StoryIInv
<1>2. QED
  BY <1>1, StoryInvariant, PTL

(* One story at a time, and none goes on behind a closed window             *)
(* (RuntimeWindow._generate_story, closeEvent).                             *)
THEOREM OneStoryAtATime == Spec => []WorkersEndWithTheWindow
<1>1. StoryIInv => WorkersEndWithTheWindow
  BY DEF StoryIInv
<1>2. QED
  BY <1>1, StoryInvariant, PTL

-----------------------------------------------------------------------------
(* What a story has locked is given back.                                   *)

Queued(kinds) == \E i \in DOMAIN events : events[i].kind \in kinds

(* The gallery is locked while a worker runs or its last signal waits, and  *)
(* the button disabled while a worker has not reported or its report waits. *)
GivenBack ==
    /\ locked => (\E w \in Worker : Running(w)) \/ Queued({"finished"})
    /\ ~button => (\E w \in Worker : worker[w] \in {"loading", "generating"})
                     \/ Queued({"completed", "failed"})

(* What a signal at the end of the queue changes.                           *)
LEMMA EmittedIsQueued ==
    ASSUME TypeOK, NEW w \in Worker, NEW kind, Emit(w, kind), NEW K
    PROVE  Queued(K)' <=> Queued(K) \/ kind \in K
<1> DEFINE e == [kind |-> kind, worker |-> w]
<1>1. events' = Append(events, e) /\ e.kind = kind
  BY DEF Emit
<1>2. /\ Len(events) \in Nat
      /\ DOMAIN events = 1..Len(events) /\ DOMAIN events' = 1..(Len(events) + 1)
      /\ \A i \in DOMAIN events : events'[i] = events[i]
      /\ events'[Len(events) + 1] = e
  BY <1>1 DEF TypeOK
<1> HIDE DEF e
<1>3. QED
  BY <1>1, <1>2 DEF Queued

(* Handling a signal takes no other out of the queue.                       *)
LEMMA HandledIsFirst ==
    ASSUME TypeOK, NEW kinds, Handle(kinds), NEW K, kinds \cap K = {}, Queued(K)
    PROVE  Queued(K)'
<1>1. PICK i \in DOMAIN events : events[i].kind \in K
  BY DEF Queued
<1>2. events # <<>> /\ events' = Tail(events) /\ events[1].kind \in kinds
  BY DEF Handle
<1>3. i # 1
  BY <1>1, <1>2
<1>4. i - 1 \in DOMAIN events' /\ events'[i - 1] = events[i]
  BY <1>2, <1>3 DEF TypeOK
<1>5. QED
  BY <1>1, <1>4 DEF Queued

LEMMA GivenBackStays ==
    ASSUME TypeOK, GivenBack, [Next]_vars
    PROVE  GivenBack'
<1>1. worker \in [Worker -> {"new", "loading", "generating", "leaving", "off"}]
  BY DEF TypeOK
<1>2. CASE UNCHANGED <<locked, button, worker, events>>
  BY <1>2 DEF GivenBack, Queued, Running
<1>3. ASSUME NEW w \in Worker, GenerateStory(w) PROVE GivenBack'
  <2>1. worker'[w] = "loading"
    BY <1>1, <1>3 DEF GenerateStory, StartWorker
  <2>2. QED
    BY <2>1 DEF GivenBack, Running
<1>4. CASE ShowStory
  <2>1. /\ button' = TRUE /\ locked' = locked /\ worker' = worker
        /\ Handle({"completed", "failed"})
    BY <1>4 DEF ShowStory, stories
  <2>2. Queued({"finished"}) => Queued({"finished"})'
    BY <2>1, HandledIsFirst
  <2>3. QED
    BY <2>1, <2>2 DEF GivenBack, Running
<1>5. CASE StoryWorkerFinished
  <2>1. locked' = FALSE /\ button' = button /\ worker' = worker /\ Handle({"finished"})
    BY <1>5 DEF StoryWorkerFinished
  <2>2. Queued({"completed", "failed"}) => Queued({"completed", "failed"})'
    BY <2>1, HandledIsFirst
  <2>3. QED
    BY <2>1, <2>2 DEF GivenBack, Running
<1>6. ASSUME NEW w \in Worker, WorkerThread(w) PROVE GivenBack'
  <2>1. locked' = locked /\ button' = button
    BY <1>6 DEF WorkerThread, LoadInputs, LoadFails, Generated, Report, WorkerEnds, WorkerKeeps
  <2>2. \A v \in Worker : v # w => worker'[v] = worker[v]
    BY <1>1, <1>6 DEF WorkerThread, LoadInputs, LoadFails, Generated, Report, WorkerEnds
  <2>3. CASE LoadInputs(w)
    <3>1. worker'[w] = "generating" /\ events' = events
      BY <1>1, <2>3 DEF LoadInputs
    <3>2. QED
      BY <2>1, <2>2, <3>1 DEF GivenBack, Queued, Running
  <2>4. ASSUME NEW kind \in {"completed", "failed"}, Report(w, kind) PROVE GivenBack'
    <3>1. worker'[w] = "leaving" /\ Emit(w, kind)
      BY <1>1, <2>4 DEF Report
    <3>2. Queued({"completed", "failed"})'
      BY <2>4, <3>1, EmittedIsQueued
    <3>3. QED
      BY <3>1, <3>2 DEF GivenBack, Running
  <2>5. CASE WorkerEnds(w)
    <3>1. worker[w] = "leaving" /\ Emit(w, "finished")
      BY <2>5 DEF WorkerEnds
    <3>2. Queued({"finished"})'
      BY <3>1, EmittedIsQueued
    <3>3. Queued({"completed", "failed"}) => Queued({"completed", "failed"})'
      BY <3>1, EmittedIsQueued
    <3>4. QED
      BY <2>1, <2>2, <3>1, <3>2, <3>3 DEF GivenBack
  <2>6. QED
    BY <1>6, <2>3, <2>4, <2>5 DEF WorkerThread, LoadFails, Generated
<1>7. CASE Record \/ (\E c \in Crop : SelectCrop(c) \/ RemoveCrop(c)) \/ CloseWindow
           \/ Written \/ WriteFails \/ WindowClosed \/ UNCHANGED vars
  BY <1>2, <1>7 DEF Record, RecordDetection, RecordDetectionFails, RecordInstruction, SelectCrop,
                    RemoveCrop, CloseWindow, Written, WriteFails, WindowClosed, stories, vars
<1>8. QED
  BY <1>3, <1>4, <1>5, <1>6, <1>7 DEF Next, Click, EventLoop

(* The gallery is locked only for a worker that runs or has its last signal *)
(* in the queue, and a disabled button has a report on its way, whatever    *)
(* worker deletes whichever (_generate_story, _story_worker_finished).      *)
THEOREM StoriesGiveTheGalleryBack == Spec => []GivenBack
<1>1. Init => GivenBack
  BY DEF Init, GivenBack
<1>2. QED
  BY <1>1, GivenBackStays, StoryTypes, PTL DEF Spec
=============================================================================
