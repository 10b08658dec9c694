--------------------------- MODULE StorySession ---------------------------
(***************************************************************************)
(* The story side of the desktop window: SessionRecorder (story/session.py)*)
(* with the crops and events.json it keeps on disk, the gallery and the    *)
(* story button of runtime_window.py, and the StoryWorker threads          *)
(* (story/worker.py) that read the session and ask Codex for a story       *)
(* (story/generator.py).                                                   *)
(*                                                                         *)
(* The Qt thread changes the recorder's memory first and then rewrites     *)
(* events.json, which is torn until the write has ended and stays as it is *)
(* when the write fails; a worker may read it at any moment.  Which        *)
(* detections match, the cooldown and all texts are left out.              *)
(***************************************************************************)
EXTENDS Integers, Sequences, FiniteSets

CONSTANTS Crop,         (* the crops that may be saved                      *)
          MaxStories    (* bound on the clicks that start a worker          *)

ASSUME StoryAssumption == IsFiniteSet(Crop) /\ MaxStories \in Nat

VARIABLES gui,        (* what the Qt thread is doing                        *)
          doing,      (* the change whose write it is waiting for           *)
          recorded,   (* _detections: whether each crop is selected         *)
          gallery,    (* crop-gallery: whether each item is checked         *)
          locked,     (* whether crop-gallery is disabled                   *)
          button,     (* whether generate-story is enabled                  *)
          disk,       (* the crop files                                     *)
          file,       (* what events.json says of the crops                 *)
          torn,       (* whether events.json holds no document              *)
          saved,      (* how the writes so far have gone                    *)
          current,    (* _story_worker                                      *)
          worker,     (* where each StoryWorker is                          *)
          asked,      (* what was selected when it was started ...          *)
          sent,       (* ... and what it gave to Codex, until Codex is done *)
          events      (* signals of the workers, queued for the Qt thread   *)

recorder == <<recorded, disk, file, torn, saved>>
stories == <<current, worker, asked, sent>>
vars == <<gui, doing, recorder, gallery, locked, button, stories, events>>

Worker == 1..MaxStories
NoWorker == 0

Mark == {"absent", "selected", "excluded"}

Selected(marks) == {c \in Crop : marks[c] = "selected"}
Fresh == {c \in Crop : recorded[c] = "absent" /\ c \notin disk}
Running(w) == w \in Worker /\ worker[w] \in {"loading", "generating", "leaving"}

Change == [what : {"nothing", "instruction"}] \cup
          [what : {"add", "remove", "select"}, crops : SUBSET Crop]
Nothing == [what |-> "nothing"]

TypeOK ==
    /\ gui \in {"idle", "writing", "closing", "closed", "aborted"}
    /\ doing \in Change
    /\ recorded \in [Crop -> Mark] /\ gallery \in [Crop -> Mark]
    /\ locked \in BOOLEAN /\ button \in BOOLEAN
    /\ disk \subseteq Crop
    /\ file \in [Crop -> Mark] /\ torn \in BOOLEAN
    /\ saved \in {"always", "again", "stale"}
    /\ current \in {NoWorker} \cup Worker
    /\ worker \in [Worker -> {"new", "loading", "generating", "leaving", "off"}]
    /\ asked \in [Worker -> SUBSET Crop] /\ sent \in [Worker -> SUBSET Crop]
    /\ events \in Seq([kind : {"completed", "failed", "finished"}, worker : Worker])

Init ==
    /\ gui = "idle" /\ doing = Nothing
    /\ recorded = [c \in Crop |-> "absent"] /\ gallery = recorded
    /\ locked = FALSE /\ button = TRUE
    /\ disk = {} /\ file = recorded /\ torn = FALSE /\ saved = "always"
    /\ current = NoWorker
    /\ worker = [w \in Worker |-> "new"]
    /\ asked = [w \in Worker |-> {}] /\ sent = asked
    /\ events = <<>>

-----------------------------------------------------------------------------
(* The recorder, in the Qt thread.                                          *)

(* _write_events opens the file, which empties it; or opening fails.        *)
Rewrite(change) ==
    /\ gui = "idle" /\ gui' = "writing"
    /\ doing' = change
    /\ torn' \in {TRUE, torn}
    /\ UNCHANGED <<file, saved>>

(* record_detection: the crops of one frame are saved and recorded.         *)
RecordDetection(S) ==
    /\ S # {} /\ S \subseteq Fresh
    /\ disk' = disk \cup S
    /\ recorded' = [c \in Crop |-> IF c \in S THEN "selected" ELSE recorded[c]]
    /\ Rewrite([what |-> "add", crops |-> S])
    /\ UNCHANGED <<gallery, locked, button, stories, events>>

(* ... or some crop cannot be saved: those before it stay on disk.          *)
RecordDetectionFails(S) ==
    /\ gui = "idle"
    /\ S # Fresh /\ S \subseteq Fresh
    /\ disk' = disk \cup S
    /\ UNCHANGED <<gui, doing, recorded, file, torn, saved, gallery, locked, button,
                   stories, events>>

RecordInstruction ==
    /\ Rewrite([what |-> "instruction"])
    /\ UNCHANGED <<recorded, disk, gallery, locked, button, stories, events>>

(* The user checks or unchecks an item; set_crop_selected, unless the       *)
(* recorder does not know the crop (any more).                              *)
SelectCrop(c) ==
    /\ gui = "idle" /\ ~locked
    /\ gallery[c] # "absent"
    /\ LET mark == IF gallery[c] = "selected" THEN "excluded" ELSE "selected"
       IN  /\ gallery' = [gallery EXCEPT ![c] = mark]
           /\ IF recorded[c] = "absent"
              THEN UNCHANGED <<gui, doing, recorded, file, torn, saved>>
              ELSE /\ recorded' = [recorded EXCEPT ![c] = mark]
                   /\ Rewrite([what |-> "select", crops |-> {c}])
    /\ UNCHANGED <<disk, locked, button, stories, events>>

(* Variant: the recorder forgets the crop, but events.json does not.        *)
RemoveUnwritten(c) ==
    /\ gui = "idle" /\ ~locked
    /\ gallery[c] # "absent" /\ recorded[c] # "absent"
    /\ disk' = disk \ {c}
    /\ recorded' = [recorded EXCEPT ![c] = "absent"]
    /\ gallery' = [gallery EXCEPT ![c] = "absent"]
    /\ UNCHANGED <<gui, doing, file, torn, saved, locked, button, stories, events>>

(* _remove_selected_crop and remove_crop; for a crop that the recorder does *)
(* not know, and when the file cannot be removed, nothing changes.          *)
RemoveCrop(c) ==
    /\ ~locked
    /\ gallery[c] # "absent" /\ recorded[c] # "absent"
    /\ disk' = disk \ {c}
    /\ recorded' = [recorded EXCEPT ![c] = "absent"]
    /\ Rewrite([what |-> "remove", crops |-> {c}])
    /\ UNCHANGED <<gallery, locked, button, stories, events>>

(* The gallery after a write that has gone well.                            *)
GalleryAfter(change) ==
    [c \in Crop |->
        IF change.what = "add" /\ c \in change.crops THEN "selected"
        ELSE IF change.what = "remove" /\ c \in change.crops THEN "absent"
        ELSE gallery[c]]

Written ==
    /\ gui = "writing" /\ torn
    /\ gui' = "idle" /\ doing' = Nothing
    /\ file' = recorded /\ torn' = FALSE
    /\ saved' = IF saved = "stale" THEN "again" ELSE saved
    /\ gallery' = GalleryAfter(doing)
    /\ UNCHANGED <<recorded, disk, locked, button, stories, events>>

(* The OSError skips what follows the write: what the recorder has changed  *)
(* stays changed, in the file and in the gallery nothing happens.           *)
WriteFails ==
    /\ gui = "writing"
    /\ gui' = "idle" /\ doing' = Nothing
    /\ saved' = "stale"
    /\ UNCHANGED <<recorded, disk, file, torn, gallery, locked, button, stories, events>>

-----------------------------------------------------------------------------
(* The story button and the worker's signals, in the Qt thread.             *)

StartWorker(w) ==
    /\ gui = "idle" /\ button
    /\ Selected(recorded) # {}
    /\ ~Running(current)
    /\ w = Cardinality({v \in Worker : worker[v] # "new"}) + 1
    /\ current' = w
    /\ worker' = [worker EXCEPT ![w] = "loading"]
    /\ asked' = [asked EXCEPT ![w] = Selected(recorded)]
    /\ button' = FALSE
    /\ UNCHANGED <<gui, doing, recorder, gallery, sent, events>>

(* Variant: the gallery may still be edited.                                *)
GenerateUnlocked(w) ==
    /\ StartWorker(w)
    /\ UNCHANGED locked

(* _generate_story *)
GenerateStory(w) ==
    /\ StartWorker(w)
    /\ locked' = TRUE

Handle(kinds) ==
    /\ gui = "idle" /\ events # <<>>
    /\ Head(events).kind \in kinds
    /\ events' = Tail(events)

(* _show_story, _show_story_error *)
ShowStory ==
    /\ Handle({"completed", "failed"})
    /\ button' = TRUE
    /\ UNCHANGED <<gui, doing, recorder, gallery, locked, stories>>

(* Variant: the gallery stays as _generate_story left it.                   *)
FinishedUnnoticed ==
    /\ Handle({"finished"})
    /\ gui' = IF Running(current) THEN "aborted" ELSE gui
    /\ current' = NoWorker
    /\ UNCHANGED <<doing, recorder, gallery, locked, button, worker, asked, sent>>

(* _story_worker_finished deletes whatever worker is the current one; Qt    *)
(* ends the program when it is running.                                     *)
StoryWorkerFinished ==
    /\ Handle({"finished"})
    /\ locked' = FALSE
    /\ gui' = IF Running(current) THEN "aborted" ELSE gui
    /\ current' = NoWorker
    /\ UNCHANGED <<doing, recorder, gallery, button, worker, asked, sent>>

CloseWindow ==
    /\ gui = "idle"
    /\ gui' = "closing"
    /\ UNCHANGED <<doing, recorder, gallery, locked, button, stories, events>>

(* Variant: the window does not wait.                                       *)
ClosedAtOnce ==
    /\ gui = "closing"
    /\ gui' = "closed"
    /\ UNCHANGED <<doing, recorder, gallery, locked, button, stories, events>>

(* closeEvent waits for the current worker.                                 *)
WindowClosed ==
    /\ gui = "closing"
    /\ ~Running(current)
    /\ gui' = "closed"
    /\ UNCHANGED <<doing, recorder, gallery, locked, button, stories, events>>

-----------------------------------------------------------------------------
(* A StoryWorker: run().                                                    *)

WorkerKeeps == UNCHANGED <<gui, doing, recorder, gallery, locked, button, current>>

Emit(w, kind) == events' = Append(events, [kind |-> kind, worker |-> w])

Readable == ~torn /\ Selected(file) # {} /\ Selected(file) \subseteq disk

(* Variant: the selection is ignored.                                       *)
LoadAllInputs(w) ==
    /\ worker[w] = "loading" /\ Readable
    /\ worker' = [worker EXCEPT ![w] = "generating"]
    /\ sent' = [sent EXCEPT ![w] = {c \in Crop : file[c] # "absent"}]
    /\ UNCHANGED <<asked, events>> /\ WorkerKeeps

(* _load_story_inputs *)
LoadInputs(w) ==
    /\ worker[w] = "loading" /\ Readable
    /\ worker' = [worker EXCEPT ![w] = "generating"]
    /\ sent' = [sent EXCEPT ![w] = Selected(file)]
    /\ UNCHANGED <<asked, events>> /\ WorkerKeeps

(* The one signal that run() sends; what it worked on is of no use any more.*)
Report(w, kind) ==
    /\ worker' = [worker EXCEPT ![w] = "leaving"]
    /\ asked' = [asked EXCEPT ![w] = {}] /\ sent' = [sent EXCEPT ![w] = {}]
    /\ Emit(w, kind) /\ WorkerKeeps

(* _load_story_inputs refuses a torn file, an empty selection and a         *)
(* selected crop that is not there.                                         *)
LoadFails(w) == worker[w] = "loading" /\ ~Readable /\ Report(w, "failed")

(* Codex answers, fails or times out.                                       *)
Generated(w) ==
    worker[w] = "generating" /\ \E kind \in {"completed", "failed"} : Report(w, kind)

WorkerEnds(w) ==
    /\ worker[w] = "leaving"
    /\ worker' = [worker EXCEPT ![w] = "off"]
    /\ Emit(w, "finished")
    /\ UNCHANGED <<asked, sent>> /\ WorkerKeeps

WorkerThread(w) ==
    /\ gui \notin {"closed", "aborted"}
    /\ LoadInputs(w) \/ LoadFails(w) \/ Generated(w) \/ WorkerEnds(w)

Record ==
    \/ \E S \in SUBSET Crop : RecordDetection(S) \/ RecordDetectionFails(S)
    \/ RecordInstruction

Click ==
    \/ \E c \in Crop : SelectCrop(c) \/ RemoveCrop(c)
    \/ \E w \in Worker : GenerateStory(w)
    \/ CloseWindow

EventLoop ==
    Written \/ WriteFails \/ ShowStory \/ StoryWorkerFinished \/ WindowClosed

Next == Record \/ Click \/ EventLoop \/ \E w \in Worker : WorkerThread(w)

Spec == Init /\ [][Next]_vars

(* The Qt thread handles its signals whatever the camera sends; reading the *)
(* session ends, and Codex answers within 120 seconds or is given up.       *)
FairSpec ==
    /\ Spec
    /\ WF_vars(Written \/ WriteFails) /\ WF_vars(WindowClosed)
    /\ SF_vars(ShowStory \/ StoryWorkerFinished)
    /\ \A w \in Worker : WF_vars(WorkerThread(w))

-----------------------------------------------------------------------------
(* PROPERTIES *)

Open == gui \in {"idle", "closing"}

(* Between two changes events.json says what the recorder keeps, unless the *)
(* last write failed: no change is left unwritten, and one good write makes *)
(* up for all failed ones.  Until a write fails the gallery shows the same, *)
(* also when a worker's signals and new crops come in between               *)
(* (SessionRecorder._write_events, RuntimeWindow._add_crop).                *)
FileAndGalleryFollow ==
    Open => /\ saved = "stale" \/ (~torn /\ file = recorded)
            /\ saved = "always" => gallery = recorded

(* "Story button uses only selected crops" (test_story_integration.py:64):  *)
(* while the session is saved as it should be, a worker sends every crop    *)
(* that was selected at the click and none that is not selected now.        *)
OnlySelectedCropsAreSent ==
    saved = "always" =>
        \A w \in Worker :
            worker[w] = "generating" => /\ asked[w] \subseteq sent[w]
                                        /\ sent[w] \subseteq Selected(recorded)

(* A crop that was given to Codex stays on disk until Codex is done,        *)
(* whatever has failed before.                                              *)
SentCropsStayOnDisk ==
    gui # "aborted" =>
        \A w \in Worker : worker[w] = "generating" => sent[w] \subseteq disk

(* A closed window leaves no worker behind, and two never run at once.      *)
WorkersEndWithTheWindow ==
    /\ gui = "closed" => \A w \in Worker : ~Running(w)
    /\ \A v, w \in Worker : Running(v) /\ Running(w) => v = w

(* The gallery that a story has locked can be edited again.                 *)
GalleryComesBack == locked ~> ~locked \/ gui \in {"closing", "closed"}
=============================================================================
