---------------------------- MODULE DesktopVideo ----------------------------
(***************************************************************************)
(* The live part of the desktop window                                     *)
(* (src/src/detect_objects/desktop/runtime_window.py): the Qt thread, the  *)
(* camera thread (camera_video.py) with its detector (yolo_detection.py),  *)
(* and the Whisper thread (whisper_stream.py).                             *)
(*                                                                         *)
(* A signal that a thread emits is queued and handled later by the Qt      *)
(* thread, in the order of emission; a click comes between any two of      *)
(* them.  Stopping the camera blocks the Qt thread until the camera thread *)
(* is gone; stopping Whisper does not.  Frames, detections and the status  *)
(* texts that only report are left out.                                    *)
(*                                                                         *)
(* The instructions that name supported classes are numbered in the order  *)
(* in which the window applies them.                                       *)
(***************************************************************************)
EXTENDS Integers, Sequences

CONSTANTS MaxRequests,   (* bound on the instructions with classes          *)
          MaxStarts      (* bound on the clicks that start a thread         *)

ASSUME DesktopVideoAssumption == MaxRequests \in Nat /\ MaxStarts \in Nat

VARIABLES gui,        (* what the Qt thread is doing                        *)
          events,     (* signals queued for it                              *)
          requested,  (* the newest instruction, which is the one whose     *)
                      (* classes the session recorder looks for             *)
          unsaved,    (* the newest one that could not be written down      *)
          shown,      (* target-summary: the classes said to be active      *)
          queued,     (* keyword-queue-summary: the classes said to wait    *)
          preview,    (* what toggle-preview offers: "Pause" or "Resume"    *)
          micLabel,   (* what toggle-whisper offers                         *)
          micEnabled, (* whether toggle-whisper is enabled                  *)
          cam,        (* where the camera thread is                         *)
          camStop,    (* its _stop_requested                                *)
          pending,    (* _pending_classes and its snapshot; 0: empty        *)
          taken,      (* the request the camera thread has just taken       *)
          detector,   (* the classes of the loaded detector                 *)
          mic,        (* where the Whisper thread is                        *)
          micStop,    (* its _stop_requested                                *)
          starts      (* clicks so far that started a thread                *)

window == <<shown, queued, preview, micLabel, micEnabled>>
instructions == <<requested, unsaved>>
camera == <<cam, camStop, taken, detector>>
whisper == <<mic, micStop>>
vars == <<gui, events, instructions, window, camera, pending, whisper, starts>>

(* DEFAULT_DETECTION_CLASSES stand for request 0; a detector that is not    *)
(* loaded has no classes.                                                   *)
Default == 0
Unloaded == -1

InLoop == {"reading", "taking", "announcing", "switching", "predicting"}

Event == [kind : {"error", "queue", "active", "heard", "listening", "ended", "finished"},
          request : Nat]

TypeOK ==
    /\ gui \in {"idle", "showing", "stopping", "closing", "closingMic", "closed"}
    /\ events \in Seq(Event)
    /\ requested \in Nat /\ unsaved \in 0..requested
    /\ shown \in Nat /\ queued \in Nat
    /\ preview \in {"Pause", "Resume"} /\ micLabel \in {"Pause", "Resume"}
    /\ micEnabled \in BOOLEAN /\ camStop \in BOOLEAN /\ micStop \in BOOLEAN
    /\ cam \in {"off", "loading", "leaving"} \cup InLoop
    /\ pending \in Nat /\ taken \in Nat
    /\ detector \in Nat \cup {Unloaded}
    /\ mic \in {"off", "loading", "listening", "leaving"}
    /\ starts \in 0..MaxStarts

(* The constructor starts the camera; the microphone waits for a click.     *)
Init ==
    /\ gui = "idle" /\ events = <<>>
    /\ requested = 0 /\ unsaved = 0 /\ shown = Default /\ queued = 0
    /\ preview = "Pause" /\ micLabel = "Resume" /\ micEnabled = TRUE
    /\ cam = "loading" /\ camStop = FALSE
    /\ pending = 0 /\ taken = 0 /\ detector = Unloaded
    /\ mic = "off" /\ micStop = FALSE
    /\ starts = 0

Signal(kind, n) == [kind |-> kind, request |-> n]

Emit(kind) == events' = Append(events, Signal(kind, 0))

(* MaxRequests leaves room for one more instruction.                        *)
MayAsk == requested + Len(SelectSeq(events, LAMBDA e : e.kind = "heard")) < MaxRequests

-----------------------------------------------------------------------------
(* The camera thread: run().                                                *)

CameraKeeps == UNCHANGED <<gui, instructions, window, whisper, starts, camStop>>

(* The model is loaded with the default classes, and the camera opened; an  *)
(* error leads to the finally clause.                                       *)
LoadModel ==
    /\ cam = "loading"
    /\ \/ cam' = "reading" /\ detector' = Default /\ UNCHANGED events
       \/ cam' = "leaving" /\ detector' \in {Default, Unloaded} /\ Emit("error")
    /\ UNCHANGED <<pending, taken>> /\ CameraKeeps

(* One round of the loop up to the frame: a frame that cannot be read is an *)
(* error unless the stop was asked for by then.                             *)
ReadFrame ==
    /\ cam = "reading"
    /\ \/ cam' = "taking" /\ ~camStop /\ UNCHANGED events
       \/ cam' = "leaving" /\ IF camStop THEN UNCHANGED events ELSE Emit("error")
    /\ UNCHANGED <<pending, taken, detector>> /\ CameraKeeps

(* get_nowait under the lock of the pending classes.                        *)
TakeClasses ==
    /\ cam = "taking"
    /\ cam' = IF pending = 0 THEN "predicting" ELSE "announcing"
    /\ taken' = pending /\ pending' = 0
    /\ UNCHANGED <<events, detector>> /\ CameraKeeps

(* The signal that the slot is empty, outside the lock.                     *)
AnnounceTaken ==
    /\ cam = "announcing"
    /\ cam' = "switching" /\ Emit("queue")
    /\ UNCHANGED <<pending, taken, detector>> /\ CameraKeeps

(* Variant: the switch is announced, but the detector keeps its classes.    *)
AnnounceOnly ==
    /\ cam = "switching"
    /\ cam' = "predicting" /\ taken' = 0
    /\ events' = Append(events, Signal("active", taken))
    /\ UNCHANGED <<pending, detector>> /\ CameraKeeps

(* The detector is switched, and the switch announced; or set_classes fails. *)
SwitchClasses ==
    /\ cam = "switching"
    /\ taken' = 0
    /\ \/ /\ cam' = "predicting" /\ detector' = taken
          /\ events' = Append(events, Signal("active", taken))
       \/ cam' = "leaving" /\ UNCHANGED detector /\ Emit("error")
    /\ UNCHANGED pending /\ CameraKeeps

Predict ==
    /\ cam = "predicting"
    /\ \/ cam' = "reading" /\ UNCHANGED events
       \/ cam' = "leaving" /\ Emit("error")
    /\ UNCHANGED <<pending, taken, detector>> /\ CameraKeeps

(* The finally clause: capture and model are released, and run() returns.   *)
LeaveCamera ==
    /\ cam = "leaving"
    /\ cam' = "off" /\ detector' = Unloaded
    /\ UNCHANGED <<events, pending, taken>> /\ CameraKeeps

CameraThread ==
    LoadModel \/ ReadFrame \/ TakeClasses \/ AnnounceTaken \/ SwitchClasses
    \/ Predict \/ LeaveCamera

-----------------------------------------------------------------------------
(* The Whisper thread: run().                                               *)

MicKeeps == UNCHANGED <<gui, instructions, window, camera, pending, starts, micStop>>

(* The model is loaded and, unless the stop was asked for by then, the      *)
(* microphone opened: a stop in between is noticed in the loop.             *)
OpenMicrophone ==
    /\ mic = "loading"
    /\ \/ mic' = "listening" /\ Emit("listening")
       \/ mic' = "leaving" /\ UNCHANGED events
    /\ MicKeeps

(* A transcript that names supported classes.                               *)
Transcribe ==
    /\ mic = "listening"
    /\ MayAsk
    /\ Emit("heard")
    /\ UNCHANGED mic /\ MicKeeps

(* The loop ends on the stop flag or with an exception.                     *)
StopListening ==
    /\ mic = "listening"
    /\ mic' = "leaving"
    /\ UNCHANGED events /\ MicKeeps

(* The finally clause: "Off" or "Error" is the last status, and the thread  *)
(* reports that it has finished.                                            *)
LeaveMicrophone ==
    /\ mic = "leaving"
    /\ mic' = "off"
    /\ events' = events \o <<Signal("ended", 0), Signal("finished", 0)>>
    /\ MicKeeps

WhisperThread ==
    OpenMicrophone \/ Transcribe \/ StopListening \/ LeaveMicrophone

-----------------------------------------------------------------------------
(* The Qt thread.                                                           *)

(* Variant: classes that wait for the camera are not replaced.              *)
ApplyWhenFree ==
    /\ requested' = requested + 1
    /\ \/ /\ pending' = IF pending = 0 THEN requested' ELSE pending
          /\ gui' = "showing" /\ UNCHANGED unsaved
       \/ unsaved' = requested' /\ UNCHANGED <<pending, gui>>

(* _apply_instruction: the recorder looks for the new classes and writes    *)
(* the session; then they take the place of those that wait for the camera, *)
(* but an OSError of the write leaves the slot before that.                 *)
ApplyInstruction ==
    /\ requested' = requested + 1
    /\ \/ pending' = requested' /\ gui' = "showing" /\ UNCHANGED unsaved
       \/ unsaved' = requested' /\ UNCHANGED <<pending, gui>>

(* ... and its signal, which the Qt thread sends to itself and handles at   *)
(* once: show_keyword_queue looks at what waits by now.                     *)
ShowKeywordQueue ==
    /\ gui = "showing"
    /\ gui' = "idle" /\ queued' = pending
    /\ UNCHANGED <<events, instructions, shown, preview, micLabel, micEnabled, camera,
                   pending, whisper, starts>>

SubmitCommand ==
    /\ gui = "idle" /\ MayAsk
    /\ ApplyInstruction
    /\ UNCHANGED <<events, window, camera, whisper, starts>>

(* An instruction without a supported class.                                *)
SubmitUnknown ==
    /\ gui = "idle"
    /\ queued' = 0
    /\ UNCHANGED <<gui, events, instructions, shown, preview, micLabel, micEnabled,
                   camera, pending, whisper, starts>>

(* _toggle_preview: stop() waits for the thread, start() clears the flag.   *)
PausePreview ==
    /\ gui = "idle" /\ cam # "off"
    /\ camStop' = TRUE /\ gui' = "stopping"
    /\ UNCHANGED <<events, instructions, window, cam, taken, detector, pending, whisper,
                   starts>>

ResumePreview ==
    /\ gui = "idle" /\ cam = "off" /\ starts < MaxStarts
    /\ starts' = starts + 1
    /\ camStop' = FALSE /\ cam' = "loading" /\ preview' = "Pause"
    /\ UNCHANGED <<gui, events, instructions, shown, queued, micLabel, micEnabled, taken,
                   detector, pending, whisper>>

(* stop() has returned, in _toggle_preview or in show_video_error.          *)
PreviewStopped ==
    /\ gui = "stopping" /\ cam = "off"
    /\ gui' = "idle" /\ preview' = "Resume"
    /\ UNCHANGED <<events, instructions, shown, queued, micLabel, micEnabled, camera,
                   pending, whisper, starts>>

(* _toggle_whisper *)
PauseMicrophone ==
    /\ gui = "idle" /\ micEnabled /\ mic # "off"
    /\ micEnabled' = FALSE /\ micStop' = TRUE
    /\ UNCHANGED <<gui, events, instructions, shown, queued, preview, micLabel, camera,
                   pending, mic, starts>>

ResumeMicrophone ==
    /\ gui = "idle" /\ micEnabled /\ mic = "off" /\ starts < MaxStarts
    /\ starts' = starts + 1
    /\ micLabel' = "Pause" /\ micStop' = FALSE /\ mic' = "loading"
    /\ UNCHANGED <<gui, events, instructions, shown, queued, preview, micEnabled, camera,
                   pending>>

Handle(kind) ==
    /\ gui = "idle" /\ events # <<>>
    /\ Head(events).kind = kind
    /\ events' = Tail(events)

(* Variant: an error is shown, but the thread is left to itself.            *)
ShowErrorOnly ==
    /\ Handle("error")
    /\ preview' = "Resume"
    /\ UNCHANGED <<gui, instructions, shown, queued, micLabel, micEnabled, camera,
                   pending, whisper, starts>>

ShowVideoError ==
    /\ Handle("error")
    /\ camStop' = TRUE /\ gui' = "stopping"
    /\ UNCHANGED <<instructions, window, cam, taken, detector, pending, whisper, starts>>

(* Variant: the signal is not connected.                                    *)
HandleQueueIgnored ==
    /\ Handle("queue")
    /\ UNCHANGED <<gui, instructions, window, camera, pending, whisper, starts>>

HandleQueueChanged ==
    /\ Handle("queue")
    /\ queued' = pending
    /\ UNCHANGED <<gui, instructions, shown, preview, micLabel, micEnabled, camera,
                   pending, whisper, starts>>

ShowActiveClasses ==
    /\ Handle("active")
    /\ shown' = Head(events).request
    /\ UNCHANGED <<gui, instructions, queued, preview, micLabel, micEnabled, camera,
                   pending, whisper, starts>>

ReceiveTranscript ==
    /\ Handle("heard")
    /\ ApplyInstruction
    /\ UNCHANGED <<window, camera, whisper, starts>>

(* _whisper_finished *)
WhisperFinished ==
    /\ Handle("finished")
    /\ micLabel' = "Resume" /\ micEnabled' = TRUE
    /\ UNCHANGED <<gui, instructions, shown, queued, preview, camera, pending, whisper, starts>>

(* show_whisper_status *)
ShowWhisperStatus ==
    /\ \/ Handle("listening") /\ micLabel' = "Pause" /\ micEnabled' = micEnabled
       \/ Handle("ended") /\ micLabel' = "Resume" /\ micEnabled' = FALSE
    /\ UNCHANGED <<gui, instructions, shown, queued, preview, camera, pending, whisper, starts>>

(* closeEvent: the camera is waited for, then Whisper.                      *)
CloseWindow ==
    /\ gui = "idle"
    /\ gui' = "closing" /\ camStop' = TRUE
    /\ UNCHANGED <<events, instructions, window, cam, taken, detector, pending, whisper,
                   starts>>

(* Variant: Whisper is waited for without being asked to stop.              *)
AwaitWhisper ==
    /\ gui = "closing" /\ cam = "off"
    /\ gui' = "closingMic"
    /\ UNCHANGED <<events, instructions, window, camera, pending, whisper, starts>>

CloseWhisper ==
    /\ gui = "closing" /\ cam = "off"
    /\ gui' = "closingMic" /\ micStop' = TRUE
    /\ UNCHANGED <<events, instructions, window, camera, pending, mic, starts>>

WindowClosed ==
    /\ gui = "closingMic" /\ mic = "off"
    /\ gui' = "closed"
    /\ UNCHANGED <<events, instructions, window, camera, pending, whisper, starts>>

Click ==
    \/ SubmitCommand \/ SubmitUnknown
    \/ PausePreview \/ ResumePreview \/ PauseMicrophone \/ ResumeMicrophone
    \/ CloseWindow

EventLoop ==
    \/ ShowKeywordQueue \/ PreviewStopped
    \/ ShowVideoError \/ HandleQueueChanged \/ ShowActiveClasses
    \/ ReceiveTranscript \/ WhisperFinished \/ ShowWhisperStatus
    \/ CloseWhisper \/ WindowClosed

Next == Click \/ EventLoop \/ CameraThread \/ WhisperThread

Spec == Init /\ [][Next]_vars

(* The threads run: loading, reading a frame and prediction return, and the *)
(* loop of a Whisper thread that was asked to stop ends.  Nobody needs to   *)
(* click or to speak.                                                       *)
FairSpec ==
    /\ Spec
    /\ WF_vars(EventLoop) /\ WF_vars(CameraThread)
    /\ WF_vars(OpenMicrophone \/ LeaveMicrophone)
    /\ WF_vars(StopListening /\ micStop)

-----------------------------------------------------------------------------
(* PROPERTIES *)

Settled == gui = "idle" /\ events = <<>>

(* Once the window has handled every signal, the preview button offers to   *)
(* pause exactly while the camera thread runs, also when an error of an     *)
(* earlier run arrives after a restart (show_video_error stops whatever     *)
(* runs); and the microphone button is usable and right: nobody is left     *)
(* with a disabled button over a stopped Whisper thread, however its        *)
(* statuses and the clicks interleave (show_whisper_status disables,        *)
(* _whisper_finished enables).                                              *)
ButtonsFit ==
    Settled => /\ preview = "Pause" <=> cam # "off"
               /\ mic = "off" => micEnabled /\ micLabel = "Resume"
               /\ mic = "listening" => micLabel = "Pause" /\ (micEnabled \/ micStop)

(* The window never says that a request waits which the camera thread took  *)
(* long ago (show_keyword_queue reads pending_classes, not its argument):   *)
(* at most the camera thread is between the get and its signal.  While the  *)
(* camera runs the window names the classes that are detected, unless the   *)
(* detector was loaded anew and is back to its default.                     *)
LabelsFit ==
    Settled => /\ queued # 0 => queued = pending \/ cam = "announcing"
               /\ cam \in InLoop => detector \in {shown, Default}

(* What an instruction asks for is detected, unless something newer is or   *)
(* the camera stops ("switch YOLO to matching classes",                     *)
(* runtime_window.py:455).                                                  *)
RequestIsDetected ==
    \A n \in 1..MaxRequests :
        (pending = n) ~> (detector >= n \/ cam \in {"leaving", "off"})

(* What the recorder saves crops of is what YOLO detects, or what waits to  *)
(* be detected, unless the instruction could not be written down: then      *)
(* record_instruction has changed the recorder's classes and raised before  *)
(* set_classes (runtime_window.py:472); or the detector was loaded anew.    *)
RecorderFollowsYolo ==
    cam \in InLoop =>
        requested \in {detector, taken, pending, unsaved} \/ detector = Default

(* Closing the window ends, whatever the threads are doing.                 *)
CloseEnds == gui = "closing" ~> gui = "closed"
=============================================================================
