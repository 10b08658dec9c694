---------------------------- MODULE LocalRuntime ----------------------------
(***************************************************************************)
(* One classic run of the application (src/src/detect_objects/runtime.py,  *)
(* main.py and camera_cv/camera_cv.py): the models and devices are         *)
(* prepared on a worker thread of the startup screen, then the voice       *)
(* thread hands the newest spoken class request to the camera loop, which  *)
(* runs on the main thread, until either side stops the other and close()  *)
(* releases everything.                                                    *)
(*                                                                         *)
(* Every operation on the one-slot queue, the event and the lock is a step *)
(* of its own; what a thread does between two of them is not seen by the   *)
(* others.  Requests are numbered in the order in which they are spoken.   *)
(***************************************************************************)
EXTENDS Naturals, Sequences

CONSTANTS MaxRequests,    (* bound on the requests spoken                   *)
          MaxInterrupts   (* bound on the times Ctrl+C is pressed           *)

ASSUME LocalRuntimeAssumption == MaxRequests \in Nat /\ MaxInterrupts \in Nat

VARIABLES prep,       (* the step that prepare() is in                      *)
          main,       (* where the main thread is                           *)
          caller,     (* who called close(): run() or main()                *)
          voice,      (* where the voice thread is                          *)
          closed,     (* _closed                                            *)
          shutdown,   (* shutdown_event                                     *)
          camera,     (* the capture device and the vision model            *)
          mic,        (* the microphone stream and its worker               *)
          mailbox,    (* class_names_queue                                  *)
          spoken,     (* the newest request the voice thread has made       *)
          taken,      (* the request the camera loop holds; 0 is none       *)
          active,     (* the request whose classes are detected             *)
          interrupts, (* how often Ctrl+C was pressed                       *)
          cut         (* whether close() was interrupted                    *)

devices == <<camera, mic>>
requests == <<mailbox, spoken, taken, active>>
keyboard == <<interrupts, cut>>
vars == <<prep, main, caller, voice, closed, shutdown, devices, requests, keyboard>>

PrepStep == <<"classes", "voice", "microphone", "camera", "vision">>
Recording == {"opening", "reading", "taking", "predicting", "cleaning", "failing"}
Closing == {"stopping", "unloading"}
Alive == {"starting", "listening", "offering", "evicting", "replacing", "closing"}

(* The contents of a queue with maxsize 1.                                  *)
Mailbox == {<<>>} \cup {<<n>> : n \in 1..MaxRequests}

TypeOK ==
    /\ prep \in 1..6 \cup {0}
    /\ main \in {"waiting", "starting", "closing", "exited"} \cup Recording \cup Closing
    /\ caller \in {"run", "main"}
    /\ voice \in {"none", "ended"} \cup Alive
    /\ closed \in BOOLEAN /\ shutdown \in BOOLEAN /\ cut \in BOOLEAN
    /\ camera \in {"none", "open", "released"}
    /\ mic \in {"none", "ready", "listening", "closed"}
    /\ mailbox \in Mailbox
    /\ spoken \in 0..MaxRequests /\ taken \in 0..MaxRequests /\ active \in 0..MaxRequests
    /\ interrupts \in 0..MaxInterrupts

Init ==
    /\ prep = 1 /\ main = "waiting" /\ caller = "run" /\ voice = "none"
    /\ closed = FALSE /\ shutdown = FALSE
    /\ camera = "none" /\ mic = "none"
    /\ mailbox = <<>> /\ spoken = 0 /\ taken = 0 /\ active = 0
    /\ interrupts = 0 /\ cut = FALSE

Released(device, state) == IF device = "none" THEN "none" ELSE state

-----------------------------------------------------------------------------
(* prepare(), which holds the lifecycle lock.  prep is the number of the    *)
(* step under way, 6 once prepared and 0 once failed.                       *)

Preparing == prep \in 1..5

(* A step succeeds; the manager of a device exists from the step that       *)
(* creates it.                                                              *)
Prepare ==
    /\ Preparing
    /\ prep' = prep + 1
    /\ mic' = IF PrepStep[prep] = "microphone" THEN "ready" ELSE mic
    /\ camera' = IF PrepStep[prep] = "camera" THEN "open" ELSE camera
    /\ UNCHANGED <<main, caller, voice, closed, shutdown, requests, keyboard>>

(* Variant: a failed preparation leaves the cleanup to main().              *)
PrepareFailsUncleaned ==
    /\ Preparing
    /\ prep' = 0 /\ closed' = TRUE
    /\ UNCHANGED <<main, caller, voice, shutdown, devices, requests, keyboard>>

(* A step raises: close() releases what was created so far, under the same  *)
(* lock, before any voice thread exists.                                    *)
PrepareFails ==
    /\ Preparing
    /\ prep' = 0
    /\ closed' = TRUE /\ shutdown' = TRUE
    /\ mic' = Released(mic, "closed")
    /\ camera' = Released(camera, "released")
    /\ UNCHANGED <<main, caller, voice, requests, keyboard>>

(* The startup screen returns True only after the preparation succeeded;    *)
(* the user may quit it at any time.                                        *)
StartupReturns ==
    /\ main = "waiting"
    /\ \/ prep = 6 /\ main' = "starting" /\ caller' = "run"
       \/ main' = "closing" /\ caller' = "main"
    /\ UNCHANGED <<prep, voice, closed, shutdown, devices, requests, keyboard>>

-----------------------------------------------------------------------------
(* The main thread: run() and the camera loop.                              *)

StartVoice ==
    /\ main = "starting"
    /\ main' = "opening" /\ voice' = "starting"
    /\ UNCHANGED <<prep, caller, closed, shutdown, devices, requests, keyboard>>

(* start_record: a camera that cannot be used is released before it raises. *)
OpenCamera ==
    /\ main = "opening"
    /\ \/ main' = "reading" /\ UNCHANGED <<shutdown, camera>>
       \/ main' = "failing" /\ shutdown' = TRUE /\ camera' = "released"
    /\ UNCHANGED <<prep, caller, voice, closed, mic, requests, keyboard>>

(* Variant: the loop does not look at the shared event.                     *)
ReadFrameRegardless ==
    /\ main = "reading"
    /\ main' \in {"taking", "cleaning"}
    /\ UNCHANGED <<prep, caller, voice, closed, shutdown, devices, requests, keyboard>>

(* The loop ends on the shared event or when no frame can be read.          *)
ReadFrame ==
    /\ main = "reading"
    /\ main' \in IF shutdown THEN {"cleaning"} ELSE {"taking", "cleaning"}
    /\ UNCHANGED <<prep, caller, voice, closed, shutdown, devices, requests, keyboard>>

(* _apply_latest_classes, one get_nowait.                                   *)
TakeRequest ==
    /\ main = "taking" /\ mailbox # <<>>
    /\ taken' = Head(mailbox) /\ mailbox' = Tail(mailbox)
    /\ UNCHANGED <<prep, main, caller, voice, closed, shutdown, devices, spoken,
                   active, keyboard>>

(* Variant: a frame that found no request forgets the classes.              *)
ApplyNothingToo ==
    /\ main = "taking" /\ mailbox = <<>>
    /\ active' = taken
    /\ taken' = 0
    /\ main' = "predicting"
    /\ UNCHANGED <<prep, caller, voice, closed, shutdown, devices, mailbox, spoken,
                   keyboard>>

(* ... and the switch to what was taken once the queue is found empty; it   *)
(* cannot fail, as only supported classes are asked for and all of those    *)
(* were cached.                                                             *)
ApplyRequest ==
    /\ main = "taking" /\ mailbox = <<>>
    /\ active' = IF taken = 0 THEN active ELSE taken
    /\ taken' = 0
    /\ main' = "predicting"
    /\ UNCHANGED <<prep, caller, voice, closed, shutdown, devices, mailbox, spoken,
                   keyboard>>

(* Detection and the window: go on, leave on a key, or raise.               *)
Detect ==
    /\ main = "predicting"
    /\ main' \in {"reading", "cleaning", "failing"}
    /\ UNCHANGED <<prep, caller, voice, closed, shutdown, devices, requests, keyboard>>

(* The loop's own _gc_resource, or the except clause of run().              *)
LeaveCamera ==
    /\ main \in {"cleaning", "failing"}
    /\ camera' = IF main = "cleaning" THEN "released" ELSE camera
    /\ shutdown' = TRUE
    /\ main' = "closing" /\ caller' = "run"
    /\ UNCHANGED <<prep, voice, closed, mic, requests, keyboard>>

-----------------------------------------------------------------------------
(* close()                                                                  *)

(* Where the main thread goes when a close() ends: the one in run() is      *)
(* followed by the one in main()'s finally.                                 *)
AfterClose ==
    IF caller = "run" THEN main' = "closing" /\ caller' = "main"
    ELSE main' = "exited" /\ caller' = caller

(* The lock is taken, and given back at once if somebody closed before.     *)
CloseBegins ==
    /\ main = "closing" /\ ~Preparing
    /\ IF closed THEN AfterClose /\ UNCHANGED <<closed, shutdown>>
       ELSE /\ closed' = TRUE /\ shutdown' = TRUE
            /\ main' = "stopping" /\ caller' = caller
    /\ UNCHANGED <<prep, voice, devices, requests, keyboard>>

(* Variant: a voice thread that still runs is closed under its feet.        *)
StopVoiceAtOnce ==
    /\ main = "stopping"
    /\ mic' = Released(mic, "closed")
    /\ main' = "unloading"
    /\ UNCHANGED <<prep, caller, voice, closed, shutdown, camera, requests, keyboard>>

(* join ends with the voice thread or after five seconds; without a voice   *)
(* thread the voice manager is closed here.                                 *)
StopVoice ==
    /\ main = "stopping"
    /\ mic' = IF voice \in Alive THEN mic ELSE Released(mic, "closed")
    /\ main' = "unloading"
    /\ UNCHANGED <<prep, caller, voice, closed, shutdown, camera, requests, keyboard>>

Unload ==
    /\ main = "unloading"
    /\ camera' = Released(camera, "released")
    /\ AfterClose
    /\ UNCHANGED <<prep, voice, closed, shutdown, mic, requests, keyboard>>

(* Ctrl+C: KeyboardInterrupt passes the except clauses of run() on its way  *)
(* to the next finally.                                                     *)
Interrupt ==
    /\ interrupts < MaxInterrupts
    /\ interrupts' = interrupts + 1
    /\ \/ /\ main \in Recording
          /\ main' = "closing" /\ caller' = "run" /\ cut' = cut
       \/ /\ main = "starting"
          /\ main' = "closing" /\ caller' = "main" /\ cut' = cut
       \/ /\ main \in Closing \cup {"closing"}
          /\ AfterClose /\ cut' = TRUE
    /\ UNCHANGED <<prep, voice, closed, shutdown, devices, requests>>

-----------------------------------------------------------------------------
(* The voice thread, a daemon: it goes no further once main() has returned. *)

VoiceKeeps == UNCHANGED <<prep, main, caller, closed, camera, taken, active, keyboard>>

Running(state) == voice = state /\ main # "exited"

(* The microphone starts, or raises and takes the camera down with it.      *)
StartListening ==
    /\ Running("starting")
    /\ \/ voice' = "listening" /\ mic' = "listening" /\ UNCHANGED shutdown
       \/ voice' = "closing" /\ shutdown' = TRUE /\ UNCHANGED mic
    /\ UNCHANGED <<mailbox, spoken>> /\ VoiceKeeps

(* A text with at least one supported class.                                *)
Hear ==
    /\ Running("listening") /\ ~shutdown
    /\ spoken < MaxRequests
    /\ spoken' = spoken + 1
    /\ voice' = "offering"
    /\ UNCHANGED <<shutdown, mic, mailbox>> /\ VoiceKeeps

(* _put_latest_classes, first put_nowait.                                   *)
Offer ==
    /\ Running("offering")
    /\ IF mailbox = <<>> THEN mailbox' = <<spoken>> /\ voice' = "listening"
       ELSE mailbox' = mailbox /\ voice' = "evicting"
    /\ UNCHANGED <<shutdown, mic, spoken>> /\ VoiceKeeps

(* Variant: a full mailbox keeps what it has.                               *)
GiveUp ==
    /\ Running("evicting")
    /\ voice' = "listening"
    /\ UNCHANGED <<shutdown, mic, spoken, mailbox>> /\ VoiceKeeps

(* get_nowait, which may find that the camera was faster.                   *)
Evict ==
    /\ Running("evicting")
    /\ mailbox' = <<>>
    /\ voice' = "replacing"
    /\ UNCHANGED <<shutdown, mic, spoken>> /\ VoiceKeeps

(* The second put_nowait; a queue still full would raise.                   *)
Replace ==
    /\ Running("replacing")
    /\ IF mailbox = <<>>
       THEN mailbox' = <<spoken>> /\ voice' = "listening" /\ UNCHANGED shutdown
       ELSE voice' = "closing" /\ shutdown' = TRUE /\ UNCHANGED mailbox
    /\ UNCHANGED <<mic, spoken>> /\ VoiceKeeps

(* The loop ends on the shared event, or an exception sets it.              *)
StopListening ==
    /\ Running("listening")
    /\ shutdown' = TRUE
    /\ voice' = "closing"
    /\ UNCHANGED <<mic, spoken, mailbox>> /\ VoiceKeeps

CloseVoice ==
    /\ Running("closing")
    /\ mic' = Released(mic, "closed")
    /\ voice' = "ended"
    /\ UNCHANGED <<shutdown, spoken, mailbox>> /\ VoiceKeeps

-----------------------------------------------------------------------------
VoiceThread ==
    \/ StartListening \/ Hear \/ Offer \/ Evict \/ Replace
    \/ StopListening \/ CloseVoice

CameraLoop ==
    \/ StartVoice \/ OpenCamera \/ ReadFrame \/ TakeRequest \/ ApplyRequest
    \/ Detect \/ LeaveCamera

Close == CloseBegins \/ StopVoice \/ Unload

Next ==
    \/ Prepare \/ PrepareFails \/ StartupReturns
    \/ CameraLoop \/ Close \/ Interrupt
    \/ VoiceThread

Spec == Init /\ [][Next]_vars

(* All threads run; frames keep coming and detection returns; join gives up *)
(* after its timeout.  Nobody needs to speak, to fail, or to press a key.   *)
FairSpec ==
    /\ Spec
    /\ WF_vars(Prepare) /\ WF_vars(CameraLoop) /\ WF_vars(Close)
    /\ WF_vars(StartListening \/ Offer \/ Evict \/ Replace \/ CloseVoice)
    /\ WF_vars(StopListening /\ shutdown)

-----------------------------------------------------------------------------
(* PROPERTIES *)

(* When the program ends, nothing it opened is left open: the camera and    *)
(* the microphone are released however far the preparation came, whichever  *)
(* side failed first and whoever called close() first; unless Ctrl+C hit    *)
(* close() itself, or, for the microphone, the voice thread outlived the    *)
(* join (runtime.py close).                                                 *)
ReleasedAtExit ==
    main = "exited" /\ ~cut =>
        /\ camera # "open"
        /\ mic \in {"ready", "listening"} => voice \in Alive

(* The microphone is never closed while the voice thread listens to it.     *)
ListeningMicIsOpen == voice \in Alive \ {"starting", "closing"} => mic = "listening"

(* The mailbox and the camera loop together keep the promise of             *)
(* LatestRequest: a request never gives way to an older one.                *)
Latest == INSTANCE LatestRequest WITH newest <- spoken, inForce <- active

NewerRequestsOnly == Latest!LatestSpec

(* "Keep only the newest voice request for the camera loop"                 *)
(* (runtime.py:270): what is spoken takes effect, unless something newer    *)
(* does or the run ends.                                                    *)
RequestTakesEffect ==
    \A n \in 1..MaxRequests : (spoken = n) ~> (active >= n \/ shutdown \/ main \notin Recording)

(* Either side stops the other: once the event is set the program ends.     *)
ShutdownEndsTheRun == (shutdown /\ main # "waiting") ~> (main = "exited")
=============================================================================
