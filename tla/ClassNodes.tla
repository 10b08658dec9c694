----------------------------- MODULE ClassNodes -----------------------------
(***************************************************************************)
(* The two-machine form of the program                                     *)
(* (src/src/detect_objects/distributed): the Whisper node                  *)
(* (whisper_node.py) turns transcripts into class names and posts them     *)
(* over HTTP (comm.py) to the YOLO node (yolo_node.py), whose receiver     *)
(* thread puts them into a queue of one for the camera loop.               *)
(*                                                                         *)
(* The Whisper node has one request under way; a request it has given up   *)
(* on may still be waiting at the YOLO node, which serves one after the    *)
(* other.  Requests are numbered in the order in which they are sent.      *)
(***************************************************************************)
EXTENDS TextMatching

CONSTANTS MaxText,      (* bound on the length of a transcript              *)
          MaxRequests,  (* bound on the requests sent                       *)
          MaxRuns       (* bound on how often the Whisper node is started   *)

ASSUME ClassNodesAssumption ==
       MaxText \in Nat /\ MaxRequests \in Nat /\ MaxRuns \in Nat \ {0}

VARIABLES whisper,   (* where the Whisper node is                           *)
          text,      (* the transcript whose classes it is sending          *)
          sent,      (* the newest request                                  *)
          runs,      (* how often the node was started                      *)
          backlog,   (* requests at the receiver, and whether their sender  *)
                     (* still waits                                         *)
          receiver,  (* where the receiver thread is                        *)
          answered,  (* the newest request answered with 204                *)
          mailbox,   (* class_queue                                         *)
          camera,    (* where the camera loop, the main thread, is          *)
          taken,     (* the request it has just taken; 0: none              *)
          active,    (* the request whose classes are detected; 0: default  *)
          shutdown   (* shutdown_event                                      *)

whisperVars == <<whisper, text, sent, runs>>
receiverVars == <<backlog, receiver, answered>>
cameraVars == <<camera, taken, active>>
vars == <<whisperVars, receiverVars, mailbox, cameraVars, shutdown>>

Serving == {"putting", "evicting", "replacing", "answering"}
InLoop == {"reading", "taking", "predicting"}

TypeOK ==
    /\ whisper \in {"listening", "sending", "closing", "ended"}
    /\ text \in Text(MaxText)
    /\ sent \in 0..MaxRequests /\ runs \in 1..MaxRuns
    /\ backlog \in Seq([request : 1..MaxRequests, heard : BOOLEAN])
    /\ receiver \in {"binding", "waiting", "ended"} \cup Serving
    /\ answered \in 0..sent
    /\ mailbox \in {<<>>} \cup {<<n>> : n \in 1..MaxRequests}
    /\ camera \in {"loading", "leaving", "joining", "ended"} \cup InLoop
    /\ taken \in 0..sent /\ active \in 0..sent
    /\ shutdown \in BOOLEAN

Init ==
    /\ whisper = "listening" /\ text = <<>> /\ sent = 0 /\ runs = 1
    /\ backlog = <<>> /\ receiver = "binding" /\ answered = 0
    /\ mailbox = <<>>
    /\ camera = "loading" /\ taken = 0 /\ active = 0
    /\ shutdown = FALSE

-----------------------------------------------------------------------------
(* The Whisper node: run_whisper_node and process_transcript.               *)

(* The transcripts that name classes; the others are passed over.           *)
Asking == {t \in Text(MaxText) : Extract(t) # <<>>}

(* The connection is made, or refused: nothing is caught on the way to the  *)
(* finally clause.                                                          *)
Send(t) ==
    /\ whisper = "listening" /\ sent < MaxRequests
    /\ IF receiver \in {"waiting"} \cup Serving
       THEN /\ whisper' = "sending" /\ text' = t
            /\ sent' = sent + 1
            /\ backlog' = Append(backlog, [request |-> sent', heard |-> TRUE])
       ELSE whisper' = "closing" /\ UNCHANGED <<text, sent, backlog>>
    /\ UNCHANGED <<runs, receiver, answered, mailbox, cameraVars, shutdown>>

(* Five seconds have passed, the connection broke, or Ctrl+C: what was sent *)
(* stays where it is, or it was cut short and is answered with 400.         *)
GiveUp ==
    /\ whisper \in {"listening", "sending"}
    /\ whisper' = "closing" /\ text' = <<>>
    /\ backlog' \in
          IF whisper = "sending" /\ backlog # <<>> /\ Last(backlog).request = sent
          THEN {Append(Front(backlog), [request |-> sent, heard |-> FALSE])} \cup
                  (IF receiver = "waiting" \/ Len(backlog) > 1 THEN {Front(backlog)} ELSE {})
          ELSE {backlog}
    /\ UNCHANGED <<sent, runs, receiver, answered, mailbox, cameraVars, shutdown>>

CloseWhisper ==
    /\ whisper = "closing"
    /\ whisper' = "ended"
    /\ UNCHANGED <<text, sent, runs, receiverVars, mailbox, cameraVars, shutdown>>

StartWhisperAgain ==
    /\ whisper = "ended" /\ runs < MaxRuns
    /\ whisper' = "listening" /\ runs' = runs + 1
    /\ UNCHANGED <<text, sent, receiverVars, mailbox, cameraVars, shutdown>>

-----------------------------------------------------------------------------
(* The receiver thread: receive_classes and update_classes.                 *)

ReceiverKeeps == UNCHANGED <<sent, runs, cameraVars, shutdown>>
Alive == camera # "ended"

(* A port in use ends the thread with an exception, and only the thread.    *)
Bind ==
    /\ receiver = "binding" /\ Alive
    /\ receiver' \in {"waiting", "ended"}
    /\ UNCHANGED <<whisper, text, backlog, answered, mailbox>> /\ ReceiverKeeps

(* One round of the loop; a request with a proper list of names.            *)
Accept ==
    /\ receiver = "waiting" /\ Alive
    /\ IF shutdown THEN receiver' = "ended" ELSE backlog # <<>> /\ receiver' = "putting"
    /\ UNCHANGED <<whisper, text, backlog, answered, mailbox>> /\ ReceiverKeeps

Put ==
    /\ receiver = "putting" /\ Alive
    /\ IF mailbox = <<>>
       THEN mailbox' = <<Head(backlog).request>> /\ receiver' = "answering"
       ELSE receiver' = "evicting" /\ UNCHANGED mailbox
    /\ UNCHANGED <<whisper, text, backlog, answered>> /\ ReceiverKeeps

(* Variant: a full queue keeps what it has.                                 *)
KeepOld ==
    /\ receiver = "evicting" /\ Alive
    /\ receiver' = "answering"
    /\ UNCHANGED <<whisper, text, backlog, answered, mailbox>> /\ ReceiverKeeps

(* get_nowait, which may find that the camera was faster.                   *)
Evict ==
    /\ receiver = "evicting" /\ Alive
    /\ mailbox' = <<>> /\ receiver' = "replacing"
    /\ UNCHANGED <<whisper, text, backlog, answered>> /\ ReceiverKeeps

(* The second put_nowait; if it raised, the request would go unanswered.    *)
Replace ==
    /\ receiver = "replacing" /\ Alive
    /\ IF mailbox = <<>>
       THEN mailbox' = <<Head(backlog).request>> /\ receiver' = "answering"
            /\ UNCHANGED backlog
       ELSE backlog' = Tail(backlog) /\ receiver' = "waiting" /\ UNCHANGED mailbox
    /\ UNCHANGED <<whisper, text, answered>> /\ ReceiverKeeps

(* 204; a sender that still waits goes on listening.                        *)
AnswerRequest ==
    /\ receiver = "answering" /\ Alive
    /\ receiver' = "waiting" /\ backlog' = Tail(backlog)
    /\ IF Head(backlog).heard
       THEN whisper' = "listening" /\ text' = <<>> /\ answered' = Head(backlog).request
       ELSE UNCHANGED <<whisper, text, answered>>
    /\ UNCHANGED mailbox /\ ReceiverKeeps

-----------------------------------------------------------------------------
(* The main thread of the YOLO node: run_yolo_node and Camera_Manager.      *)

CameraKeeps == UNCHANGED <<whisperVars, answered>>

(* load_model, and start_record up to its loop.                             *)
LoadModel ==
    /\ camera = "loading"
    /\ camera' \in {"reading", "leaving"}
    /\ UNCHANGED <<backlog, receiver, mailbox, taken, active, shutdown>> /\ CameraKeeps

ReadFrame ==
    /\ camera = "reading"
    /\ camera' \in IF shutdown THEN {"leaving"} ELSE {"taking", "leaving"}
    /\ UNCHANGED <<backlog, receiver, mailbox, taken, active, shutdown>> /\ CameraKeeps

(* _apply_latest_classes, one get_nowait ...                                *)
TakeRequest ==
    /\ camera = "taking" /\ mailbox # <<>>
    /\ taken' = Head(mailbox) /\ mailbox' = <<>>
    /\ UNCHANGED <<backlog, receiver, camera, active, shutdown>> /\ CameraKeeps

(* Variant: a frame without a request goes back to the default classes.     *)
ApplyWhatWasTaken ==
    /\ camera = "taking" /\ mailbox = <<>>
    /\ active' = taken /\ taken' = 0
    /\ camera' = "predicting"
    /\ UNCHANGED <<backlog, receiver, mailbox, shutdown>> /\ CameraKeeps

(* ... and the switch once the queue is empty.  Both nodes read the same    *)
(* dictionary, so every class that is sent has been cached.                 *)
ApplyRequest ==
    /\ camera = "taking" /\ mailbox = <<>>
    /\ active' = IF taken = 0 THEN active ELSE taken
    /\ taken' = 0
    /\ camera' = "predicting"
    /\ UNCHANGED <<backlog, receiver, mailbox, shutdown>> /\ CameraKeeps

(* Detection and the window: go on, leave on a key, or raise.               *)
Predict ==
    /\ camera = "predicting"
    /\ camera' \in {"reading", "leaving"}
    /\ UNCHANGED <<backlog, receiver, mailbox, taken, active, shutdown>> /\ CameraKeeps

Interrupt ==
    /\ camera \in {"loading"} \cup InLoop
    /\ camera' = "leaving"
    /\ UNCHANGED <<backlog, receiver, mailbox, taken, active, shutdown>> /\ CameraKeeps

(* The finally clause.                                                      *)
Leave ==
    /\ camera = "leaving"
    /\ shutdown' = TRUE /\ camera' = "joining"
    /\ UNCHANGED <<backlog, receiver, mailbox, taken, active>> /\ CameraKeeps

(* The join gives up after a second; the process takes the daemon thread    *)
(* and its connections with it.                                             *)
Exit ==
    /\ camera = "joining"
    /\ camera' = "ended" /\ receiver' = "ended" /\ backlog' = <<>>
    /\ UNCHANGED <<mailbox, taken, active, shutdown>> /\ CameraKeeps

-----------------------------------------------------------------------------
ReceiverThread == Bind \/ Accept \/ Put \/ Evict \/ Replace \/ AnswerRequest

CameraLoop ==
    LoadModel \/ ReadFrame \/ TakeRequest \/ ApplyRequest \/ Predict \/ Leave \/ Exit

Next ==
    \/ \E t \in Asking : Send(t)
    \/ GiveUp \/ CloseWhisper \/ StartWhisperAgain
    \/ ReceiverThread
    \/ CameraLoop \/ Interrupt

Spec == Init /\ [][Next]_vars

(* Both threads of the YOLO node run.  Nobody needs to speak, and the       *)
(* Whisper node may wait for an answer as long as it likes.                 *)
FairSpec == Spec /\ WF_vars(ReceiverThread) /\ WF_vars(CameraLoop)

-----------------------------------------------------------------------------
(* PROPERTIES *)

(* What the Whisper node sends is every class that the transcript mentions  *)
(* and no other, each once, whatever names contain each other or are spaced *)
(* out ("Return each unique supported object mentioned in the text",        *)
(* parse_and_match_module.py:124).                                          *)
SentClassesAreMentioned ==
    whisper = "sending" => /\ ToSet(Extract(text)) = Mentioned(text)
                           /\ IsInjective(Extract(text))

(* "Remove the old request because only the newest one matters"             *)
(* (yolo_node.py:57): classes never give way to older ones, neither through *)
(* the backlog that a restarted Whisper node finds, nor through the queue.  *)
Latest == INSTANCE LatestRequest WITH newest <- sent, inForce <- active
NewestClassesWin == Latest!LatestSpec

(* "Tell Whisper that the classes arrived" (comm.py:65): classes that were  *)
(* answered with 204 are detected, or newer ones are, or the node has ended.*)
AnsweredClassesTakeEffect ==
    \A n \in 1..MaxRequests :
        answered = n ~> active >= n \/ camera \in {"leaving", "joining", "ended"}
=============================================================================
