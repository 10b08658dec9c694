------------------------- MODULE DesktopVideoProofs -------------------------
(***************************************************************************)
(* Proofs about DesktopVideo, for any number of instructions and starts:   *)
(* the buttons and labels of the window fit the threads once its signals   *)
(* are handled, and the recorder looks for what YOLO detects.              *)
(*                                                                         *)
(* Four inductive invariants, one for each part of the state: the camera   *)
(* and its button, the microphone and its button, what the labels say of   *)
(* the classes, and the order of the instructions.  The first three tell   *)
(* what a label that does not fit yet is waiting for: a signal in the      *)
(* queue that nothing after it undoes.                                     *)
(***************************************************************************)
EXTENDS DesktopVideo, SequenceTheorems, TLAPS

(* A signal of one of the kinds K is queued.                                *)
Waits(q, K) == \E i \in DOMAIN q : q[i].kind \in K

(* One of kind k is queued, and none of the kinds K after it.               *)
LastWord(q, k, K) ==
    \E i \in DOMAIN q : /\ q[i].kind = k
                        /\ \A j \in DOMAIN q : j > i => q[j].kind \notin K

(* The last signal of active classes names request n.                       *)
LastActive(q, n) ==
    \E i \in DOMAIN q : /\ q[i].kind = "active" /\ q[i].request = n
                        /\ \A j \in DOMAIN q : j > i => q[j].kind # "active"

(* The preview says "Resume" only when the camera is off; it is asked to    *)
(* stop only when the Qt thread waits for it; and when it stops by itself,  *)
(* an error is on its way.                                                  *)
CameraIInv ==
    /\ preview = "Resume" => cam = "off"
    /\ gui \in {"idle", "showing"} =>
          /\ camStop => cam = "off"
          /\ preview = "Pause" /\ cam \in {"leaving", "off"} => Waits(events, {"error"})

(* "ended" is followed by "finished" at once.                               *)
EndedThenFinished(q) ==
    \A i \in DOMAIN q : q[i].kind = "ended" =>
        i + 1 \in DOMAIN q /\ q[i + 1].kind = "finished"

(* The label of the microphone fits, or its last status is on its way; and  *)
(* the button is disabled only until "finished" is handled, or while the    *)
(* thread that was asked to stop is still there.                            *)
MicIInv ==
    /\ EndedThenFinished(events)
    /\ mic = "listening" =>
          \/ LastWord(events, "listening", {"ended", "finished"})
          \/ micLabel = "Pause" /\ ~Waits(events, {"ended", "finished"})
    /\ mic = "off" =>
          \/ LastWord(events, "finished", {"listening"})
          \/ micLabel = "Resume" /\ ~Waits(events, {"listening"})
    /\ ~micEnabled => Waits(events, {"finished"}) \/ (micStop /\ mic # "off")

(* What waits is shown, or about to be; and so are the active classes.      *)
LabelIInv ==
    /\ \/ gui = "showing" \/ queued \in {0, pending} \/ cam = "announcing"
       \/ Waits(events, {"queue"})
    /\ cam \in InLoop /\ detector # Default =>
          \/ LastActive(events, detector)
          \/ shown = detector /\ ~Waits(events, {"active"})

(* Instructions overtake each other only forward, from the slot over the    *)
(* camera thread to the detector.                                           *)
RequestIInv ==
    /\ taken # 0 =>
          cam \in {"announcing", "switching"} /\ taken > detector /\ taken <= requested
    /\ pending # 0 => pending > taken /\ pending > detector /\ pending <= requested
    /\ detector <= requested
    /\ pending # 0 \/ taken # 0 => requested \in {taken, pending, unsaved}
    /\ RecorderFollowsYolo

VideoIInv == TypeOK /\ CameraIInv /\ MicIInv /\ LabelIInv /\ RequestIInv

-----------------------------------------------------------------------------
(* The queue of signals                                                     *)

(* What a signal at the end changes.                                        *)
LEMMA AppendedSignal ==
    ASSUME NEW q \in Seq(Event), NEW e \in Event, NEW k, NEW K, NEW n
    PROVE  /\ Append(q, e) \in Seq(Event)
           /\ Waits(Append(q, e), K) <=> Waits(q, K) \/ e.kind \in K
           /\ LastWord(Append(q, e), k, K)
                  <=> e.kind = k \/ (LastWord(q, k, K) /\ e.kind \notin K)
           /\ e.kind # "active" =>
                  (LastActive(Append(q, e), n) <=> LastActive(q, n))
           /\ e.kind = "active" /\ e.request = n => LastActive(Append(q, e), n)
<1> DEFINE r == Append(q, e)
<1>1. /\ r \in Seq(Event) /\ Len(q) \in Nat
      /\ DOMAIN q = 1..Len(q) /\ DOMAIN r = 1..(Len(q) + 1)
      /\ \A i \in DOMAIN q : i \in DOMAIN r /\ r[i] = q[i] /\ i < Len(q) + 1
      /\ r[Len(q) + 1] = e /\ Len(q) + 1 \in DOMAIN r
      /\ \A i \in DOMAIN r : i \in DOMAIN q \/ i = Len(q) + 1
      /\ \A i \in DOMAIN r : ~(i > Len(q) + 1)
  OBVIOUS
<1> HIDE DEF r
<1>2. Waits(r, K) <=> Waits(q, K) \/ e.kind \in K
  BY <1>1 DEF Waits
<1>3. LastWord(r, k, K) <=> e.kind = k \/ (LastWord(q, k, K) /\ e.kind \notin K)
  BY <1>1 DEF LastWord
<1>4. e.kind # "active" => (LastActive(r, n) <=> LastActive(q, n))
  BY <1>1 DEF LastActive
<1>5. e.kind = "active" /\ e.request = n => LastActive(r, n)
  BY <1>1 DEF LastActive
<1>6. QED
  BY <1>1, <1>2, <1>3, <1>4, <1>5 DEF r

(* What handling the first signal changes.                                  *)
LEMMA HandledSignal ==
    ASSUME NEW q \in Seq(Event), q # <<>>, NEW k, NEW K, NEW n
    PROVE  /\ Tail(q) \in Seq(Event) /\ Head(q) \in Event
           /\ Waits(q, K) <=> Waits(Tail(q), K) \/ Head(q).kind \in K
           /\ LastWord(q, k, K)
                  <=> \/ LastWord(Tail(q), k, K)
                      \/ Head(q).kind = k /\ ~Waits(Tail(q), K)
           /\ LastActive(q, n)
                  <=> \/ LastActive(Tail(q), n)
                      \/ /\ Head(q).kind = "active" /\ Head(q).request = n
                         /\ ~Waits(Tail(q), {"active"})
<1> DEFINE r == Tail(q)
<1>1. /\ r \in Seq(Event) /\ Len(q) \in Nat /\ Len(q) > 0
      /\ DOMAIN q = 1..Len(q) /\ DOMAIN r = 1..(Len(q) - 1)
      /\ \A i \in DOMAIN r : i + 1 \in DOMAIN q /\ i + 1 > 1 /\ r[i] = q[i + 1]
      /\ \A i \in DOMAIN q : i = 1 \/ (i > 1 /\ i - 1 \in DOMAIN r /\ r[i - 1] = q[i])
      /\ 1 \in DOMAIN q /\ Head(q) = q[1] /\ q[1] \in Event
  OBVIOUS
<1>2. \A i, j \in DOMAIN r : j > i <=> j + 1 > i + 1
  BY <1>1
<1>3. \A i, j \in DOMAIN q : i > 1 /\ j > 1 => (j > i <=> j - 1 > i - 1)
  BY <1>1
<1>4. \A i, j \in DOMAIN q : i > 1 /\ j > i => j > 1
  BY <1>1
<1> HIDE DEF r
<1>5. Waits(q, K) <=> Waits(r, K) \/ Head(q).kind \in K
  BY <1>1 DEF Waits
<1>6. LastWord(q, k, K) <=> LastWord(r, k, K) \/ (Head(q).kind = k /\ ~Waits(r, K))
  <2>1. ASSUME LastWord(q, k, K)
        PROVE  LastWord(r, k, K) \/ (Head(q).kind = k /\ ~Waits(r, K))
    <3>1. PICK i \in DOMAIN q : /\ q[i].kind = k
                               /\ \A j \in DOMAIN q : j > i => q[j].kind \notin K
      BY <2>1 DEF LastWord
    <3>2. CASE i = 1
      BY <1>1, <3>1, <3>2 DEF Waits
    <3>3. CASE i > 1
      <4>1. i - 1 \in DOMAIN r /\ r[i - 1].kind = k
        BY <1>1, <3>1, <3>3
      <4>2. ASSUME NEW j \in DOMAIN r, j > i - 1 PROVE r[j].kind \notin K
        BY <1>1, <3>1, <4>2
      <4>3. QED
        BY <4>1, <4>2 DEF LastWord
    <3>4. QED
      BY <1>1, <3>2, <3>3
  <2>2. ASSUME LastWord(r, k, K) PROVE LastWord(q, k, K)
    <3>1. PICK i \in DOMAIN r : /\ r[i].kind = k
                               /\ \A j \in DOMAIN r : j > i => r[j].kind \notin K
      BY <2>2 DEF LastWord
    <3>2. i + 1 \in DOMAIN q /\ q[i + 1].kind = k
      BY <1>1, <3>1
    <3>3. ASSUME NEW j \in DOMAIN q, j > i + 1 PROVE q[j].kind \notin K
      BY <1>1, <3>1, <3>3
    <3>4. QED
      BY <3>2, <3>3 DEF LastWord
  <2>3. ASSUME Head(q).kind = k, ~Waits(r, K) PROVE LastWord(q, k, K)
    BY <1>1, <2>3 DEF LastWord, Waits
  <2>4. QED
    BY <2>1, <2>2, <2>3
<1>7. LastActive(q, n)
         <=> \/ LastActive(r, n)
             \/ /\ Head(q).kind = "active" /\ Head(q).request = n
                /\ ~Waits(r, {"active"})
  <2>1. ASSUME LastActive(q, n)
        PROVE  \/ LastActive(r, n)
               \/ /\ Head(q).kind = "active" /\ Head(q).request = n
                  /\ ~Waits(r, {"active"})
    <3>1. PICK i \in DOMAIN q : /\ q[i].kind = "active" /\ q[i].request = n
                               /\ \A j \in DOMAIN q : j > i => q[j].kind # "active"
      BY <2>1 DEF LastActive
    <3>2. CASE i = 1
      BY <1>1, <3>1, <3>2 DEF Waits
    <3>3. CASE i > 1
      <4>1. i - 1 \in DOMAIN r /\ r[i - 1].kind = "active" /\ r[i - 1].request = n
        BY <1>1, <3>1, <3>3
      <4>2. ASSUME NEW j \in DOMAIN r, j > i - 1 PROVE r[j].kind # "active"
        BY <1>1, <3>1, <4>2
      <4>3. QED
        BY <4>1, <4>2 DEF LastActive
    <3>4. QED
      BY <1>1, <3>2, <3>3
  <2>2. ASSUME LastActive(r, n) PROVE LastActive(q, n)
    <3>1. PICK i \in DOMAIN r : /\ r[i].kind = "active" /\ r[i].request = n
                               /\ \A j \in DOMAIN r : j > i => r[j].kind # "active"
      BY <2>2 DEF LastActive
    <3>2. i + 1 \in DOMAIN q /\ q[i + 1].kind = "active" /\ q[i + 1].request = n
      BY <1>1, <3>1
    <3>3. ASSUME NEW j \in DOMAIN q, j > i + 1 PROVE q[j].kind # "active"
      BY <1>1, <3>1, <3>3
    <3>4. QED
      BY <3>2, <3>3 DEF LastActive
  <2>3. ASSUME Head(q).kind = "active", Head(q).request = n, ~Waits(r, {"active"})
        PROVE  LastActive(q, n)
    BY <1>1, <2>3 DEF LastActive, Waits
  <2>4. QED
    BY <2>1, <2>2, <2>3
<1>8. QED
  BY <1>1, <1>5, <1>6, <1>7 DEF r

(* "ended" and "finished" stay together.                                    *)
LEMMA PairsStayTogether ==
    ASSUME NEW q \in Seq(Event), EndedThenFinished(q), NEW e \in Event
    PROVE  /\ e.kind # "ended" => EndedThenFinished(Append(q, e))
           /\ e.kind = "finished"
                 => EndedThenFinished(Append(Append(q, Signal("ended", 0)), e))
           /\ q # <<>> => EndedThenFinished(Tail(q))
           /\ q # <<>> /\ Head(q).kind = "ended" => Waits(Tail(q), {"finished"})
<1>1. Len(q) \in Nat /\ DOMAIN q = 1..Len(q)
  OBVIOUS
<1>2. ASSUME e.kind # "ended" PROVE EndedThenFinished(Append(q, e))
  BY <1>1, <1>2 DEF EndedThenFinished
<1>3. ASSUME e.kind = "finished"
      PROVE  EndedThenFinished(Append(Append(q, Signal("ended", 0)), e))
  <2> DEFINE a == Signal("ended", 0)
             p == Append(q, a)
             r == Append(p, e)
  <2>1. a \in Event
    BY DEF Signal, Event
  <2>2. p \in Seq(Event) /\ Len(p) = Len(q) + 1 /\ \A i \in DOMAIN q : p[i] = q[i]
    BY <1>1, <2>1
  <2> HIDE DEF p, a
  <2>3. /\ DOMAIN r = 1..(Len(q) + 2) /\ r[Len(q) + 2] = e
        /\ \A i \in DOMAIN q : r[i] = q[i]
    BY <1>1, <2>2
  <2> HIDE DEF r
  <2>4. ASSUME NEW i \in DOMAIN r, r[i].kind = "ended"
        PROVE  i + 1 \in DOMAIN r /\ r[i + 1].kind = "finished"
    BY <1>1, <1>3, <2>3, <2>4 DEF EndedThenFinished
  <2>5. QED
    BY <2>4 DEF EndedThenFinished, r, p, a
<1>4. ASSUME q # <<>> PROVE EndedThenFinished(Tail(q))
  <2> DEFINE r == Tail(q)
  <2>1. /\ \A i \in DOMAIN r : i + 1 \in DOMAIN q /\ r[i] = q[i + 1]
        /\ \A i \in DOMAIN r : (i + 1) + 1 \in DOMAIN q
                                => i + 1 \in DOMAIN r /\ r[i + 1] = q[(i + 1) + 1]
    BY <1>1, <1>4
  <2> HIDE DEF r
  <2>2. ASSUME NEW i \in DOMAIN r, r[i].kind = "ended"
        PROVE  i + 1 \in DOMAIN r /\ r[i + 1].kind = "finished"
    BY <2>1, <2>2 DEF EndedThenFinished
  <2>3. QED
    BY <2>2 DEF EndedThenFinished, r
<1>5. ASSUME q # <<>>, Head(q).kind = "ended" PROVE Waits(Tail(q), {"finished"})
  <2>1. 2 \in DOMAIN q /\ q[2].kind = "finished" /\ Tail(q)[1] = q[2] /\ 1 \in DOMAIN Tail(q)
    BY <1>1, <1>5 DEF EndedThenFinished
  <2>2. QED
    BY <2>1 DEF Waits
<1>6. QED
  BY <1>2, <1>3, <1>4, <1>5

(* What two signals at the end change.                                      *)
LEMMA AppendedTwo ==
    ASSUME NEW q \in Seq(Event), NEW a \in Event, NEW b \in Event
    PROVE  /\ q \o <<a, b>> = Append(Append(q, a), b)
           /\ q \o <<a, b>> \in Seq(Event)
           /\ \A K : Waits(q \o <<a, b>>, K) <=> Waits(q, K) \/ a.kind \in K \/ b.kind \in K
           /\ \A k, K :
                 LastWord(q \o <<a, b>>, k, K)
                     <=> \/ b.kind = k
                         \/ /\ b.kind \notin K
                            /\ a.kind = k \/ (LastWord(q, k, K) /\ a.kind \notin K)
<1> DEFINE r == Append(q, a)
<1>1. q \o <<a, b>> = Append(r, b)
  OBVIOUS
<1>2. r \in Seq(Event) /\ Append(r, b) \in Seq(Event)
  OBVIOUS
<1>3. ASSUME NEW k, NEW K
      PROVE  /\ Waits(r, K) <=> Waits(q, K) \/ a.kind \in K
             /\ LastWord(r, k, K) <=> a.kind = k \/ (LastWord(q, k, K) /\ a.kind \notin K)
  BY AppendedSignal
<1> HIDE DEF r
<1>4. ASSUME NEW k, NEW K
      PROVE  /\ Waits(Append(r, b), K) <=> Waits(r, K) \/ b.kind \in K
             /\ LastWord(Append(r, b), k, K)
                    <=> b.kind = k \/ (LastWord(r, k, K) /\ b.kind \notin K)
  BY <1>2, AppendedSignal
<1>5. ASSUME NEW K
      PROVE  Waits(q \o <<a, b>>, K) <=> Waits(q, K) \/ a.kind \in K \/ b.kind \in K
  BY <1>1, <1>3, <1>4
<1>6. ASSUME NEW k, NEW K
      PROVE  LastWord(q \o <<a, b>>, k, K)
                 <=> \/ b.kind = k
                     \/ /\ b.kind \notin K
                        /\ a.kind = k \/ (LastWord(q, k, K) /\ a.kind \notin K)
  BY <1>1, <1>3, <1>4
<1>7. QED
  <2>1. q \o <<a, b>> = Append(Append(q, a), b) /\ q \o <<a, b>> \in Seq(Event)
    BY <1>1, <1>2 DEF r
  <2>2. QED
    BY <2>1, <1>5, <1>6

LEMMA AppendedTwoActive ==
    ASSUME NEW q \in Seq(Event), NEW a \in Event, NEW b \in Event, NEW n,
           a.kind # "active", b.kind # "active"
    PROVE  LastActive(q \o <<a, b>>, n) <=> LastActive(q, n)
<1> DEFINE r == Append(q, a)
<1>1. q \o <<a, b>> = Append(r, b) /\ r \in Seq(Event)
  BY AppendedTwo
<1>2. LastActive(r, n) <=> LastActive(q, n)
  BY AppendedSignal
<1> HIDE DEF r
<1>3. LastActive(Append(r, b), n) <=> LastActive(r, n)
  BY <1>1, AppendedSignal
<1>4. QED
  BY <1>1, <1>2, <1>3

-----------------------------------------------------------------------------
(* Types                                                                    *)

LEMMA SignalTypes ==
    /\ \A k \in {"error", "queue", "active", "heard", "listening", "ended", "finished"} :
          \A n \in Nat : /\ Signal(k, n) \in Event
                        /\ Signal(k, n).kind = k /\ Signal(k, n).request = n
BY DEF Signal, Event

LEMMA TypesInit == Init => TypeOK
<1> SUFFICES ASSUME Init PROVE TypeOK
  OBVIOUS
<1>1. micEnabled \in BOOLEAN /\ camStop \in BOOLEAN /\ micStop \in BOOLEAN
  BY DEF Init
<1>2. events \in Seq(Event) /\ gui = "idle" /\ cam = "loading" /\ mic = "off"
  BY DEF Init
<1>3. requested = 0 /\ unsaved = 0 /\ shown = 0 /\ queued = 0 /\ pending = 0
      /\ taken = 0 /\ detector = Unloaded /\ starts = 0
  BY DEF Init, Default
<1>4. preview \in {"Pause", "Resume"} /\ micLabel \in {"Pause", "Resume"}
  BY DEF Init
<1>5. QED
  BY <1>1, <1>2, <1>3, <1>4, DesktopVideoAssumption DEF TypeOK

LEMMA QueueKept == TypeOK /\ Next => events' \in Seq(Event)
<1> SUFFICES ASSUME TypeOK, Next PROVE events' \in Seq(Event)
  OBVIOUS
<1>1. events \in Seq(Event) /\ taken \in Nat
  BY DEF TypeOK
<1>2. \A kind \in {"error", "queue", "heard", "listening"} :
          Emit(kind) => events' \in Seq(Event)
  BY <1>1, SignalTypes DEF Emit
<1>3. \A kind : Handle(kind) => events' \in Seq(Event)
  BY <1>1, HandledSignal DEF Handle
<1>4. CASE CameraThread
  <2>1. CASE SwitchClasses
    <3>1. Append(events, Signal("active", taken)) \in Seq(Event)
      BY <1>1, SignalTypes
    <3>2. QED
      BY <1>2, <2>1, <3>1 DEF SwitchClasses
  <2>2. CASE LoadModel \/ ReadFrame \/ TakeClasses \/ AnnounceTaken \/ Predict \/ LeaveCamera
    BY <1>1, <1>2, <2>2 DEF LoadModel, ReadFrame, TakeClasses, AnnounceTaken, Predict,
       LeaveCamera
  <2>3. QED
    BY <1>4, <2>1, <2>2 DEF CameraThread
<1>5. CASE WhisperThread
  <2>1. CASE LeaveMicrophone
    BY <1>1, <2>1, SignalTypes, AppendedTwo DEF LeaveMicrophone
  <2>2. CASE OpenMicrophone \/ Transcribe \/ StopListening
    BY <1>1, <1>2, <2>2 DEF OpenMicrophone, Transcribe, StopListening
  <2>3. QED
    BY <1>5, <2>1, <2>2 DEF WhisperThread
<1>6. CASE Click
  BY <1>1, <1>6 DEF Click, SubmitCommand, SubmitUnknown, PausePreview, ResumePreview,
                   PauseMicrophone, ResumeMicrophone, CloseWindow
<1>7. CASE EventLoop
  BY <1>1, <1>3, <1>7 DEF EventLoop, ShowKeywordQueue, PreviewStopped, ShowVideoError,
     HandleQueueChanged, ShowActiveClasses, ReceiveTranscript, WhisperFinished,
     ShowWhisperStatus, CloseWhisper, WindowClosed
<1>8. QED
  BY <1>4, <1>5, <1>6, <1>7 DEF Next

LEMMA FlagsKept ==
    TypeOK /\ Next =>
        micEnabled' \in BOOLEAN /\ camStop' \in BOOLEAN /\ micStop' \in BOOLEAN
<1> SUFFICES ASSUME TypeOK, Next
             PROVE  micEnabled' \in BOOLEAN /\ camStop' \in BOOLEAN /\ micStop' \in BOOLEAN
  OBVIOUS
<1>1. micEnabled \in BOOLEAN /\ camStop \in BOOLEAN /\ micStop \in BOOLEAN
  BY DEF TypeOK
<1>2. CASE CameraThread \/ WhisperThread
  BY <1>1, <1>2 DEF CameraThread, LoadModel, ReadFrame, TakeClasses,
     AnnounceTaken, SwitchClasses, Predict, LeaveCamera, WhisperThread,
     OpenMicrophone, Transcribe, StopListening, LeaveMicrophone, CameraKeeps, MicKeeps, window, whisper, camera
<1>3. CASE Click
  BY <1>1, <1>3 DEF Click, SubmitCommand, SubmitUnknown, PausePreview, ResumePreview,
     PauseMicrophone, ResumeMicrophone, CloseWindow, window, whisper, camera
<1>4. CASE EventLoop
  BY <1>1, <1>4 DEF EventLoop, ShowKeywordQueue, PreviewStopped, ShowVideoError,
     HandleQueueChanged, ShowActiveClasses, ReceiveTranscript, WhisperFinished,
     ShowWhisperStatus, CloseWhisper, WindowClosed, window, whisper, camera
<1>5. QED
  BY <1>2, <1>3, <1>4 DEF Next

LEMMA TypesKept == TypeOK /\ Next => TypeOK'
<1> SUFFICES ASSUME TypeOK, Next PROVE TypeOK'
  OBVIOUS
<1> USE DEF Next, CameraThread, LoadModel, ReadFrame, TakeClasses,
     AnnounceTaken, SwitchClasses, Predict, LeaveCamera, WhisperThread,
     OpenMicrophone, Transcribe, StopListening, LeaveMicrophone, CameraKeeps, MicKeeps, window, instructions, camera, whisper,
     Click, SubmitCommand, SubmitUnknown, PausePreview, ResumePreview,
     PauseMicrophone, ResumeMicrophone, CloseWindow, ApplyInstruction,
     EventLoop, ShowKeywordQueue, PreviewStopped, ShowVideoError,
     HandleQueueChanged, ReceiveTranscript, WhisperFinished,
     ShowWhisperStatus, CloseWhisper, WindowClosed
<1>1. gui' \in {"idle", "showing", "stopping", "closing", "closingMic", "closed"}
  BY DEF TypeOK, ShowActiveClasses
<1>2. requested' \in Nat /\ unsaved' \in 0..requested' /\ pending' \in Nat
  BY DEF TypeOK, ShowActiveClasses
<1>3. shown' \in Nat /\ queued' \in Nat
  <2>1. CASE ShowActiveClasses
    <3>1. Head(events) \in Event
      BY <2>1, HandledSignal DEF ShowActiveClasses, Handle, TypeOK
    <3>2. Head(events).request \in Nat
      BY <3>1 DEF Event
    <3>3. QED
      BY <2>1, <3>2 DEF ShowActiveClasses, TypeOK
  <2>2. CASE ~ShowActiveClasses
    BY <2>2 DEF TypeOK
  <2>3. QED
    BY <2>1, <2>2
<1>4. preview' \in {"Pause", "Resume"} /\ micLabel' \in {"Pause", "Resume"}
  BY DEF TypeOK, ShowActiveClasses
<1>5. /\ cam' \in {"off", "loading", "leaving"} \cup InLoop
      /\ taken' \in Nat /\ detector' \in Nat \cup {Unloaded}
  BY DEF TypeOK, InLoop, Default, Unloaded, ShowActiveClasses
<1>6. mic' \in {"off", "loading", "listening", "leaving"} /\ starts' \in 0..MaxStarts
  BY DesktopVideoAssumption DEF TypeOK, ShowActiveClasses
<1>7. QED
  BY <1>1, <1>2, <1>3, <1>4, <1>5, <1>6, QueueKept, FlagsKept DEF TypeOK

-----------------------------------------------------------------------------
(* How the actions change the queue                                         *)

LEMMA Emitted ==
    ASSUME TypeOK, NEW kind \in {"error", "queue", "heard", "listening"}, Emit(kind),
           NEW k, NEW K, NEW n
    PROVE  /\ Waits(events', K) <=> Waits(events, K) \/ kind \in K
           /\ LastWord(events', k, K)
                  <=> kind = k \/ (LastWord(events, k, K) /\ kind \notin K)
           /\ LastActive(events', n) <=> LastActive(events, n)
           /\ EndedThenFinished(events) => EndedThenFinished(events')
<1>1. /\ Signal(kind, 0) \in Event /\ Signal(kind, 0).kind = kind
      /\ kind # "active" /\ kind # "ended"
      /\ events \in Seq(Event) /\ events' = Append(events, Signal(kind, 0))
  BY SignalTypes DEF Emit, TypeOK
<1>2. /\ Waits(events', K) <=> Waits(events, K) \/ kind \in K
      /\ LastWord(events', k, K)
             <=> kind = k \/ (LastWord(events, k, K) /\ kind \notin K)
      /\ LastActive(events', n) <=> LastActive(events, n)
  BY <1>1, AppendedSignal
<1>3. EndedThenFinished(events) => EndedThenFinished(events')
  BY <1>1, PairsStayTogether
<1>4. QED
  BY <1>2, <1>3

LEMMA Handled ==
    ASSUME TypeOK, NEW kind, Handle(kind), NEW k, NEW K, NEW n
    PROVE  /\ Waits(events, K) <=> Waits(events', K) \/ kind \in K
           /\ LastWord(events, k, K)
                  <=> LastWord(events', k, K) \/ (kind = k /\ ~Waits(events', K))
           /\ LastActive(events, n)
                  <=> \/ LastActive(events', n)
                      \/ /\ kind = "active" /\ Head(events).request = n
                         /\ ~Waits(events', {"active"})
           /\ EndedThenFinished(events) =>
                  /\ EndedThenFinished(events')
                  /\ kind = "ended" => Waits(events', {"finished"})
<1>1. /\ events \in Seq(Event) /\ events # <<>> /\ events' = Tail(events)
      /\ Head(events).kind = kind
  BY DEF Handle, TypeOK
<1>2. Head(events) \in Event
  BY <1>1, HandledSignal
<1>3. QED
  BY <1>1, <1>2, HandledSignal, PairsStayTogether

-----------------------------------------------------------------------------
(* The camera and its button                                                *)

LEMMA CameraKept == TypeOK /\ CameraIInv /\ Next => CameraIInv'
<1> SUFFICES ASSUME TypeOK, CameraIInv, Next PROVE CameraIInv'
  OBVIOUS
<1> DEFINE W == Waits(events, {"error"})
<1>1. ASSUME NEW kind \in {"error", "queue", "heard", "listening"}, Emit(kind)
      PROVE  (W => W') /\ (kind = "error" => W')
  BY <1>1, Emitted
<1>2. ASSUME NEW kind, Handle(kind), kind # "error" PROVE W => W'
  BY <1>2, Handled
<1>3. CASE CameraThread
  <2>1. /\ CameraKeeps /\ cam # "off"
        /\ cam' \in {"leaving", "off"} => W' \/ camStop \/ cam = "leaving"
        /\ cam = "leaving" => cam' = "off" /\ events' = events
    BY <1>1, <1>3 DEF CameraThread, LoadModel, ReadFrame, TakeClasses, AnnounceTaken,
       SwitchClasses, Predict, LeaveCamera
  <2>2. /\ preview' = preview /\ gui' = gui /\ camStop' = camStop
    BY <2>1 DEF CameraKeeps, window
  <2>3. preview = "Pause"
    BY <2>1 DEF CameraIInv, TypeOK
  <2>4. QED
    BY <2>1, <2>2, <2>3 DEF CameraIInv
<1>4. CASE WhisperThread
  <2>1. MicKeeps /\ (W => W')
    <3>1. CASE LeaveMicrophone
      <4>1. /\ Signal("ended", 0) \in Event /\ Signal("finished", 0) \in Event
            /\ events \in Seq(Event)
        BY SignalTypes DEF TypeOK
      <4>2. QED
        BY <3>1, <4>1, AppendedTwo DEF LeaveMicrophone
    <3>2. CASE OpenMicrophone \/ Transcribe \/ StopListening
      BY <1>1, <3>2 DEF OpenMicrophone, Transcribe, StopListening
    <3>3. QED
      BY <1>4, <3>1, <3>2 DEF WhisperThread
  <2>2. QED
    BY <2>1 DEF CameraIInv, MicKeeps, window, camera
<1>5. CASE Click
  <2>1. CASE PausePreview \/ CloseWindow
    BY <2>1 DEF PausePreview, CloseWindow, CameraIInv, window
  <2>2. CASE ResumePreview
    <3>1. camStop' = FALSE /\ cam' = "loading" /\ preview' = "Pause"
      BY <2>2 DEF ResumePreview
    <3>2. QED
      BY <3>1 DEF CameraIInv
  <2>3. CASE SubmitCommand \/ SubmitUnknown \/ PauseMicrophone \/ ResumeMicrophone
    <3>1. /\ preview' = preview /\ cam' = cam /\ camStop' = camStop /\ events' = events
          /\ gui = "idle"
      BY <2>3 DEF SubmitCommand, SubmitUnknown, PauseMicrophone, ResumeMicrophone,
                  ApplyInstruction, window, camera
    <3>2. QED
      BY <3>1 DEF CameraIInv
  <2>4. QED
    BY <1>5, <2>1, <2>2, <2>3 DEF Click
<1>6. CASE EventLoop
  <2>1. CASE PreviewStopped
    BY <2>1 DEF PreviewStopped, CameraIInv, camera
  <2>2. CASE ShowVideoError
    BY <2>2 DEF ShowVideoError, CameraIInv, window
  <2>3. CASE ShowKeywordQueue
    BY <2>3 DEF ShowKeywordQueue, CameraIInv, camera
  <2>4. CASE CloseWhisper \/ WindowClosed
    BY <2>4 DEF CloseWhisper, WindowClosed, CameraIInv, window, camera
  <2>5. CASE HandleQueueChanged \/ ShowActiveClasses \/ ReceiveTranscript
             \/ WhisperFinished \/ ShowWhisperStatus
    <3>1. /\ preview' = preview /\ cam' = cam /\ camStop' = camStop /\ gui = "idle"
          /\ \E kind : Handle(kind) /\ kind # "error"
      BY <2>5 DEF HandleQueueChanged, ShowActiveClasses, ReceiveTranscript, WhisperFinished,
         ShowWhisperStatus, Handle, window, camera
    <3>2. W => W'
      BY <1>2, <3>1
    <3>3. QED
      BY <3>1, <3>2 DEF CameraIInv
  <2>6. QED
    BY <1>6, <2>1, <2>2, <2>3, <2>4, <2>5 DEF EventLoop
<1>7. QED
  BY <1>3, <1>4, <1>5, <1>6 DEF Next

-----------------------------------------------------------------------------
(* The microphone and its button                                            *)

MicOver == {"ended", "finished"}

(* What MicIInv says of the queue survives the signals that are not about   *)
(* the microphone.                                                          *)
OthersKeepMic ==
    /\ EndedThenFinished(events) => EndedThenFinished(events')
    /\ LastWord(events, "listening", MicOver) <=> LastWord(events', "listening", MicOver)
    /\ Waits(events, MicOver) <=> Waits(events', MicOver)
    /\ LastWord(events, "finished", {"listening"}) <=> LastWord(events', "finished", {"listening"})
    /\ Waits(events, {"listening"}) <=> Waits(events', {"listening"})
    /\ Waits(events, {"finished"}) <=> Waits(events', {"finished"})

LEMMA OtherSignals ==
    ASSUME TypeOK, Next
    PROVE  /\ CameraThread => OthersKeepMic
           /\ \A kind \in {"error", "queue", "heard"} : Emit(kind) => OthersKeepMic
           /\ \A kind : /\ Handle(kind)
                        /\ kind \notin {"listening", "ended", "finished"}
                        => OthersKeepMic
           /\ events' = events => OthersKeepMic
<1>1. ASSUME NEW kind \in {"error", "queue", "heard"}, Emit(kind) PROVE OthersKeepMic
  BY <1>1, Emitted DEF OthersKeepMic, MicOver
<1>2. ASSUME NEW kind, Handle(kind), kind \notin {"listening", "ended", "finished"}
      PROVE  OthersKeepMic
  BY <1>2, Handled DEF OthersKeepMic, MicOver
<1>3. events' = events => OthersKeepMic
  BY DEF OthersKeepMic
<1>4. ASSUME CameraThread PROVE OthersKeepMic
  <2>1. CASE SwitchClasses
    <3>1. ASSUME NEW e \in Event, e.kind = "active", events' = Append(events, e)
          PROVE  OthersKeepMic
      <4>1. events \in Seq(Event)
        BY DEF TypeOK
      <4>2. EndedThenFinished(events) => EndedThenFinished(events')
        BY <3>1, <4>1, PairsStayTogether
      <4>3. \A K : "active" \notin K => (Waits(events, K) <=> Waits(events', K))
        BY <3>1, <4>1, AppendedSignal
      <4>4. \A k, K : k # "active" /\ "active" \notin K
                    => (LastWord(events, k, K) <=> LastWord(events', k, K))
        BY <3>1, <4>1, AppendedSignal
      <4>5. QED
        BY <4>2, <4>3, <4>4 DEF OthersKeepMic, MicOver
    <3>2. Signal("active", taken) \in Event /\ Signal("active", taken).kind = "active"
      BY SignalTypes DEF TypeOK
    <3>3. QED
      BY <1>1, <2>1, <3>1, <3>2 DEF SwitchClasses
  <2>2. CASE LoadModel \/ ReadFrame \/ TakeClasses \/ AnnounceTaken \/ Predict \/ LeaveCamera
    BY <1>1, <1>3, <2>2 DEF LoadModel, ReadFrame, TakeClasses, AnnounceTaken, Predict,
       LeaveCamera
  <2>3. QED
    BY <1>4, <2>1, <2>2 DEF CameraThread
<1>5. QED
  BY <1>1, <1>2, <1>3, <1>4

LEMMA MicKept == TypeOK /\ MicIInv /\ Next => MicIInv'
<1> SUFFICES ASSUME TypeOK, MicIInv, Next PROVE MicIInv'
  OBVIOUS
<1>1. ASSUME OthersKeepMic, mic' = mic, micStop' = micStop, micLabel' = micLabel,
             micEnabled' = micEnabled
      PROVE  MicIInv'
  BY <1>1 DEF MicIInv, OthersKeepMic, MicOver
<1>2. CASE CameraThread
  BY <1>1, <1>2, OtherSignals DEF CameraThread, LoadModel, ReadFrame, TakeClasses,
     AnnounceTaken, SwitchClasses, Predict, LeaveCamera, CameraKeeps, window, whisper
<1>3. CASE WhisperThread
  <2>1. MicKeeps /\ micStop' = micStop /\ micLabel' = micLabel /\ micEnabled' = micEnabled
    BY <1>3 DEF WhisperThread, OpenMicrophone, Transcribe, StopListening, LeaveMicrophone,
       MicKeeps, window
  <2>2. CASE OpenMicrophone
    <3>1. CASE Emit("listening")
      <4>1. mic' = "listening" /\ mic # "off"
        BY <2>2, <3>1 DEF OpenMicrophone, Emit
      <4>2. /\ EndedThenFinished(events')
            /\ LastWord(events', "listening", MicOver)
            /\ Waits(events, {"finished"}) => Waits(events', {"finished"})
        BY <3>1, Emitted DEF MicIInv
      <4>3. QED
        BY <2>1, <4>1, <4>2 DEF MicIInv, MicOver
    <3>2. CASE mic' = "leaving" /\ UNCHANGED events
      BY <2>1, <2>2, <3>2 DEF MicIInv, OpenMicrophone
    <3>3. QED
      BY <2>2, <3>1, <3>2 DEF OpenMicrophone
  <2>3. CASE Transcribe
    BY <1>1, <2>1, <2>3, OtherSignals DEF Transcribe
  <2>4. CASE StopListening
    BY <2>1, <2>4 DEF StopListening, MicIInv
  <2>5. CASE LeaveMicrophone
    <3> DEFINE a == Signal("ended", 0)
               b == Signal("finished", 0)
    <3>1. /\ a \in Event /\ b \in Event /\ a.kind = "ended" /\ b.kind = "finished"
          /\ events \in Seq(Event) /\ events' = events \o <<a, b>> /\ mic' = "off"
      BY <2>5, SignalTypes DEF TypeOK, LeaveMicrophone
    <3>2. events' = Append(Append(events, a), b)
      BY <3>1, AppendedTwo
    <3>3. EndedThenFinished(events')
      BY <3>1, <3>2, PairsStayTogether DEF MicIInv
    <3> HIDE DEF a, b
    <3>4. /\ LastWord(events \o <<a, b>>, "finished", {"listening"})
          /\ Waits(events \o <<a, b>>, {"finished"})
      BY <3>1, AppendedTwo
    <3>5. QED
      BY <3>1, <3>3, <3>4 DEF MicIInv
  <2>6. QED
    BY <1>3, <2>2, <2>3, <2>4, <2>5 DEF WhisperThread
<1>4. CASE Click
  <2>1. OthersKeepMic /\ events' = events
    BY <1>4, OtherSignals DEF Click, SubmitCommand, SubmitUnknown, PausePreview, ResumePreview,
       PauseMicrophone, ResumeMicrophone, CloseWindow
  <2>2. CASE PauseMicrophone
    BY <2>1, <2>2 DEF PauseMicrophone, MicIInv
  <2>3. CASE ResumeMicrophone
    <3>1. micEnabled /\ micEnabled' = micEnabled /\ mic' = "loading"
      BY <2>3 DEF ResumeMicrophone
    <3>2. QED
      BY <2>1, <3>1 DEF MicIInv
  <2>4. CASE SubmitCommand \/ SubmitUnknown \/ PausePreview \/ ResumePreview \/ CloseWindow
    BY <1>1, <2>1, <2>4 DEF SubmitCommand, SubmitUnknown, PausePreview, ResumePreview,
       CloseWindow, window, whisper
  <2>5. QED
    BY <1>4, <2>2, <2>3, <2>4 DEF Click
<1>5. CASE EventLoop
  <2>1. CASE WhisperFinished
    <3>1. /\ micLabel' = "Resume" /\ micEnabled' = TRUE /\ Handle("finished")
          /\ mic' = mic /\ micStop' = micStop
      BY <2>1 DEF WhisperFinished, whisper
    <3>2. /\ EndedThenFinished(events')
          /\ LastWord(events, "listening", MicOver) => LastWord(events', "listening", MicOver)
          /\ Waits(events, MicOver)
          /\ LastWord(events, "finished", {"listening"})
                => \/ LastWord(events', "finished", {"listening"})
                   \/ ~Waits(events', {"listening"})
          /\ Waits(events', {"listening"}) => Waits(events, {"listening"})
      BY <3>1, Handled DEF MicOver, MicIInv
    <3>3. micEnabled'
      BY <3>1
    <3>4. QED
      BY <3>1, <3>2, <3>3 DEF MicIInv, MicOver
  <2>2. CASE Handle("listening") /\ ShowWhisperStatus
    <3>0. ~Handle("ended")
      BY <2>2 DEF Handle
    <3>1. micLabel' = "Pause" /\ micEnabled' = micEnabled /\ mic' = mic /\ micStop' = micStop
      BY <2>2, <3>0 DEF ShowWhisperStatus, whisper
    <3>2. /\ EndedThenFinished(events')
          /\ LastWord(events, "listening", MicOver)
                => LastWord(events', "listening", MicOver) \/ ~Waits(events', MicOver)
          /\ Waits(events', MicOver) => Waits(events, MicOver)
          /\ LastWord(events, "finished", {"listening"})
                => LastWord(events', "finished", {"listening"})
          /\ Waits(events, {"listening"})
          /\ Waits(events, {"finished"}) => Waits(events', {"finished"})
      BY <2>2, Handled DEF MicOver, MicIInv
    <3>3. QED
      BY <3>1, <3>2 DEF MicIInv, MicOver
  <2>3. CASE Handle("ended") /\ ShowWhisperStatus
    <3>0. ~Handle("listening")
      BY <2>3 DEF Handle
    <3>1. micLabel' = "Resume" /\ micEnabled' = FALSE /\ mic' = mic /\ micStop' = micStop
      BY <2>3, <3>0 DEF ShowWhisperStatus, whisper
    <3>2. /\ EndedThenFinished(events') /\ Waits(events', {"finished"})
          /\ LastWord(events, "listening", MicOver)
                => LastWord(events', "listening", MicOver)
          /\ Waits(events, MicOver)
          /\ LastWord(events, "finished", {"listening"})
                => LastWord(events', "finished", {"listening"})
          /\ Waits(events', {"listening"}) => Waits(events, {"listening"})
      BY <2>3, Handled DEF MicOver, MicIInv
    <3>3. QED
      BY <3>1, <3>2 DEF MicIInv, MicOver
  <2>4. CASE ShowVideoError \/ HandleQueueChanged \/ ShowActiveClasses \/ ReceiveTranscript
    BY <1>1, <2>4, OtherSignals DEF ShowVideoError, HandleQueueChanged, ShowActiveClasses,
       ReceiveTranscript, window, whisper
  <2>5. CASE CloseWhisper
    BY <2>5 DEF CloseWhisper, MicIInv, window
  <2>6. CASE ShowKeywordQueue \/ PreviewStopped \/ WindowClosed
    BY <1>1, <2>6, OtherSignals DEF ShowKeywordQueue, PreviewStopped, WindowClosed,
       window, whisper
  <2>7. QED
    BY <1>5, <2>1, <2>2, <2>3, <2>4, <2>5, <2>6 DEF EventLoop, ShowWhisperStatus
<1>6. QED
  BY <1>2, <1>3, <1>4, <1>5 DEF Next

-----------------------------------------------------------------------------
(* What the labels say of the classes                                       *)

LEMMA LabelKept == TypeOK /\ LabelIInv /\ Next => LabelIInv'
<1> SUFFICES ASSUME TypeOK, LabelIInv, Next PROVE LabelIInv'
  OBVIOUS
<1> DEFINE Waiting == \/ gui = "showing" \/ queued \in {0, pending} \/ cam = "announcing"
                      \/ Waits(events, {"queue"})
           Active == cam \in InLoop /\ detector # Default =>
                        \/ LastActive(events, detector)
                        \/ shown = detector /\ ~Waits(events, {"active"})
<1>1. Waiting /\ Active
  BY DEF LabelIInv
<1>2. SUFFICES Waiting' /\ Active'
  BY DEF LabelIInv
(* A signal of another kind at the end, or none, changes neither.           *)
<1> DEFINE Same == /\ Waits(events, {"queue"}) <=> Waits(events', {"queue"})
                   /\ Waits(events, {"active"}) <=> Waits(events', {"active"})
                   /\ \A n : LastActive(events, n) <=> LastActive(events', n)
<1>3. \A kind \in {"error", "heard", "listening"} : Emit(kind) => Same
  BY Emitted
<1>4. UNCHANGED events => Same
  OBVIOUS
<1>5. ASSUME NEW kind, Handle(kind), kind \notin {"queue", "active"} PROVE Same
  BY <1>5, Handled
<1> HIDE DEF Same
<1>6. ASSUME Same, UNCHANGED <<pending, queued, shown, detector>>,
             gui = "showing" => gui' = gui,
             cam = "announcing" => cam' = cam, cam' \in InLoop => cam \in InLoop
      PROVE  Waiting' /\ Active'
  BY <1>1, <1>6 DEF Same
<1>7. CASE CameraThread
  <2>1. UNCHANGED <<gui, queued, shown>>
    BY <1>7 DEF CameraThread, LoadModel, ReadFrame, TakeClasses,
       AnnounceTaken, SwitchClasses, Predict, LeaveCamera, CameraKeeps, window
  <2>2. CASE LoadModel
    <3>1. Same /\ pending' = pending /\ cam # "announcing"
          /\ (cam' \in InLoop => detector' = Default)
      BY <1>3, <1>4, <2>2 DEF LoadModel, InLoop
    <3>2. QED
      BY <1>1, <2>1, <3>1 DEF Same
  <2>3. CASE ReadFrame \/ Predict \/ LeaveCamera
    <3>1. /\ Same /\ UNCHANGED pending
          /\ cam # "announcing"
          /\ cam' \in InLoop => cam \in InLoop /\ detector' = detector
      BY <1>3, <1>4, <2>3 DEF ReadFrame, Predict, LeaveCamera, InLoop
    <3>2. QED
      BY <1>1, <2>1, <3>1 DEF Same
  <2>4. CASE TakeClasses
    <3>1. /\ Same /\ detector' = detector /\ cam \in InLoop /\ cam # "announcing"
          /\ cam' = "announcing" \/ pending' = pending
      BY <1>4, <2>4 DEF TakeClasses, InLoop
    <3>2. QED
      BY <1>1, <2>1, <3>1 DEF Same
  <2>5. CASE AnnounceTaken
    <3>1. /\ Emit("queue") /\ UNCHANGED <<pending, detector>> /\ cam \in InLoop
      BY <2>5 DEF AnnounceTaken, InLoop
    <3>2. /\ Waits(events', {"queue"})
          /\ Waits(events, {"active"}) <=> Waits(events', {"active"})
          /\ \A n : LastActive(events, n) <=> LastActive(events', n)
      BY <3>1, Emitted
    <3>3. QED
      BY <1>1, <2>1, <3>1, <3>2
  <2>6. CASE SwitchClasses
    <3> DEFINE as == Signal("active", taken)
    <3>1. /\ as \in Event /\ events \in Seq(Event) /\ as.kind = "active" /\ as.request = taken
      BY SignalTypes DEF TypeOK
    <3>2. /\ cam = "switching" /\ UNCHANGED pending
          /\ \/ events' = Append(events, as) /\ detector' = taken
             \/ Emit("error") /\ cam' = "leaving"
      BY <2>6 DEF SwitchClasses
    <3> HIDE DEF as
    <3>3. /\ Waits(events, {"queue"}) <=> Waits(Append(events, as), {"queue"})
          /\ LastActive(Append(events, as), taken)
      BY <3>1, AppendedSignal
    <3>4. Emit("error") => Same
      BY <1>3
    <3>5. QED
      BY <1>1, <2>1, <3>2, <3>3, <3>4 DEF InLoop, Same
  <2>7. QED
    BY <1>7, <2>2, <2>3, <2>4, <2>5, <2>6 DEF CameraThread
<1>8. CASE WhisperThread
  <2>1. MicKeeps
    BY <1>8 DEF WhisperThread, OpenMicrophone, Transcribe, StopListening, LeaveMicrophone
  <2>2. Same
    <3>1. CASE LeaveMicrophone
      <4> DEFINE a == Signal("ended", 0)
                 b == Signal("finished", 0)
      <4>1. /\ a \in Event /\ b \in Event /\ a.kind = "ended" /\ b.kind = "finished"
            /\ events \in Seq(Event) /\ events' = events \o <<a, b>>
        BY <3>1, SignalTypes DEF TypeOK, LeaveMicrophone
      <4> HIDE DEF a, b
      <4>2. \A K : {"ended", "finished"} \cap K = {}
                    => (Waits(events, K) <=> Waits(events \o <<a, b>>, K))
        BY <4>1, AppendedTwo
      <4>3. \A n : LastActive(events, n) <=> LastActive(events \o <<a, b>>, n)
        BY <4>1, AppendedTwoActive
      <4>4. QED
        BY <4>1, <4>2, <4>3 DEF Same
    <3>2. CASE OpenMicrophone \/ Transcribe \/ StopListening
      BY <1>3, <1>4, <3>2 DEF OpenMicrophone, Transcribe, StopListening
    <3>3. QED
      BY <1>8, <3>1, <3>2 DEF WhisperThread
  <2>3. QED
    BY <1>6, <2>1, <2>2 DEF MicKeeps, window, camera
<1>9. CASE Click
  <2>1. UNCHANGED events
    BY <1>9 DEF Click, SubmitCommand, SubmitUnknown, PausePreview, ResumePreview,
       PauseMicrophone, ResumeMicrophone, CloseWindow
  <2>2. CASE SubmitCommand
    <3>1. /\ gui = "idle" /\ (gui' = "showing" \/ pending' = pending)
          /\ UNCHANGED <<queued, shown, detector, cam>>
      BY <2>2 DEF SubmitCommand, ApplyInstruction, window, camera
    <3>2. QED
      BY <1>1, <2>1, <3>1
  <2>3. CASE SubmitUnknown
    <3>1. queued' = 0 /\ UNCHANGED <<shown, detector, cam>>
      BY <2>3 DEF SubmitUnknown, camera
    <3>2. QED
      BY <1>1, <2>1, <3>1
  <2>4. CASE ResumePreview
    <3>1. /\ UNCHANGED <<gui, queued, shown, detector, pending>>
          /\ cam' = "loading" /\ cam = "off"
      BY <2>4 DEF ResumePreview
    <3>2. QED
      BY <1>1, <2>1, <3>1 DEF InLoop
  <2>5. CASE PausePreview \/ PauseMicrophone \/ ResumeMicrophone \/ CloseWindow
    BY <1>4, <1>6, <2>1, <2>5 DEF PausePreview, PauseMicrophone, ResumeMicrophone, CloseWindow,
       window, camera
  <2>6. QED
    BY <1>9, <2>2, <2>3, <2>4, <2>5 DEF Click
<1>10. CASE EventLoop
  <2>1. CASE ShowKeywordQueue
    <3>1. queued' = pending /\ UNCHANGED <<events, shown, detector, cam, pending>>
      BY <2>1 DEF ShowKeywordQueue, camera
    <3>2. QED
      BY <1>1, <3>1
  <2>2. CASE HandleQueueChanged
    <3>1. /\ queued' = pending /\ UNCHANGED <<shown, detector, cam, pending>>
          /\ Handle("queue")
      BY <2>2 DEF HandleQueueChanged, camera
    <3>2. /\ Waits(events', {"active"}) => Waits(events, {"active"})
          /\ LastActive(events, detector) => LastActive(events', detector)
      BY <3>1, Handled
    <3>3. QED
      BY <1>1, <3>1, <3>2
  <2>3. CASE ShowActiveClasses
    <3>1. /\ shown' = Head(events).request
          /\ UNCHANGED <<gui, queued, detector, cam, pending>> /\ Handle("active")
      BY <2>3 DEF ShowActiveClasses, camera
    <3>2. Waits(events, {"queue"}) => Waits(events', {"queue"})
      BY <3>1, Handled
    <3>3. Waits(events, {"active"})
      BY <3>1, Handled
    <3>4. LastActive(events, detector)
             => \/ LastActive(events', detector)
                \/ Head(events).request = detector /\ ~Waits(events', {"active"})
      BY <3>1, Handled
    <3>5. QED
      BY <1>1, <3>1, <3>2, <3>3, <3>4
  <2>4. CASE ReceiveTranscript
    <3>1. /\ Handle("heard") /\ gui = "idle" /\ (gui' = "showing" \/ pending' = pending)
          /\ UNCHANGED <<queued, shown, detector, cam>>
      BY <2>4 DEF ReceiveTranscript, ApplyInstruction, Handle, window, camera
    <3>2. Same
      BY <1>5, <3>1
    <3>3. QED
      BY <1>1, <3>1, <3>2 DEF Same
  <2>5. CASE ShowVideoError \/ WhisperFinished \/ ShowWhisperStatus
    <3>1. /\ Same /\ gui = "idle"
      BY <1>5, <2>5 DEF ShowVideoError, WhisperFinished, ShowWhisperStatus, Handle
    <3>2. UNCHANGED <<queued, shown, detector, cam, pending>>
      BY <2>5 DEF ShowVideoError, WhisperFinished, ShowWhisperStatus, window, camera
    <3>3. QED
      BY <1>6, <3>1, <3>2
  <2>6. CASE PreviewStopped \/ CloseWhisper \/ WindowClosed
    BY <1>4, <1>6, <2>6 DEF PreviewStopped, CloseWhisper, WindowClosed, window, camera
  <2>7. QED
    BY <1>10, <2>1, <2>2, <2>3, <2>4, <2>5, <2>6 DEF EventLoop
<1>11. QED
  BY <1>7, <1>8, <1>9, <1>10 DEF Next

-----------------------------------------------------------------------------
(* The order of the instructions                                            *)

LEMMA RequestKept == TypeOK /\ RequestIInv /\ Next => RequestIInv'
<1> SUFFICES ASSUME TypeOK, RequestIInv, Next PROVE RequestIInv'
  OBVIOUS
<1>1. /\ requested \in Nat /\ unsaved \in 0..requested /\ pending \in Nat /\ taken \in Nat
      /\ detector \in Nat \cup {-1}
      /\ taken # 0 =>
            cam \in {"announcing", "switching"} /\ taken > detector /\ taken <= requested
      /\ pending # 0 => pending > taken /\ pending > detector /\ pending <= requested
      /\ detector <= requested
      /\ pending # 0 \/ taken # 0 => requested \in {taken, pending, unsaved}
      /\ cam \in InLoop =>
            requested \in {detector, taken, pending, unsaved} \/ detector = 0
  BY DEF TypeOK, RequestIInv, RecorderFollowsYolo, Default, Unloaded
<1>2. CASE CameraThread
  <2>1. requested' = requested /\ unsaved' = unsaved
    BY <1>2 DEF CameraThread, LoadModel, ReadFrame, TakeClasses,
       AnnounceTaken, SwitchClasses, Predict, LeaveCamera, CameraKeeps, instructions
  <2>2. CASE LoadModel
    <3>1. /\ cam = "loading" /\ taken' = taken /\ pending' = pending
          /\ detector' = 0 \/ (detector' = -1 /\ cam' = "leaving")
      BY <2>2 DEF LoadModel, Default, Unloaded
    <3>2. QED
      BY <1>1, <2>1, <3>1 DEF RequestIInv, RecorderFollowsYolo, Default, InLoop
  <2>3. CASE ReadFrame \/ Predict
    <3>1. /\ cam \in {"reading", "predicting"} /\ UNCHANGED <<taken, pending, detector>>
      BY <2>3 DEF ReadFrame, Predict
    <3>2. QED
      BY <1>1, <2>1, <3>1 DEF RequestIInv, RecorderFollowsYolo, Default, InLoop
  <2>4. CASE TakeClasses
    <3>1. /\ cam = "taking" /\ taken' = pending /\ pending' = 0 /\ detector' = detector
          /\ pending # 0 => cam' = "announcing"
      BY <2>4 DEF TakeClasses
    <3>2. QED
      BY <1>1, <2>1, <3>1 DEF RequestIInv, RecorderFollowsYolo, Default, InLoop
  <2>5. CASE AnnounceTaken
    <3>1. /\ cam = "announcing" /\ cam' = "switching" /\ UNCHANGED <<taken, pending, detector>>
      BY <2>5 DEF AnnounceTaken
    <3>2. QED
      BY <1>1, <2>1, <3>1 DEF RequestIInv, RecorderFollowsYolo, Default, InLoop
  <2>6. CASE SwitchClasses
    <3>1. /\ cam = "switching" /\ taken' = 0 /\ pending' = pending
          /\ \/ detector' = taken
             \/ detector' = detector /\ cam' = "leaving"
      BY <2>6 DEF SwitchClasses
    <3>2. QED
      BY <1>1, <2>1, <3>1 DEF RequestIInv, RecorderFollowsYolo, Default, InLoop
  <2>7. CASE LeaveCamera
    <3>1. /\ cam = "leaving" /\ cam' = "off" /\ detector' = -1
          /\ UNCHANGED <<taken, pending>>
      BY <2>7 DEF LeaveCamera, Unloaded
    <3>2. QED
      BY <1>1, <2>1, <3>1 DEF RequestIInv, RecorderFollowsYolo, Default, InLoop
  <2>8. QED
    BY <1>2, <2>2, <2>3, <2>4, <2>5, <2>6, <2>7 DEF CameraThread
<1>3. CASE WhisperThread
  <2>1. UNCHANGED <<cam, taken, detector, pending, requested, unsaved>>
    BY <1>3 DEF WhisperThread, OpenMicrophone, Transcribe, StopListening, LeaveMicrophone,
       MicKeeps, camera, instructions
  <2>2. QED
    BY <2>1 DEF RequestIInv, RecorderFollowsYolo
<1>4. CASE ResumePreview
  <2>1. /\ cam = "off" /\ cam' = "loading"
        /\ UNCHANGED <<taken, detector, pending, requested, unsaved>>
    BY <1>4 DEF ResumePreview, instructions
  <2>2. QED
    BY <1>1, <2>1 DEF RequestIInv, RecorderFollowsYolo, InLoop
<1>5. CASE SubmitCommand \/ ReceiveTranscript
  <2>1. /\ requested' = requested + 1 /\ UNCHANGED <<cam, taken, detector>>
        /\ \/ pending' = requested'
           \/ unsaved' = requested' /\ UNCHANGED pending
    BY <1>5 DEF SubmitCommand, ReceiveTranscript, ApplyInstruction, camera
  <2>2. QED
    BY <1>1, <2>1 DEF RequestIInv, RecorderFollowsYolo
<1>6. CASE (Click /\ ~SubmitCommand /\ ~ResumePreview) \/ (EventLoop /\ ~ReceiveTranscript)
  <2>1. UNCHANGED <<cam, taken, detector, pending, requested, unsaved>>
    BY <1>6 DEF Click, SubmitUnknown, PausePreview, PauseMicrophone,
       ResumeMicrophone, CloseWindow, EventLoop, ShowKeywordQueue, PreviewStopped,
       ShowVideoError, HandleQueueChanged, ShowActiveClasses, WhisperFinished,
       ShowWhisperStatus, CloseWhisper, WindowClosed, camera, instructions
  <2>2. QED
    BY <2>1 DEF RequestIInv, RecorderFollowsYolo
<1>7. QED
  BY <1>2, <1>3, <1>4, <1>5, <1>6 DEF Next

-----------------------------------------------------------------------------
(* The theorems                                                             *)

(* Whatever the clicks, the threads and the queue of signals do, in any     *)
(* order: the four parts of the state keep their invariants.                *)
THEOREM VideoInvariant == Spec => []VideoIInv
<1>1. Init => VideoIInv
  <2> SUFFICES ASSUME Init PROVE VideoIInv
    OBVIOUS
  <2>1. TypeOK
    BY TypesInit
  <2>2. \A K : ~Waits(events, K)
    BY DEF Init, Waits
  <2>3. CameraIInv
    BY DEF Init, CameraIInv
  <2>4. MicIInv
    <3>1. micEnabled /\ micLabel = "Resume" /\ mic = "off" /\ EndedThenFinished(events)
      BY DEF Init, EndedThenFinished
    <3>2. QED
      BY <2>2, <3>1 DEF MicIInv
  <2>5. LabelIInv
    BY DEF Init, LabelIInv, InLoop
  <2>6. RequestIInv
    BY DEF Init, RequestIInv, RecorderFollowsYolo, InLoop, Unloaded
  <2>7. QED
    BY <2>1, <2>3, <2>4, <2>5, <2>6 DEF VideoIInv
<1>2. VideoIInv /\ [Next]_vars => VideoIInv'
  <2> SUFFICES ASSUME VideoIInv, [Next]_vars PROVE VideoIInv'
    OBVIOUS
  <2>1. CASE Next
    BY <2>1, TypesKept, CameraKept, MicKept, LabelKept, RequestKept DEF VideoIInv
  <2>2. CASE UNCHANGED vars
    BY <2>2 DEF vars, window, instructions, camera, whisper, VideoIInv, TypeOK, CameraIInv,
       MicIInv, LabelIInv, RequestIInv, RecorderFollowsYolo
  <2>3. QED
    BY <2>1, <2>2
<1>3. QED
  BY <1>1, <1>2, PTL DEF Spec

(* Every variable keeps its type: the instructions that wait, are taken or  *)
(* detected are numbers that were asked for.                                *)
THEOREM VideoTypes == Spec => []TypeOK
<1>1. VideoIInv => TypeOK
  BY DEF VideoIInv
<1>2. QED
  BY <1>1, VideoInvariant, PTL

(* When no signal is left to handle, the preview button offers to pause     *)
(* exactly while the camera thread runs, and the microphone button is       *)
(* usable and right: a label that does not fit always has a signal under    *)
(* way that corrects it and that nothing queued after it undoes.            *)
THEOREM ButtonsFitTheThreads == Spec => []ButtonsFit
<1>1. ASSUME VideoIInv, Settled PROVE \A k, K : ~Waits(events, K) /\ ~LastWord(events, k, K)
  BY <1>1 DEF Settled, Waits, LastWord
<1>2. ASSUME VideoIInv, Settled PROVE preview = "Pause" <=> cam # "off"
  BY <1>1, <1>2 DEF Settled, VideoIInv, CameraIInv, TypeOK
<1>3. ASSUME VideoIInv, Settled
      PROVE  /\ mic = "off" => micEnabled /\ micLabel = "Resume"
             /\ mic = "listening" => micLabel = "Pause" /\ (micEnabled \/ micStop)
  BY <1>1, <1>3 DEF VideoIInv, MicIInv
<1>4. VideoIInv => ButtonsFit
  BY <1>2, <1>3 DEF ButtonsFit
<1>5. QED
  BY <1>4, VideoInvariant, PTL

(* When no signal is left to handle, the window does not say of a request   *)
(* that it waits when the camera thread took it long ago, and names the     *)
(* classes that are detected.                                               *)
THEOREM LabelsFitTheDetector == Spec => []LabelsFit
<1>1. ASSUME VideoIInv, Settled
      PROVE  /\ ~Waits(events, {"queue"}) /\ ~LastActive(events, detector) /\ gui = "idle"
  BY <1>1 DEF Settled, Waits, LastActive
<1>2. VideoIInv => LabelsFit
  BY <1>1 DEF VideoIInv, LabelIInv, LabelsFit
<1>3. QED
  BY <1>2, VideoInvariant, PTL

(* The recorder looks for what YOLO detects or is about to detect, unless   *)
(* the newest instruction could not be written down or the detector was     *)
(* loaded anew: an instruction never overtakes a newer one.                 *)
THEOREM RecorderAndYoloAgree == Spec => []RecorderFollowsYolo
<1>1. VideoIInv => RecorderFollowsYolo
  BY DEF VideoIInv, RequestIInv
<1>2. QED
  BY <1>1, VideoInvariant, PTL

-----------------------------------------------------------------------------
(* While the Qt thread is blocked in a stop, nothing undoes the stop that   *)
(* it waits for, and a thread that is gone has left nothing loaded.         *)
StopsStand ==
    /\ gui \notin {"idle", "showing"} => camStop
    /\ gui \in {"closingMic", "closed"} => micStop /\ cam = "off"
    /\ gui = "closed" => mic = "off"
    /\ cam = "off" => detector = Unloaded

LEMMA StopsKept ==
    ASSUME TypeOK, StopsStand, Next
    PROVE  StopsStand'
<1>1. CASE CameraThread
  BY <1>1 DEF CameraThread, LoadModel, ReadFrame, TakeClasses,
     AnnounceTaken, SwitchClasses, Predict, LeaveCamera, CameraKeeps, StopsStand, whisper
<1>2. CASE WhisperThread
  BY <1>2 DEF WhisperThread, OpenMicrophone, Transcribe, StopListening, LeaveMicrophone,
         MicKeeps, StopsStand, camera
<1>3. CASE Click
  BY <1>3 DEF Click, SubmitCommand, SubmitUnknown, ApplyInstruction, PausePreview,
         ResumePreview, PauseMicrophone, ResumeMicrophone, CloseWindow, StopsStand, camera,
         whisper
<1>4. CASE ShowKeywordQueue \/ PreviewStopped \/ CloseWhisper \/ WindowClosed
  BY <1>4 DEF ShowKeywordQueue, PreviewStopped, CloseWhisper, WindowClosed, StopsStand,
         camera, whisper
<1>5. CASE \/ ShowVideoError \/ HandleQueueChanged \/ ShowActiveClasses
           \/ ReceiveTranscript \/ WhisperFinished \/ ShowWhisperStatus
  BY <1>5 DEF ShowVideoError, HandleQueueChanged, ShowActiveClasses, ReceiveTranscript,
         ApplyInstruction, WhisperFinished, ShowWhisperStatus, Handle, StopsStand, camera,
         whisper
<1>6. QED
  BY <1>1, <1>2, <1>3, <1>4, <1>5 DEF Next, EventLoop

(* The safety half of CloseEnds: a Qt thread that waits for the camera or   *)
(* for Whisper has asked it to stop and no signal or click takes that back, *)
(* and a window that is closed has both threads gone and the detector       *)
(* released (runtime_window.py:791).                                        *)
THEOREM ClosingWaitsForTheStopped == Spec => []StopsStand
<1>1. Init => StopsStand
  BY DEF Init, StopsStand
<1>2. StopsStand /\ UNCHANGED vars => StopsStand'
  BY DEF StopsStand, vars, camera, whisper
<1>3. QED
  BY <1>1, <1>2, StopsKept, VideoTypes, PTL DEF Spec
=============================================================================
