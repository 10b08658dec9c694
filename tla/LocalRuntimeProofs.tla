------------------------- MODULE LocalRuntimeProofs -------------------------
(***************************************************************************)
(* Proofs about LocalRuntime, for any number of requests and interrupts.   *)
(*                                                                         *)
(* The invariant has three parts besides the types: what is known while    *)
(* prepare() holds the lock, how old the requests under way are, and what  *)
(* a close() that nobody interrupted has released so far.  With it, the    *)
(* newest request is never lost on its way.                                *)
(***************************************************************************)
EXTENDS LocalRuntime, TLAPS

Speaking == {"offering", "evicting", "replacing"}

(* Nothing runs and nothing was closed while prepare() holds the lock; a    *)
(* preparation that failed left nothing behind.                             *)
PreparationIsAlone ==
    /\ Preparing => ~closed /\ voice = "none" /\ main \in {"waiting", "closing", "exited"}
    /\ prep = 0 => /\ closed /\ voice = "none" /\ main \in {"waiting", "closing", "exited"}
                   /\ camera # "open" /\ mic \notin {"ready", "listening"}
    /\ closed => main \notin {"starting"} \cup Recording
    /\ closed /\ main = "waiting" => prep = 0

(* The request in force is older than the one taken, that one is older than *)
(* the one in the mailbox, and a request on its way there is the newest.    *)
RequestsAreInOrder ==
    /\ active <= spoken /\ taken <= spoken
    /\ taken # 0 => active < taken
    /\ \A n \in 1..MaxRequests : mailbox = <<n>> => taken < n /\ active < n /\ n <= spoken
    /\ voice \in Speaking =>
          /\ active < spoken /\ taken < spoken
          /\ mailbox # <<spoken>>

MicIsLeft == mic \in {"ready", "listening"} => voice \in Alive

(* What a close() that was not interrupted has released at each step.       *)
CloseReleases ==
    ~cut => /\ closed /\ main \notin Closing => camera # "open" /\ MicIsLeft
            /\ main = "unloading" => MicIsLeft
            /\ main \in Closing => closed
            /\ main = "exited" => closed

RuntimeIInv ==
    /\ TypeOK
    /\ ListeningMicIsOpen
    /\ PreparationIsAlone
    /\ RequestsAreInOrder
    /\ CloseReleases

-----------------------------------------------------------------------------
(* LEMMAS: what each step does to each part of the invariant.               *)

(* The types are kept: a request on its way to the mailbox has a number.    *)
LEMMA TypesStep ==
  ASSUME TypeOK, RequestsAreInOrder, Next
  PROVE  TypeOK'
<1> USE LocalRuntimeAssumption
<1>1. CASE Prepare
  BY <1>1 DEF Prepare, TypeOK, Preparing, PrepStep, requests, keyboard,
         Recording, Closing, Alive
<1>2. CASE PrepareFails
  BY <1>2 DEF PrepareFails, TypeOK, Preparing, Released, requests, keyboard,
         Recording, Closing, Alive
<1>3. CASE StartupReturns
  BY <1>3 DEF StartupReturns, TypeOK, devices, requests, keyboard, Recording,
         Closing, Alive
<1>4. CASE StartVoice
  BY <1>4 DEF StartVoice, TypeOK, devices, requests, keyboard, Recording,
         Closing, Alive
<1>5. CASE OpenCamera
  <2>1. /\ main' \in Recording
        /\ shutdown' \in BOOLEAN
        /\ camera' \in {"none", "open", "released"}
    BY <1>5 DEF OpenCamera, TypeOK, Recording
  <2>2. UNCHANGED <<prep, caller, voice, closed, mic, mailbox, spoken, taken,
                    active, interrupts, cut>>
    BY <1>5 DEF OpenCamera, requests, keyboard
  <2>3. QED
    BY <2>1, <2>2 DEF TypeOK
<1>6. CASE ReadFrame
  BY <1>6 DEF ReadFrame, TypeOK, devices, requests, keyboard, Recording,
         Closing, Alive
<1>7. CASE TakeRequest
  <2>1. PICK n \in 1..MaxRequests : mailbox = <<n>>
    BY <1>7 DEF TakeRequest, TypeOK, Mailbox
  <2>2. taken' = n /\ mailbox' \in Mailbox
    BY <1>7, <2>1 DEF TakeRequest, Mailbox
  <2>3. QED
    BY <1>7, <2>2 DEF TakeRequest, TypeOK, devices, keyboard
<1>8. CASE ApplyRequest
  BY <1>8 DEF ApplyRequest, TypeOK, devices, keyboard, Recording, Closing,
         Alive
<1>9. CASE Detect
  BY <1>9 DEF Detect, TypeOK, devices, requests, keyboard, Recording, Closing,
         Alive
<1>10. CASE LeaveCamera
  BY <1>10 DEF LeaveCamera, TypeOK, requests, keyboard, Recording, Closing,
         Alive
<1>11. CASE CloseBegins
  BY <1>11 DEF CloseBegins, TypeOK, Preparing, AfterClose, devices, requests,
         keyboard, Recording, Closing, Alive
<1>12. CASE StopVoice
  BY <1>12 DEF StopVoice, TypeOK, Alive, Released, requests, keyboard,
         Recording, Closing
<1>13. CASE Unload
  BY <1>13 DEF Unload, TypeOK, Released, AfterClose, requests, keyboard,
         Recording, Closing, Alive
<1>14. CASE Interrupt
  <2>1. interrupts' \in 0..MaxInterrupts
    BY <1>14 DEF Interrupt, TypeOK
  <2>2. cut' \in BOOLEAN
    BY <1>14 DEF Interrupt, TypeOK
  <2>3. main' \in {"closing", "exited"} /\ caller' \in {"run", "main"}
    BY <1>14 DEF Interrupt, TypeOK, AfterClose
  <2>4. UNCHANGED <<prep, voice, closed, shutdown, camera, mic, mailbox, spoken,
                    taken, active>>
    BY <1>14 DEF Interrupt, devices, requests
  <2>5. QED
    BY <2>1, <2>2, <2>3, <2>4 DEF TypeOK
<1>15. CASE StartListening
  BY <1>15 DEF StartListening, TypeOK, Running, VoiceKeeps, Recording, Closing,
         Alive, keyboard
<1>16. CASE Hear
  BY <1>16 DEF Hear, TypeOK, Running, VoiceKeeps, Recording, Closing, Alive,
         keyboard
<1>17. CASE Offer
  <2>1. <<spoken>> \in Mailbox
    <3>1. spoken \in 1..MaxRequests
      BY <1>17 DEF Offer, Running, Speaking, TypeOK, RequestsAreInOrder
    <3>2. QED BY <3>1 DEF Mailbox
  <2>2. mailbox' \in Mailbox
    BY <1>17, <2>1 DEF Offer, TypeOK
  <2>3. voice' \in {"listening", "evicting", "closing"}
    BY <1>17 DEF Offer
  <2>4. shutdown' \in BOOLEAN
    BY <1>17 DEF Offer, TypeOK
  <2>5. UNCHANGED <<prep, main, caller, closed, camera, mic, spoken, taken, active,
                    interrupts, cut>>
    BY <1>17 DEF Offer, VoiceKeeps, keyboard
  <2>6. QED
    BY <2>2, <2>3, <2>4, <2>5 DEF TypeOK, Alive
<1>18. CASE Evict
  <2>1. mailbox' \in Mailbox
    BY <1>18 DEF Evict, Mailbox
  <2>2. QED
    BY <1>18, <2>1 DEF Evict, TypeOK, Running, VoiceKeeps, Alive, keyboard
<1>19. CASE Replace
  <2>1. <<spoken>> \in Mailbox
    <3>1. spoken \in 1..MaxRequests
      BY <1>19 DEF Replace, Running, Speaking, TypeOK, RequestsAreInOrder
    <3>2. QED BY <3>1 DEF Mailbox
  <2>2. mailbox' \in Mailbox
    BY <1>19, <2>1 DEF Replace, TypeOK
  <2>3. voice' \in {"listening", "evicting", "closing"}
    BY <1>19 DEF Replace
  <2>4. shutdown' \in BOOLEAN
    BY <1>19 DEF Replace, TypeOK
  <2>5. UNCHANGED <<prep, main, caller, closed, camera, mic, spoken, taken, active,
                    interrupts, cut>>
    BY <1>19 DEF Replace, VoiceKeeps, keyboard
  <2>6. QED
    BY <2>2, <2>3, <2>4, <2>5 DEF TypeOK, Alive
<1>20. CASE StopListening
  BY <1>20 DEF StopListening, TypeOK, Running, VoiceKeeps, Recording, Closing,
         Alive, keyboard
<1>21. CASE CloseVoice
  BY <1>21 DEF CloseVoice, TypeOK, Released, Running, VoiceKeeps, Recording,
         Closing, Alive, keyboard
<1>22. QED
  BY <1>1, <1>2, <1>3, <1>4, <1>5, <1>6, <1>7, <1>8, <1>9, <1>10, <1>11, <1>12,
     <1>13, <1>14, <1>15, <1>16, <1>17, <1>18, <1>19, <1>20, <1>21
     DEF Next, CameraLoop, Close, VoiceThread

(* prepare() stays alone while it holds the lock.                           *)
LEMMA PreparationStep ==
  ASSUME TypeOK, PreparationIsAlone, Next
  PROVE  PreparationIsAlone'
<1>1. CASE Prepare
  BY <1>1 DEF Prepare, PreparationIsAlone, TypeOK, Preparing, PrepStep,
         requests, keyboard, Recording, Closing, Alive
<1>2. CASE PrepareFails
  BY <1>2 DEF PrepareFails, PreparationIsAlone, TypeOK, Preparing, Released,
         requests, keyboard, Recording, Closing, Alive
<1>3. CASE StartupReturns
  BY <1>3 DEF StartupReturns, PreparationIsAlone, TypeOK, devices, requests,
         keyboard, Preparing, Recording, Closing, Alive
<1>4. CASE StartVoice
  BY <1>4 DEF StartVoice, PreparationIsAlone, TypeOK, devices, requests,
         keyboard, Preparing, Recording, Closing, Alive
<1>5. CASE OpenCamera
  BY <1>5 DEF OpenCamera, PreparationIsAlone, TypeOK, requests, keyboard,
         Preparing, Recording, Closing, Alive
<1>6. CASE ReadFrame
  BY <1>6 DEF ReadFrame, PreparationIsAlone, TypeOK, devices, requests,
         keyboard, Preparing, Recording, Closing, Alive
<1>7. CASE TakeRequest
  BY <1>7 DEF TakeRequest, PreparationIsAlone, TypeOK, devices, keyboard,
         Preparing, Recording, Closing, Alive
<1>8. CASE ApplyRequest
  BY <1>8 DEF ApplyRequest, PreparationIsAlone, TypeOK, devices, keyboard,
         Preparing, Recording, Closing, Alive
<1>9. CASE Detect
  BY <1>9 DEF Detect, PreparationIsAlone, TypeOK, devices, requests, keyboard,
         Preparing, Recording, Closing, Alive
<1>10. CASE LeaveCamera
  BY <1>10 DEF LeaveCamera, PreparationIsAlone, TypeOK, requests, keyboard,
         Preparing, Recording, Closing, Alive
<1>11. CASE CloseBegins
  BY <1>11 DEF CloseBegins, PreparationIsAlone, TypeOK, Preparing, AfterClose,
         devices, requests, keyboard, Recording, Closing, Alive
<1>12. CASE StopVoice
  BY <1>12 DEF StopVoice, PreparationIsAlone, TypeOK, Alive, Released,
         requests, keyboard, Preparing, Recording, Closing
<1>13. CASE Unload
  BY <1>13 DEF Unload, PreparationIsAlone, TypeOK, Released, AfterClose,
         requests, keyboard, Preparing, Recording, Closing, Alive
<1>14. CASE Interrupt
  BY <1>14 DEF Interrupt, PreparationIsAlone, TypeOK, Recording, Closing,
         AfterClose, devices, requests, Preparing, Alive
<1>15. CASE StartListening
  BY <1>15 DEF StartListening, PreparationIsAlone, TypeOK, Running, VoiceKeeps,
         Preparing, Recording, Closing, Alive, keyboard
<1>16. CASE Hear
  BY <1>16 DEF Hear, PreparationIsAlone, TypeOK, Running, VoiceKeeps,
         Preparing, Recording, Closing, Alive, keyboard
<1>17. CASE Offer
  BY <1>17 DEF Offer, PreparationIsAlone, TypeOK, Running, VoiceKeeps,
         Preparing, Recording, Closing, Alive, keyboard
<1>18. CASE Evict
  BY <1>18 DEF Evict, PreparationIsAlone, TypeOK, Running, VoiceKeeps,
         Preparing, Recording, Closing, Alive, keyboard
<1>19. CASE Replace
  BY <1>19 DEF Replace, PreparationIsAlone, TypeOK, Running, VoiceKeeps,
         Preparing, Recording, Closing, Alive, keyboard
<1>20. CASE StopListening
  BY <1>20 DEF StopListening, PreparationIsAlone, TypeOK, Running, VoiceKeeps,
         Preparing, Recording, Closing, Alive, keyboard
<1>21. CASE CloseVoice
  BY <1>21 DEF CloseVoice, PreparationIsAlone, TypeOK, Released, Running,
         VoiceKeeps, Preparing, Recording, Closing, Alive, keyboard
<1>22. QED
  BY <1>1, <1>2, <1>3, <1>4, <1>5, <1>6, <1>7, <1>8, <1>9, <1>10, <1>11, <1>12,
     <1>13, <1>14, <1>15, <1>16, <1>17, <1>18, <1>19, <1>20, <1>21
     DEF Next, CameraLoop, Close, VoiceThread

(* No request overtakes another.                                            *)
LEMMA RequestsStep ==
  ASSUME TypeOK, RequestsAreInOrder, Next
  PROVE  RequestsAreInOrder'
<1>1. CASE Prepare
  BY <1>1 DEF Prepare, RequestsAreInOrder, TypeOK, Preparing, PrepStep,
         requests, keyboard, Speaking, Recording, Closing, Alive
<1>2. CASE PrepareFails
  BY <1>2 DEF PrepareFails, RequestsAreInOrder, TypeOK, Preparing, Released,
         requests, keyboard, Speaking, Recording, Closing, Alive
<1>3. CASE StartupReturns
  BY <1>3 DEF StartupReturns, RequestsAreInOrder, TypeOK, devices, requests,
         keyboard, Speaking, Recording, Closing, Alive
<1>4. CASE StartVoice
  BY <1>4 DEF StartVoice, RequestsAreInOrder, TypeOK, devices, requests,
         keyboard, Speaking, Recording, Closing, Alive
<1>5. CASE OpenCamera
  BY <1>5 DEF OpenCamera, RequestsAreInOrder, TypeOK, requests, keyboard,
         Speaking, Recording, Closing, Alive
<1>6. CASE ReadFrame
  BY <1>6 DEF ReadFrame, RequestsAreInOrder, TypeOK, devices, requests,
         keyboard, Speaking, Recording, Closing, Alive
<1>7. CASE TakeRequest
  <2>1. PICK n \in 1..MaxRequests : mailbox = <<n>>
    BY <1>7 DEF TakeRequest, TypeOK, Mailbox
  <2>2. taken' = n /\ mailbox' = <<>>
    BY <1>7, <2>1 DEF TakeRequest
  <2>3. UNCHANGED <<spoken, active, voice>>
    BY <1>7 DEF TakeRequest
  <2>4. active < n /\ n <= spoken /\ (voice \in Speaking => n < spoken)
    BY <2>1 DEF RequestsAreInOrder, TypeOK
  <2>5. QED
    BY <2>2, <2>3, <2>4 DEF RequestsAreInOrder
<1>8. CASE ApplyRequest
  BY <1>8 DEF ApplyRequest, RequestsAreInOrder, TypeOK, devices, keyboard,
         Speaking, Recording, Closing, Alive
<1>9. CASE Detect
  BY <1>9 DEF Detect, RequestsAreInOrder, TypeOK, devices, requests, keyboard,
         Speaking, Recording, Closing, Alive
<1>10. CASE LeaveCamera
  BY <1>10 DEF LeaveCamera, RequestsAreInOrder, TypeOK, requests, keyboard,
         Speaking, Recording, Closing, Alive
<1>11. CASE CloseBegins
  BY <1>11 DEF CloseBegins, RequestsAreInOrder, TypeOK, Preparing, AfterClose,
         devices, requests, keyboard, Speaking, Recording, Closing, Alive
<1>12. CASE StopVoice
  BY <1>12 DEF StopVoice, RequestsAreInOrder, TypeOK, Alive, Released,
         requests, keyboard, Speaking, Recording, Closing
<1>13. CASE Unload
  BY <1>13 DEF Unload, RequestsAreInOrder, TypeOK, Released, AfterClose,
         requests, keyboard, Speaking, Recording, Closing, Alive
<1>14. CASE Interrupt
  BY <1>14 DEF Interrupt, RequestsAreInOrder, TypeOK, Recording, Closing,
         AfterClose, devices, requests, Speaking, Alive
<1>15. CASE StartListening
  BY <1>15 DEF StartListening, RequestsAreInOrder, TypeOK, Running, VoiceKeeps,
         Speaking, Recording, Closing, Alive, keyboard
<1>16. CASE Hear
  <2>1. active < spoken' /\ taken < spoken' /\ spoken < spoken'
    BY <1>16 DEF Hear, TypeOK, RequestsAreInOrder
  <2>2. UNCHANGED <<mailbox, taken, active>>
    BY <1>16 DEF Hear, VoiceKeeps
  <2>3. spoken \in Nat /\ spoken' \in 1..MaxRequests
    BY <1>16, LocalRuntimeAssumption DEF Hear, TypeOK
  <2>4. ASSUME NEW n \in 1..MaxRequests, mailbox' = <<n>>
        PROVE  taken' < n /\ active' < n /\ n <= spoken
    BY <2>2, <2>4 DEF RequestsAreInOrder
  <2>5. mailbox' # <<spoken'>>
    BY <2>1, <2>3, <2>4
  <2>6. \A n \in 1..MaxRequests :
           mailbox' = <<n>> => taken' < n /\ active' < n /\ n <= spoken'
    <3>1. \A n \in 1..MaxRequests : n <= spoken => n <= spoken'
      BY <2>1, <2>3
    <3>2. QED BY <2>4, <3>1
  <2>7. active' <= spoken' /\ taken' <= spoken' /\ (taken' # 0 => active' < taken')
    BY <2>1, <2>2, <2>3 DEF RequestsAreInOrder, TypeOK
  <2>8. active' < spoken' /\ taken' < spoken'
    BY <2>1, <2>2
  <2>9. QED
    BY <2>5, <2>6, <2>7, <2>8 DEF RequestsAreInOrder
<1>17. CASE Offer
  <2>1. CASE mailbox = <<>>
    <3>1. mailbox' = <<spoken>> /\ voice' = "listening"
      BY <1>17, <2>1 DEF Offer
    <3>2. active < spoken /\ taken < spoken
      BY <1>17 DEF Offer, Running, Speaking, RequestsAreInOrder
    <3>3. UNCHANGED <<spoken, taken, active>>
      BY <1>17 DEF Offer, VoiceKeeps
    <3>4. \A n \in 1..MaxRequests : mailbox' = <<n>> => n = spoken
      BY <3>1
    <3>5. QED
      BY <3>1, <3>2, <3>3, <3>4 DEF RequestsAreInOrder, TypeOK, Speaking
  <2>2. CASE mailbox # <<>>
    BY <1>17, <2>2
       DEF Offer, Running, VoiceKeeps, Speaking, RequestsAreInOrder
  <2>3. QED BY <2>1, <2>2
<1>18. CASE Evict
  BY <1>18 DEF Evict, RequestsAreInOrder, TypeOK, Running, VoiceKeeps,
         Speaking, Recording, Closing, Alive, keyboard
<1>19. CASE Replace
  <2>1. CASE mailbox = <<>>
    <3>1. mailbox' = <<spoken>> /\ voice' = "listening"
      BY <1>19, <2>1 DEF Replace
    <3>2. active < spoken /\ taken < spoken
      BY <1>19 DEF Replace, Running, Speaking, RequestsAreInOrder
    <3>3. UNCHANGED <<spoken, taken, active>>
      BY <1>19 DEF Replace, VoiceKeeps
    <3>4. \A n \in 1..MaxRequests : mailbox' = <<n>> => n = spoken
      BY <3>1
    <3>5. QED
      BY <3>1, <3>2, <3>3, <3>4 DEF RequestsAreInOrder, TypeOK, Speaking
  <2>2. CASE mailbox # <<>>
    BY <1>19, <2>2
       DEF Replace, Running, VoiceKeeps, Speaking, RequestsAreInOrder
  <2>3. QED BY <2>1, <2>2
<1>20. CASE StopListening
  BY <1>20 DEF StopListening, RequestsAreInOrder, TypeOK, Running, VoiceKeeps,
         Speaking, Recording, Closing, Alive, keyboard
<1>21. CASE CloseVoice
  BY <1>21 DEF CloseVoice, RequestsAreInOrder, TypeOK, Released, Running,
         VoiceKeeps, Speaking, Recording, Closing, Alive, keyboard
<1>22. QED
  BY <1>1, <1>2, <1>3, <1>4, <1>5, <1>6, <1>7, <1>8, <1>9, <1>10, <1>11, <1>12,
     <1>13, <1>14, <1>15, <1>16, <1>17, <1>18, <1>19, <1>20, <1>21
     DEF Next, CameraLoop, Close, VoiceThread

(* Nobody closes the microphone while the voice thread listens.             *)
LEMMA MicStep ==
  ASSUME TypeOK, PreparationIsAlone, ListeningMicIsOpen, Next
  PROVE  ListeningMicIsOpen'
<1>1. CASE Prepare
  BY <1>1 DEF Prepare, ListeningMicIsOpen, PreparationIsAlone, Preparing,
         PrepStep, requests, keyboard, Alive, Recording
<1>2. CASE PrepareFails
  BY <1>2 DEF PrepareFails, ListeningMicIsOpen, PreparationIsAlone, Preparing,
         Released, requests, keyboard, Alive, Recording
<1>3. CASE StartupReturns
  BY <1>3 DEF StartupReturns, ListeningMicIsOpen, PreparationIsAlone, devices,
         requests, keyboard, Alive, Preparing, Recording
<1>4. CASE StartVoice
  BY <1>4 DEF StartVoice, ListeningMicIsOpen, PreparationIsAlone, devices,
         requests, keyboard, Alive, Preparing, Recording
<1>5. CASE OpenCamera
  BY <1>5 DEF OpenCamera, ListeningMicIsOpen, PreparationIsAlone, requests,
         keyboard, Alive, Preparing, Recording
<1>6. CASE ReadFrame
  BY <1>6 DEF ReadFrame, ListeningMicIsOpen, PreparationIsAlone, devices,
         requests, keyboard, Alive, Preparing, Recording
<1>7. CASE TakeRequest
  BY <1>7 DEF TakeRequest, ListeningMicIsOpen, PreparationIsAlone, devices,
         keyboard, Alive, Preparing, Recording
<1>8. CASE ApplyRequest
  BY <1>8 DEF ApplyRequest, ListeningMicIsOpen, PreparationIsAlone, devices,
         keyboard, Alive, Preparing, Recording
<1>9. CASE Detect
  BY <1>9 DEF Detect, ListeningMicIsOpen, PreparationIsAlone, devices,
         requests, keyboard, Alive, Preparing, Recording
<1>10. CASE LeaveCamera
  BY <1>10 DEF LeaveCamera, ListeningMicIsOpen, PreparationIsAlone, requests,
         keyboard, Alive, Preparing, Recording
<1>11. CASE CloseBegins
  BY <1>11 DEF CloseBegins, ListeningMicIsOpen, PreparationIsAlone, Preparing,
         AfterClose, devices, requests, keyboard, Alive, Recording
<1>12. CASE StopVoice
  BY <1>12 DEF StopVoice, ListeningMicIsOpen, PreparationIsAlone, Alive,
         Released, requests, keyboard, Preparing, Recording
<1>13. CASE Unload
  BY <1>13 DEF Unload, ListeningMicIsOpen, PreparationIsAlone, Released,
         AfterClose, requests, keyboard, Alive, Preparing, Recording
<1>14. CASE Interrupt
  BY <1>14 DEF Interrupt, ListeningMicIsOpen, PreparationIsAlone, Recording,
         Closing, AfterClose, devices, requests, Alive, Preparing
<1>15. CASE StartListening
  BY <1>15 DEF StartListening, ListeningMicIsOpen, PreparationIsAlone, Running,
         VoiceKeeps, Alive, Preparing, Recording, keyboard
<1>16. CASE Hear
  BY <1>16 DEF Hear, ListeningMicIsOpen, PreparationIsAlone, Running,
         VoiceKeeps, Alive, Preparing, Recording, keyboard
<1>17. CASE Offer
  BY <1>17 DEF Offer, ListeningMicIsOpen, PreparationIsAlone, Running,
         VoiceKeeps, Alive, Preparing, Recording, keyboard
<1>18. CASE Evict
  BY <1>18 DEF Evict, ListeningMicIsOpen, PreparationIsAlone, Running,
         VoiceKeeps, Alive, Preparing, Recording, keyboard
<1>19. CASE Replace
  BY <1>19 DEF Replace, ListeningMicIsOpen, PreparationIsAlone, Running,
         VoiceKeeps, Alive, Preparing, Recording, keyboard
<1>20. CASE StopListening
  BY <1>20 DEF StopListening, ListeningMicIsOpen, PreparationIsAlone, Running,
         VoiceKeeps, Alive, Preparing, Recording, keyboard
<1>21. CASE CloseVoice
  BY <1>21 DEF CloseVoice, ListeningMicIsOpen, PreparationIsAlone, Released,
         Running, VoiceKeeps, Alive, Preparing, Recording, keyboard
<1>22. QED
  BY <1>1, <1>2, <1>3, <1>4, <1>5, <1>6, <1>7, <1>8, <1>9, <1>10, <1>11, <1>12,
     <1>13, <1>14, <1>15, <1>16, <1>17, <1>18, <1>19, <1>20, <1>21
     DEF Next, CameraLoop, Close, VoiceThread

(* A close() that nobody interrupts releases what it finds.                 *)
LEMMA CloseStep ==
  ASSUME TypeOK, PreparationIsAlone, CloseReleases, Next
  PROVE  CloseReleases'
<1>1. CASE Prepare
  BY <1>1 DEF Prepare, CloseReleases, PreparationIsAlone, TypeOK, Preparing,
         PrepStep, requests, keyboard, Closing, MicIsLeft, Recording, Alive
<1>2. CASE PrepareFails
  BY <1>2 DEF PrepareFails, CloseReleases, PreparationIsAlone, TypeOK,
         Preparing, Released, requests, keyboard, Closing, MicIsLeft,
         Recording, Alive
<1>3. CASE StartupReturns
  BY <1>3 DEF StartupReturns, CloseReleases, PreparationIsAlone, TypeOK,
         devices, requests, keyboard, Closing, MicIsLeft, Preparing, Recording,
         Alive
<1>4. CASE StartVoice
  BY <1>4 DEF StartVoice, CloseReleases, PreparationIsAlone, TypeOK, devices,
         requests, keyboard, Closing, MicIsLeft, Preparing, Recording, Alive
<1>5. CASE OpenCamera
  BY <1>5 DEF OpenCamera, CloseReleases, PreparationIsAlone, TypeOK, requests,
         keyboard, Closing, MicIsLeft, Preparing, Recording, Alive
<1>6. CASE ReadFrame
  BY <1>6 DEF ReadFrame, CloseReleases, PreparationIsAlone, TypeOK, devices,
         requests, keyboard, Closing, MicIsLeft, Preparing, Recording, Alive
<1>7. CASE TakeRequest
  BY <1>7 DEF TakeRequest, CloseReleases, PreparationIsAlone, TypeOK, devices,
         keyboard, Closing, MicIsLeft, Preparing, Recording, Alive
<1>8. CASE ApplyRequest
  BY <1>8 DEF ApplyRequest, CloseReleases, PreparationIsAlone, TypeOK, devices,
         keyboard, Closing, MicIsLeft, Preparing, Recording, Alive
<1>9. CASE Detect
  BY <1>9 DEF Detect, CloseReleases, PreparationIsAlone, TypeOK, devices,
         requests, keyboard, Closing, MicIsLeft, Preparing, Recording, Alive
<1>10. CASE LeaveCamera
  BY <1>10 DEF LeaveCamera, CloseReleases, PreparationIsAlone, TypeOK,
         requests, keyboard, Closing, MicIsLeft, Preparing, Recording, Alive
<1>11. CASE CloseBegins
  BY <1>11 DEF CloseBegins, CloseReleases, PreparationIsAlone, TypeOK,
         Preparing, AfterClose, devices, requests, keyboard, Closing,
         MicIsLeft, Recording, Alive
<1>12. CASE StopVoice
  BY <1>12 DEF StopVoice, CloseReleases, PreparationIsAlone, TypeOK, Alive,
         Released, requests, keyboard, Closing, MicIsLeft, Preparing, Recording
<1>13. CASE Unload
  BY <1>13 DEF Unload, CloseReleases, PreparationIsAlone, TypeOK, Released,
         AfterClose, requests, keyboard, Closing, MicIsLeft, Preparing,
         Recording, Alive
<1>14. CASE Interrupt
  BY <1>14 DEF Interrupt, CloseReleases, PreparationIsAlone, TypeOK, Recording,
         Closing, AfterClose, devices, requests, MicIsLeft, Preparing, Alive
<1>15. CASE StartListening
  BY <1>15 DEF StartListening, CloseReleases, PreparationIsAlone, TypeOK,
         Running, VoiceKeeps, Closing, MicIsLeft, Preparing, Recording, Alive,
         keyboard
<1>16. CASE Hear
  BY <1>16 DEF Hear, CloseReleases, PreparationIsAlone, TypeOK, Running,
         VoiceKeeps, Closing, MicIsLeft, Preparing, Recording, Alive, keyboard
<1>17. CASE Offer
  BY <1>17 DEF Offer, CloseReleases, PreparationIsAlone, TypeOK, Running,
         VoiceKeeps, Closing, MicIsLeft, Preparing, Recording, Alive, keyboard
<1>18. CASE Evict
  BY <1>18 DEF Evict, CloseReleases, PreparationIsAlone, TypeOK, Running,
         VoiceKeeps, Closing, MicIsLeft, Preparing, Recording, Alive, keyboard
<1>19. CASE Replace
  BY <1>19 DEF Replace, CloseReleases, PreparationIsAlone, TypeOK, Running,
         VoiceKeeps, Closing, MicIsLeft, Preparing, Recording, Alive, keyboard
<1>20. CASE StopListening
  BY <1>20 DEF StopListening, CloseReleases, PreparationIsAlone, TypeOK,
         Running, VoiceKeeps, Closing, MicIsLeft, Preparing, Recording, Alive,
         keyboard
<1>21. CASE CloseVoice
  BY <1>21 DEF CloseVoice, CloseReleases, PreparationIsAlone, TypeOK, Released,
         Running, VoiceKeeps, Closing, MicIsLeft, Preparing, Recording, Alive,
         keyboard
<1>22. QED
  BY <1>1, <1>2, <1>3, <1>4, <1>5, <1>6, <1>7, <1>8, <1>9, <1>10, <1>11, <1>12,
     <1>13, <1>14, <1>15, <1>16, <1>17, <1>18, <1>19, <1>20, <1>21
     DEF Next, CameraLoop, Close, VoiceThread

(* The invariant holds of every run.                                        *)
THEOREM RuntimeInvariant == Spec => []RuntimeIInv
<1>1. Init => RuntimeIInv
  <2> SUFFICES ASSUME Init PROVE RuntimeIInv
    OBVIOUS
  <2>1. mailbox \in Mailbox /\ \A n : mailbox # <<n>>
    BY DEF Init, Mailbox
  <2>2. TypeOK
    <3>1. /\ prep = 1 /\ main = "waiting" /\ caller = "run" /\ voice = "none"
          /\ closed = FALSE /\ shutdown = FALSE /\ cut = FALSE
          /\ camera = "none" /\ mic = "none"
      BY DEF Init
    <3>2. spoken = 0 /\ taken = 0 /\ active = 0 /\ interrupts = 0
      BY DEF Init
    <3>3. /\ prep \in 1..6 /\ spoken \in 0..MaxRequests /\ taken \in 0..MaxRequests
          /\ active \in 0..MaxRequests /\ interrupts \in 0..MaxInterrupts
      BY <3>1, <3>2, LocalRuntimeAssumption
    <3>4. QED BY <2>1, <3>1, <3>3 DEF TypeOK
  <2>3. RequestsAreInOrder
    BY <2>1 DEF Init, RequestsAreInOrder, Speaking
  <2>4. ListeningMicIsOpen /\ PreparationIsAlone /\ CloseReleases
    BY DEF Init, ListeningMicIsOpen, PreparationIsAlone, CloseReleases,
           Preparing, Recording, Closing, Alive, MicIsLeft
  <2>5. QED BY <2>2, <2>3, <2>4 DEF RuntimeIInv
<1>2. RuntimeIInv /\ [Next]_vars => RuntimeIInv'
  <2> SUFFICES ASSUME RuntimeIInv, [Next]_vars PROVE RuntimeIInv'
    OBVIOUS
  <2>1. CASE Next
    BY <2>1, TypesStep, PreparationStep, RequestsStep, MicStep, CloseStep
       DEF RuntimeIInv
  <2>2. CASE UNCHANGED vars
    BY <2>2 DEF vars, devices, requests, keyboard, RuntimeIInv, TypeOK,
                ListeningMicIsOpen, PreparationIsAlone, RequestsAreInOrder,
                CloseReleases, Preparing, Recording, Closing, Alive, Speaking,
                MicIsLeft
  <2>3. QED BY <2>1, <2>2
<1>3. QED BY <1>1, <1>2, PTL DEF Spec

(* Every variable keeps to its type (the one-slot queue among them).        *)
THEOREM RuntimeTypes == Spec => []TypeOK
<1>1. RuntimeIInv => TypeOK BY DEF RuntimeIInv
<1>2. QED BY <1>1, RuntimeInvariant, PTL

(* The microphone stays open while the voice thread listens to it.          *)
THEOREM MicStaysOpen == Spec => []ListeningMicIsOpen
<1>1. RuntimeIInv => ListeningMicIsOpen BY DEF RuntimeIInv
<1>2. QED BY <1>1, RuntimeInvariant, PTL

(* Nothing is left open by a close() that nobody interrupts.                *)
THEOREM DevicesAreReleased == Spec => []ReleasedAtExit
<1>1. RuntimeIInv => ReleasedAtExit
  BY DEF RuntimeIInv, CloseReleases, MicIsLeft, Closing, ReleasedAtExit
<1>2. QED BY <1>1, RuntimeInvariant, PTL

(* The mailbox and the camera loop implement LatestRequest.                 *)
THEOREM RequestsImplementLatest == Spec => NewerRequestsOnly
<1>1. Init => Latest!LatestInit
  BY DEF Init, Latest!LatestInit
<1>2. RuntimeIInv /\ [Next]_vars => [Latest!LatestNext]_<<spoken, active>>
  <2> SUFFICES ASSUME RuntimeIInv, [Next]_vars
               PROVE  [Latest!LatestNext]_<<spoken, active>>
    OBVIOUS
  <2>1. CASE Hear
    BY <2>1 DEF Hear, VoiceKeeps, Latest!LatestNext, Latest!Make
  <2>2. CASE ApplyRequest
    <3>1. CASE taken = 0
      BY <2>2, <3>1 DEF ApplyRequest
    <3>2. CASE taken # 0
      <4>1. active' = taken /\ spoken' = spoken
        BY <2>2, <3>2 DEF ApplyRequest
      <4>2. taken \in (active + 1)..spoken
        BY <3>2 DEF RuntimeIInv, RequestsAreInOrder, TypeOK
      <4>3. QED
        BY <4>1, <4>2 DEF Latest!LatestNext, Latest!TakeEffect
    <3>3. QED BY <3>1, <3>2
  <2>3. ASSUME Next, ~Hear, ~ApplyRequest
        PROVE  UNCHANGED <<spoken, active>>
    BY <2>3 DEF Next, CameraLoop, Close, VoiceThread, Prepare, PrepareFails,
                StartupReturns, StartVoice, OpenCamera, ReadFrame, TakeRequest,
                Detect, LeaveCamera, CloseBegins, StopVoice, Unload, Interrupt,
                StartListening, Offer, Evict, Replace, StopListening,
                CloseVoice, VoiceKeeps, requests
  <2>4. CASE UNCHANGED vars
    BY <2>4 DEF vars, requests
  <2>5. QED BY <2>1, <2>2, <2>3, <2>4
<1>3. QED
  BY <1>1, <1>2, RuntimeInvariant, PTL
     DEF Spec, NewerRequestsOnly, Latest!LatestSpec

-----------------------------------------------------------------------------
(* No request is lost on its way.                                           *)

UnderWay ==
    \/ active = spoken \/ taken = spoken \/ mailbox = <<spoken>>
    \/ voice \in Speaking

(* Only the voice thread puts requests into the mailbox, so the one that it *)
(* has emptied stays empty.                                                 *)
RoomForTheSecondPut == voice = "replacing" => mailbox = <<>>

NotListeningYet == main \in {"waiting", "starting"} => voice = "none"

UnderWayIInv == UnderWay /\ RoomForTheSecondPut /\ NotListeningYet

LEMMA VoiceStartsOnce ==
  ASSUME NotListeningYet, Next
  PROVE  NotListeningYet'
BY DEF NotListeningYet, Next, Prepare, PrepareFails, StartupReturns, CameraLoop, StartVoice,
       OpenCamera, ReadFrame, TakeRequest, ApplyRequest, Detect, LeaveCamera, Close,
       CloseBegins, StopVoice, Unload, AfterClose, Interrupt, VoiceThread, StartListening,
       Hear, Offer, Evict, Replace, StopListening, CloseVoice, Running, VoiceKeeps,
       Recording, Closing

LEMMA RequestsStayUnderWay ==
  ASSUME RuntimeIInv, UnderWayIInv, Next
  PROVE  UnderWay' /\ RoomForTheSecondPut'
<1> USE LocalRuntimeAssumption
<1>1. /\ spoken \in 0..MaxRequests /\ taken \in 0..MaxRequests /\ active \in 0..MaxRequests
      /\ mailbox = <<>> \/ \E n \in 1..MaxRequests : mailbox = <<n>>
      /\ RequestsAreInOrder /\ UnderWay /\ RoomForTheSecondPut
  BY DEF RuntimeIInv, UnderWayIInv, TypeOK, Mailbox
<1>2. CASE UNCHANGED <<active, taken, mailbox, spoken>> /\ (voice \in Speaking => voice' = voice)
           /\ voice' # "replacing"
  BY <1>1, <1>2 DEF UnderWay, RoomForTheSecondPut
<1>2a. CASE UNCHANGED <<active, taken, mailbox, spoken, voice>>
  BY <1>1, <1>2a DEF UnderWay, RoomForTheSecondPut
<1>3. CASE \/ Prepare \/ PrepareFails \/ StartupReturns \/ OpenCamera \/ ReadFrame \/ Detect
           \/ LeaveCamera \/ Close \/ Interrupt
  BY <1>2a, <1>3
     DEF Prepare, PrepareFails, StartupReturns, OpenCamera, ReadFrame, Detect,
         LeaveCamera, Close, CloseBegins, StopVoice, Unload, Interrupt, requests
<1>4. CASE StartVoice
  <2>1. voice \notin Speaking
    BY <1>4 DEF StartVoice, UnderWayIInv, NotListeningYet, Speaking
  <2>2. QED
    BY <1>2, <1>4, <2>1 DEF StartVoice, requests
<1>5. CASE TakeRequest
  <2>1. PICK n \in 1..MaxRequests : mailbox = <<n>>
    BY <1>1, <1>5 DEF TakeRequest
  <2>2. taken' = n /\ mailbox' = <<>> /\ UNCHANGED <<active, spoken, voice>>
    BY <1>5, <2>1 DEF TakeRequest
  <2>3. taken < n /\ active < n /\ n <= spoken
    BY <1>1, <2>1 DEF RequestsAreInOrder
  <2>4. QED
    BY <1>1, <2>1, <2>2, <2>3 DEF UnderWay, RoomForTheSecondPut
<1>6. CASE ApplyRequest
  BY <1>1, <1>6 DEF ApplyRequest, UnderWay, RoomForTheSecondPut, RequestsAreInOrder
<1>7. CASE StartListening \/ StopListening \/ CloseVoice
  BY <1>2, <1>7 DEF StartListening, StopListening, CloseVoice, VoiceKeeps, Running, Speaking
<1>8. CASE Hear
  BY <1>1, <1>8 DEF Hear, UnderWay, RoomForTheSecondPut, Speaking
<1>9. CASE Offer
  BY <1>1, <1>9 DEF Offer, VoiceKeeps, UnderWay, RoomForTheSecondPut, Speaking
<1>10. CASE Evict
  BY <1>1, <1>10 DEF Evict, UnderWay, RoomForTheSecondPut, Speaking
<1>11. CASE Replace
  BY <1>1, <1>11 DEF Replace, Running, VoiceKeeps, UnderWay, RoomForTheSecondPut
<1>12. QED
  BY <1>3, <1>4, <1>5, <1>6, <1>7, <1>8, <1>9, <1>10, <1>11
     DEF Next, CameraLoop, VoiceThread

(* What was said last is in force, with the camera loop, in the mailbox or  *)
(* in the voice thread's hands: nothing drops it, however the steps of the  *)
(* two threads interleave, and the second put_nowait of                     *)
(* _put_latest_classes never finds the mailbox full.                        *)
THEOREM NewestRequestIsNotLost == Spec => [](UnderWay /\ RoomForTheSecondPut)
<1>1. Init => UnderWayIInv
  BY DEF Init, UnderWayIInv, UnderWay, RoomForTheSecondPut, NotListeningYet
<1>2. RuntimeIInv /\ UnderWayIInv /\ [Next]_vars => UnderWayIInv'
  <2>1. ASSUME RuntimeIInv, UnderWayIInv, Next
        PROVE  UnderWayIInv'
    BY <2>1, RequestsStayUnderWay, VoiceStartsOnce DEF UnderWayIInv
  <2>2. ASSUME UnderWayIInv, UNCHANGED vars
        PROVE  UnderWayIInv'
    BY <2>2 DEF vars, devices, requests, keyboard, UnderWayIInv, UnderWay,
                RoomForTheSecondPut, NotListeningYet
  <2>3. QED
    BY <2>1, <2>2
<1>3. UnderWayIInv => UnderWay /\ RoomForTheSecondPut
  BY DEF UnderWayIInv
<1>4. QED
  BY <1>1, <1>2, <1>3, RuntimeInvariant, PTL DEF Spec

-----------------------------------------------------------------------------
(* Either side tells the other.                                             *)

(* Whoever ends the run or releases something has set the event before: a   *)
(* main thread that goes without it was cut short by Ctrl+C inside close(). *)
OthersAreTold ==
    /\ closed => shutdown
    /\ voice \in {"closing", "ended"} => shutdown
    /\ main \in Closing => shutdown
    /\ main = "exited" /\ ~cut => shutdown

LEMMA OthersAreToldInTime ==
  ASSUME OthersAreTold, Next
  PROVE  OthersAreTold'
<1>1. CASE CloseBegins \/ StopVoice \/ Unload \/ Interrupt
  BY <1>1 DEF CloseBegins, StopVoice, Unload, AfterClose, Interrupt, OthersAreTold, devices,
         requests, keyboard, Recording, Closing
<1>2. CASE Prepare \/ PrepareFails \/ StartupReturns
  BY <1>2 DEF Prepare, PrepareFails, StartupReturns, OthersAreTold, devices, keyboard,
         Closing
<1>3. CASE StartVoice \/ OpenCamera \/ ReadFrame \/ Detect \/ LeaveCamera
  BY <1>3 DEF StartVoice, OpenCamera, ReadFrame, Detect, LeaveCamera, OthersAreTold,
         devices, keyboard, Closing
<1>4. CASE TakeRequest \/ ApplyRequest
  BY <1>4 DEF TakeRequest, ApplyRequest, OthersAreTold, keyboard, Closing
<1>5. CASE VoiceThread
  BY <1>5 DEF VoiceThread, StartListening, Hear, Offer, Evict, Replace, StopListening,
         CloseVoice, Running, VoiceKeeps, OthersAreTold, keyboard, Closing
<1>6. QED
  BY <1>1, <1>2, <1>3, <1>4, <1>5 DEF Next, CameraLoop, Close

(* The safety half of ShutdownEndsTheRun: neither side ends, by itself or   *)
(* with an error, without having set the event that the other one looks at, *)
(* and nothing is released before it is set (runtime.py:371, main.py).      *)
THEOREM NobodyLeavesSilently == Spec => []OthersAreTold
<1>1. Init => OthersAreTold
  BY DEF Init, OthersAreTold, Closing
<1>2. OthersAreTold /\ UNCHANGED vars => OthersAreTold'
  BY DEF OthersAreTold, vars, keyboard
<1>3. QED
  BY <1>1, <1>2, OthersAreToldInTime, PTL DEF Spec
=============================================================================
