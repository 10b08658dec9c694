-------------------------- MODULE ClassNodesProofs --------------------------
(***************************************************************************)
(* Proofs about ClassNodes, for any number of requests and runs of the     *)
(* Whisper node, and any dictionary: newer classes win, what was answered  *)
(* is not lost, and the classes that are sent are those that the text      *)
(* mentions, each once.                                                    *)
(*                                                                         *)
(* The first invariant says that requests stay in order on their whole     *)
(* way: what is in force is older than what the camera has taken, that is  *)
(* older than what is in the queue, and that older than whatever the       *)
(* receiver has not put there yet.                                         *)
(***************************************************************************)
EXTENDS ClassNodes, SequenceTheorems, FiniteSetTheorems, TLAPS

Request == [request : 1..MaxRequests, heard : BOOLEAN]

QueueTypes ==
    /\ sent \in 0..MaxRequests /\ active \in 0..sent /\ taken \in 0..sent
    /\ backlog \in Seq(Request)
    /\ receiver \in {"binding", "waiting", "ended"} \cup Serving
    /\ mailbox \in {<<>>} \cup {<<n>> : n \in 1..MaxRequests}

ReceiverHasItsRequest == receiver \in Serving => backlog # <<>>

BacklogIsInOrder ==
    /\ \A i, k \in DOMAIN backlog : i < k => backlog[i].request < backlog[k].request
    /\ \A i \in DOMAIN backlog : backlog[i].request <= sent

(* n is newer than all that has been put into the queue.                    *)
NewerThanQueued(n) ==
    /\ active < n /\ taken < n
    /\ \A q \in 1..MaxRequests : mailbox = <<q>> => q < n

(* While the receiver answers, the request it serves is in the queue, or    *)
(* has been.                                                                *)
BacklogIsNewer ==
    \A i \in DOMAIN backlog :
        i > 1 \/ receiver # "answering" => NewerThanQueued(backlog[i].request)

QueueIsInOrder ==
    /\ \A q \in 1..MaxRequests : mailbox = <<q>> => taken < q /\ active < q /\ q <= sent
    /\ taken # 0 => active < taken

OrderIInv ==
    /\ QueueTypes
    /\ ReceiverHasItsRequest
    /\ BacklogIsInOrder
    /\ BacklogIsNewer
    /\ QueueIsInOrder

-----------------------------------------------------------------------------
(* LEMMAS *)

(* The requests at the receiver have numbers that were given.               *)
LEMMA RequestsAreNumbered ==
    ASSUME QueueTypes, MaxRequests \in Nat
    PROVE  \A i \in DOMAIN backlog : /\ backlog[i].request \in 1..MaxRequests
                                     /\ backlog[i].request \in Nat \ {0}
<1>1. \A i \in DOMAIN backlog : backlog[i] \in Request
  BY DEF QueueTypes
<1>2. \A x \in Request : x.request \in 1..MaxRequests
  BY DEF Request
<1>3. QED BY <1>1, <1>2

(* There is a first one, which the receiver serves.                         *)
LEMMA HeadOfBacklog ==
    ASSUME QueueTypes, backlog # <<>>
    PROVE  /\ 1 \in DOMAIN backlog /\ Head(backlog) = backlog[1]
           /\ Head(backlog).request \in 1..MaxRequests
<1>1. 1 \in DOMAIN backlog /\ Head(backlog) = backlog[1]
  BY DEF QueueTypes
<1>2. QED BY <1>1, RequestsAreNumbered, ClassNodesAssumption

(* What is left of a sequence without its last element.                     *)
LEMMA FrontOfSequence ==
    ASSUME NEW S, NEW s \in Seq(S), s # <<>>
    PROVE  /\ Front(s) \in Seq(S) /\ Len(Front(s)) = Len(s) - 1
           /\ \A i \in 1..(Len(s) - 1) : Front(s)[i] = s[i]
<1>1. Len(s) \in Nat \ {0} /\ Front(s) = SubSeq(s, 1, Len(s) - 1)
  BY DEF Front
<1> DEFINE n == Len(s) - 1
<1>2. n \in Nat /\ \A i \in 1..n : s[i] \in S
  BY <1>1
<1> HIDE DEF n
<1>3. /\ SubSeq(s, 1, n) \in Seq(S)
      /\ Len(SubSeq(s, 1, n)) = IF 1 <= n THEN n - 1 + 1 ELSE 0
      /\ \A i \in 1..(n - 1 + 1) : SubSeq(s, 1, n)[i] = s[1 + i - 1]
  BY <1>2, SubSeqProperties
<1>4. Len(SubSeq(s, 1, n)) = n /\ \A i \in 1..n : SubSeq(s, 1, n)[i] = s[i]
  BY <1>2, <1>3
<1>5. QED BY <1>1, <1>3, <1>4 DEF n

(* A request leaves the backlog when it has been answered, or could not be. *)
LEMMA BacklogShrinks ==
    ASSUME OrderIInv, backlog # <<>>, backlog' = Tail(backlog), receiver' = "waiting",
           UNCHANGED <<sent, active, taken, mailbox>>
    PROVE  OrderIInv'
<1>1. /\ backlog' \in Seq(Request)
      /\ \A i \in DOMAIN backlog' : /\ i \in Nat /\ i + 1 \in DOMAIN backlog /\ i + 1 > 1
                                    /\ backlog'[i] = backlog[i + 1]
  BY DEF OrderIInv, QueueTypes
<1>2. QueueTypes' /\ ReceiverHasItsRequest' /\ QueueIsInOrder'
  BY <1>1 DEF OrderIInv, QueueTypes, ReceiverHasItsRequest, QueueIsInOrder, Serving
<1>3. BacklogIsInOrder'
  BY <1>1 DEF OrderIInv, BacklogIsInOrder
<1>4. BacklogIsNewer'
  BY <1>1 DEF OrderIInv, BacklogIsNewer, NewerThanQueued
<1>5. QED BY <1>2, <1>3, <1>4 DEF OrderIInv

(* The request being served goes into the empty queue.                      *)
LEMMA QueueIsFilled ==
    ASSUME OrderIInv, receiver \in Serving \ {"answering"}, mailbox = <<>>,
           mailbox' = <<Head(backlog).request>>, receiver' = "answering",
           UNCHANGED <<sent, active, taken, backlog>>
    PROVE  OrderIInv'
<1> DEFINE n == Head(backlog).request
<1>1. /\ 1 \in DOMAIN backlog /\ Head(backlog) = backlog[1] /\ n \in 1..MaxRequests
  BY HeadOfBacklog DEF OrderIInv, ReceiverHasItsRequest
<1>2. active < n /\ taken < n /\ n <= sent
  BY <1>1 DEF OrderIInv, BacklogIsNewer, BacklogIsInOrder, NewerThanQueued, Serving
<1>3. \A i \in DOMAIN backlog : i > 1 => n < backlog[i].request
  BY <1>1 DEF OrderIInv, QueueTypes, BacklogIsInOrder
<1>4. \A q \in 1..MaxRequests : mailbox' = <<q>> => q = n
  BY <1>1
<1>5. QueueTypes' /\ ReceiverHasItsRequest' /\ BacklogIsInOrder' /\ QueueIsInOrder'
  BY <1>1, <1>2, <1>4
     DEF OrderIInv, QueueTypes, ReceiverHasItsRequest, BacklogIsInOrder, QueueIsInOrder,
         Serving
<1>6. BacklogIsNewer'
  BY <1>3, <1>4 DEF OrderIInv, BacklogIsNewer, NewerThanQueued, Serving
<1>7. QED BY <1>5, <1>6 DEF OrderIInv

(* The queue is emptied by the receiver.                                    *)
LEMMA QueueIsEmptied ==
    ASSUME OrderIInv, mailbox' = <<>>,
           receiver' # "answering", receiver' \in {"waiting"} \cup Serving,
           receiver # "answering", receiver \in Serving,
           UNCHANGED <<sent, active, taken, backlog>>
    PROVE  OrderIInv'
<1>1. \A q \in 1..MaxRequests : mailbox' # <<q>>
  OBVIOUS
<1>2. QED
  BY <1>1 DEF OrderIInv, QueueTypes, ReceiverHasItsRequest, BacklogIsInOrder,
              BacklogIsNewer, NewerThanQueued, QueueIsInOrder

(* The Whisper node only adds the newest request, or withdraws it.          *)
LEMMA WhisperSteps ==
    ASSUME OrderIInv, NEW t, Send(t) \/ GiveUp \/ CloseWhisper \/ StartWhisperAgain
    PROVE  OrderIInv'
<1> USE ClassNodesAssumption
<1>1. CASE Send(t)
  <2>1. UNCHANGED <<active, taken, mailbox, receiver>>
    BY <1>1 DEF Send, cameraVars
  <2>2. CASE sent' = sent /\ backlog' = backlog
    BY <2>1, <2>2 DEF OrderIInv, QueueTypes, ReceiverHasItsRequest, BacklogIsInOrder,
                      BacklogIsNewer, NewerThanQueued, QueueIsInOrder
  <2>3. CASE ~(sent' = sent /\ backlog' = backlog)
    <3> DEFINE new == [request |-> sent', heard |-> TRUE]
    <3>1. /\ receiver \in {"waiting"} \cup Serving
          /\ sent' = sent + 1 /\ sent < MaxRequests /\ backlog' = Append(backlog, new)
      BY <1>1, <2>3 DEF Send
    <3>2. new \in Request /\ new.request = sent + 1
      BY <3>1 DEF OrderIInv, QueueTypes, Request
    <3> HIDE DEF new
    <3>3. /\ backlog \in Seq(Request) /\ backlog' \in Seq(Request)
          /\ Len(backlog') = Len(backlog) + 1
          /\ \A i \in DOMAIN backlog' :
                \/ i \in DOMAIN backlog /\ backlog'[i] = backlog[i]
                \/ i = Len(backlog) + 1 /\ backlog'[i] = new
      BY <3>1, <3>2 DEF OrderIInv, QueueTypes
    <3>4. QueueTypes'
      BY <2>1, <3>1, <3>3 DEF OrderIInv, QueueTypes
    <3>5. ReceiverHasItsRequest'
      BY <2>1, <3>3 DEF ReceiverHasItsRequest
    <3>6. BacklogIsInOrder'
      <4> \A i \in DOMAIN backlog : /\ backlog[i].request \in Nat
                                    /\ backlog[i].request <= sent
        BY RequestsAreNumbered DEF OrderIInv, BacklogIsInOrder
      <4> sent \in Nat
        BY DEF OrderIInv, QueueTypes
      <4>1. \A i \in DOMAIN backlog' : backlog'[i].request <= sent'
        BY <3>1, <3>2, <3>3
      <4>2. ASSUME NEW i \in DOMAIN backlog', NEW k \in DOMAIN backlog', i < k
            PROVE  backlog'[i].request < backlog'[k].request
        <5>1. i \in DOMAIN backlog /\ backlog'[i] = backlog[i]
          BY <3>3, <4>2
        <5>2. CASE k \in DOMAIN backlog /\ backlog'[k] = backlog[k]
          BY <4>2, <5>1, <5>2 DEF OrderIInv, BacklogIsInOrder
        <5>3. CASE backlog'[k] = new
          BY <3>2, <5>1, <5>3
        <5>4. QED BY <3>3, <5>2, <5>3
      <4>3. QED BY <4>1, <4>2 DEF BacklogIsInOrder
    <3>7. BacklogIsNewer'
      <4> DEFINE Newer(n) == /\ active' < n /\ taken' < n
                             /\ \A q \in 1..MaxRequests : mailbox' = <<q>> => q < n
      <4>1. Newer(sent + 1)
        BY <2>1 DEF OrderIInv, QueueTypes, QueueIsInOrder
      <4>2. \A i \in DOMAIN backlog :
               i > 1 \/ receiver # "answering" => Newer(backlog[i].request)
        BY <2>1 DEF OrderIInv, BacklogIsNewer, NewerThanQueued
      <4>3. ASSUME NEW i \in DOMAIN backlog', i > 1 \/ receiver' # "answering"
            PROVE  Newer(backlog'[i].request)
        <5>1. CASE i \in DOMAIN backlog /\ backlog'[i] = backlog[i]
          BY <2>1, <4>2, <4>3, <5>1
        <5>2. CASE backlog'[i] = new
          BY <3>2, <4>1, <5>2
        <5>3. QED BY <3>3, <5>1, <5>2
      <4>4. QED BY <4>3 DEF BacklogIsNewer, NewerThanQueued
    <3>8. QueueIsInOrder'
      BY <2>1, <3>1 DEF OrderIInv, QueueTypes, QueueIsInOrder
    <3>9. QED BY <3>4, <3>5, <3>6, <3>7, <3>8 DEF OrderIInv
  <2>4. QED BY <2>2, <2>3
<1>2. CASE GiveUp
  <2>1. UNCHANGED <<sent, active, taken, mailbox, receiver>>
    BY <1>2 DEF GiveUp, cameraVars
  <2>2. backlog \in Seq(Request)
    BY DEF OrderIInv, QueueTypes
  <2>3. /\ backlog' \in Seq(Request)
        /\ \A i \in DOMAIN backlog' :
              i \in DOMAIN backlog /\ backlog'[i].request = backlog[i].request
        /\ receiver \in Serving => backlog' # <<>>
    <3>1. CASE backlog' = backlog
      BY <2>2, <3>1 DEF OrderIInv, ReceiverHasItsRequest
    <3>2. CASE backlog' # backlog
      <4> DEFINE n == Len(backlog)
                 late == [request |-> sent, heard |-> FALSE]
      <4>1. /\ backlog # <<>> /\ Last(backlog).request = sent
            /\ \/ backlog' = Append(Front(backlog), late)
               \/ /\ backlog' = Front(backlog)
                  /\ receiver = "waiting" \/ n > 1
        BY <1>2, <3>2 DEF GiveUp
      <4>2. n \in Nat \ {0} /\ Last(backlog) = backlog[n] /\ backlog[n] \in Request
        BY <2>2, <4>1 DEF Last
      <4>3. late \in Request /\ late.request = backlog[n].request
        BY <4>1, <4>2 DEF Request
      <4>4. /\ Front(backlog) \in Seq(Request) /\ Len(Front(backlog)) = n - 1
            /\ \A i \in 1..(n - 1) : Front(backlog)[i] = backlog[i]
        BY <2>2, <4>1, FrontOfSequence
      <4> HIDE DEF late
      <4>5. CASE backlog' = Front(backlog) /\ (receiver = "waiting" \/ n > 1)
        BY <2>2, <4>2, <4>4, <4>5 DEF Serving
      <4>6. CASE backlog' = Append(Front(backlog), late)
        <5>1. /\ backlog' \in Seq(Request) /\ Len(backlog') = n
              /\ \A i \in 1..n : backlog'[i] = IF i = n THEN late ELSE backlog[i]
          BY <4>2, <4>3, <4>4, <4>6
        <5>2. QED BY <2>2, <4>2, <4>3, <5>1
      <4>7. QED BY <4>1, <4>5, <4>6
    <3>3. QED BY <3>1, <3>2
  <2>4. QueueTypes' /\ ReceiverHasItsRequest' /\ QueueIsInOrder'
    BY <2>1, <2>3 DEF OrderIInv, QueueTypes, ReceiverHasItsRequest, QueueIsInOrder
  <2>5. BacklogIsInOrder'
    BY <2>1, <2>3 DEF OrderIInv, BacklogIsInOrder
  <2>6. BacklogIsNewer'
    BY <2>1, <2>3 DEF OrderIInv, BacklogIsNewer, NewerThanQueued
  <2>7. QED BY <2>4, <2>5, <2>6 DEF OrderIInv
<1>3. CASE CloseWhisper \/ StartWhisperAgain
  BY <1>3 DEF CloseWhisper, StartWhisperAgain, receiverVars, cameraVars, OrderIInv,
              QueueTypes, ReceiverHasItsRequest, BacklogIsInOrder, BacklogIsNewer,
              NewerThanQueued, QueueIsInOrder
<1>4. QED BY <1>1, <1>2, <1>3

(* The receiver thread passes its requests on one after the other.          *)
LEMMA ReceiverSteps ==
    ASSUME OrderIInv, ReceiverThread
    PROVE  OrderIInv'
<1>1. CASE Bind \/ Accept
  <2>1. /\ UNCHANGED <<sent, active, taken, mailbox, backlog>>
        /\ receiver # "answering" /\ receiver' # "answering"
        /\ receiver' \in {"waiting", "ended"} \/ (receiver' = "putting" /\ backlog # <<>>)
    BY <1>1 DEF Bind, Accept, ReceiverKeeps, cameraVars
  <2>2. QED
    BY <2>1 DEF OrderIInv, QueueTypes, ReceiverHasItsRequest, BacklogIsInOrder,
                BacklogIsNewer, NewerThanQueued, QueueIsInOrder, Serving
<1>2. CASE Put
  <2>1. UNCHANGED <<sent, active, taken, backlog>> /\ receiver = "putting"
    BY <1>2 DEF Put, ReceiverKeeps, cameraVars
  <2>2. CASE mailbox = <<>>
    BY <1>2, <2>1, <2>2, QueueIsFilled DEF Put, Serving
  <2>3. CASE mailbox # <<>>
    <3>1. mailbox' = mailbox /\ receiver' = "evicting"
      BY <1>2, <2>3 DEF Put
    <3>2. QED
      BY <2>1, <3>1 DEF OrderIInv, QueueTypes, ReceiverHasItsRequest, BacklogIsInOrder,
                        BacklogIsNewer, NewerThanQueued, QueueIsInOrder, Serving
  <2>4. QED BY <2>2, <2>3
<1>3. CASE Evict
  BY <1>3, QueueIsEmptied DEF Evict, ReceiverKeeps, cameraVars, Serving
<1>4. CASE Replace
  <2>1. UNCHANGED <<sent, active, taken>> /\ receiver = "replacing" /\ backlog # <<>>
    BY <1>4 DEF Replace, ReceiverKeeps, cameraVars, OrderIInv, ReceiverHasItsRequest, Serving
  <2>2. CASE mailbox = <<>>
    BY <1>4, <2>1, <2>2, QueueIsFilled DEF Replace, Serving
  <2>3. CASE mailbox # <<>>
    BY <1>4, <2>1, <2>3, BacklogShrinks DEF Replace
  <2>4. QED BY <2>2, <2>3
<1>5. CASE AnswerRequest
  <2>1. /\ UNCHANGED <<sent, active, taken, mailbox>> /\ backlog # <<>>
        /\ receiver' = "waiting" /\ backlog' = Tail(backlog)
    BY <1>5 DEF AnswerRequest, ReceiverKeeps, cameraVars, OrderIInv, ReceiverHasItsRequest,
                Serving
  <2>2. QED BY <2>1, BacklogShrinks
<1>6. QED BY <1>1, <1>2, <1>3, <1>4, <1>5 DEF ReceiverThread

(* The camera loop takes what waits and puts it in force.                   *)
LEMMA CameraSteps ==
    ASSUME OrderIInv, CameraLoop \/ Interrupt
    PROVE  OrderIInv'
<1>1. CASE LoadModel \/ ReadFrame \/ Predict \/ Leave \/ Interrupt
  BY <1>1 DEF LoadModel, ReadFrame, Predict, Leave, Interrupt, CameraKeeps, whisperVars,
              OrderIInv, QueueTypes, ReceiverHasItsRequest, BacklogIsInOrder,
              BacklogIsNewer, NewerThanQueued, QueueIsInOrder
<1>2. CASE TakeRequest
  <2>1. /\ UNCHANGED <<sent, active, backlog, receiver>>
        /\ mailbox # <<>> /\ mailbox' = <<>> /\ taken' = Head(mailbox)
    BY <1>2 DEF TakeRequest, CameraKeeps, whisperVars
  <2>2. PICK q \in 1..MaxRequests : mailbox = <<q>>
    BY <2>1 DEF OrderIInv, QueueTypes
  <2>3. taken' = q /\ active < q /\ q <= sent
    BY <2>1, <2>2 DEF OrderIInv, QueueIsInOrder
  <2>4. \A n \in 1..MaxRequests : mailbox' # <<n>>
    BY <2>1
  <2>5. QueueTypes' /\ ReceiverHasItsRequest' /\ BacklogIsInOrder' /\ QueueIsInOrder'
    BY <2>1, <2>3, <2>4 DEF OrderIInv, QueueTypes, ReceiverHasItsRequest,
                            BacklogIsInOrder, QueueIsInOrder
  <2>6. BacklogIsNewer'
    BY <2>1, <2>2, <2>3, <2>4 DEF OrderIInv, BacklogIsNewer, NewerThanQueued
  <2>7. QED BY <2>5, <2>6 DEF OrderIInv
<1>3. CASE ApplyRequest
  <2>1. /\ UNCHANGED <<sent, backlog, receiver, mailbox>>
        /\ mailbox = <<>> /\ taken' = 0
        /\ active' = IF taken = 0 THEN active ELSE taken
    BY <1>3 DEF ApplyRequest, CameraKeeps, whisperVars
  <2>2. \A n \in 1..MaxRequests : mailbox # <<n>>
    BY <2>1
  <2>3. \A i \in DOMAIN backlog : backlog[i].request \in 1..MaxRequests
    BY RequestsAreNumbered, ClassNodesAssumption DEF OrderIInv
  <2>4. QueueTypes' /\ ReceiverHasItsRequest' /\ BacklogIsInOrder' /\ QueueIsInOrder'
    BY <2>1, <2>2 DEF OrderIInv, QueueTypes, ReceiverHasItsRequest, BacklogIsInOrder,
                      QueueIsInOrder
  <2>5. BacklogIsNewer'
    BY <2>1, <2>2, <2>3 DEF OrderIInv, BacklogIsNewer, NewerThanQueued
  <2>6. QED BY <2>4, <2>5 DEF OrderIInv
<1>4. CASE Exit
  <2>1. backlog' = <<>> /\ receiver' = "ended" /\ UNCHANGED <<sent, active, taken, mailbox>>
    BY <1>4 DEF Exit, CameraKeeps, whisperVars
  <2>2. QED
    BY <2>1 DEF OrderIInv, QueueTypes, ReceiverHasItsRequest, BacklogIsInOrder,
                BacklogIsNewer, QueueIsInOrder, Serving
<1>5. QED BY <1>1, <1>2, <1>3, <1>4 DEF CameraLoop

-----------------------------------------------------------------------------
(* THEOREMS *)

(* Requests stay in order from the Whisper node to the detector.            *)
THEOREM RequestsStayInOrder == Spec => []OrderIInv
<1>1. Init => OrderIInv
  <2> SUFFICES ASSUME Init PROVE OrderIInv
    OBVIOUS
  <2>1. \A q \in 1..MaxRequests : mailbox # <<q>>
    BY DEF Init
  <2>2. QED
    BY <2>1, ClassNodesAssumption
       DEF Init, OrderIInv, QueueTypes, ReceiverHasItsRequest, BacklogIsInOrder,
           BacklogIsNewer, QueueIsInOrder, Serving
<1>2. OrderIInv /\ [Next]_vars => OrderIInv'
  <2> SUFFICES ASSUME OrderIInv, [Next]_vars PROVE OrderIInv'
    OBVIOUS
  <2>1. CASE Next
    BY <2>1, WhisperSteps, ReceiverSteps, CameraSteps DEF Next
  <2>2. CASE UNCHANGED vars
    BY <2>2 DEF vars, whisperVars, receiverVars, cameraVars, OrderIInv, QueueTypes,
                ReceiverHasItsRequest, BacklogIsInOrder, BacklogIsNewer,
                NewerThanQueued, QueueIsInOrder
  <2>3. QED BY <2>1, <2>2
<1>3. QED BY <1>1, <1>2, PTL DEF Spec

(* Both nodes together implement LatestRequest: classes in force never give *)
(* way to older ones.                                                       *)
THEOREM NodesImplementLatest == Spec => NewestClassesWin
<1>1. Init => Latest!LatestInit
  BY DEF Init, Latest!LatestInit
<1>2. OrderIInv /\ [Next]_vars => [Latest!LatestNext]_<<sent, active>>
  <2> SUFFICES ASSUME OrderIInv, [Next]_vars
               PROVE  [Latest!LatestNext]_<<sent, active>>
    OBVIOUS
  <2>1. ASSUME NEW t, Send(t)
        PROVE  (sent' = sent + 1 \/ sent' = sent) /\ active' = active
    BY <2>1 DEF Send, cameraVars
  <2>2. CASE \E t \in Asking : Send(t)
    BY <2>1, <2>2 DEF Latest!LatestNext, Latest!Make
  <2>3. CASE ApplyRequest
    <3>1. CASE taken = 0
      BY <2>3, <3>1 DEF ApplyRequest, CameraKeeps, whisperVars
    <3>2. CASE taken # 0
      <4>1. active' = taken /\ sent' = sent
        BY <2>3, <3>2 DEF ApplyRequest, CameraKeeps, whisperVars
      <4>2. taken \in (active + 1)..sent
        BY <3>2 DEF OrderIInv, QueueTypes, QueueIsInOrder
      <4>3. QED
        BY <4>1, <4>2 DEF Latest!LatestNext, Latest!TakeEffect
    <3>3. QED BY <3>1, <3>2
  <2>4. ASSUME Next, ~ \E t \in Asking : Send(t), ~ApplyRequest
        PROVE  UNCHANGED <<sent, active>>
    BY <2>4 DEF Next, GiveUp, CloseWhisper, StartWhisperAgain, ReceiverThread, CameraLoop,
                Interrupt, Bind, Accept, Put, Evict, Replace, AnswerRequest, ReceiverKeeps,
                LoadModel, ReadFrame, TakeRequest, Predict, Leave, Exit, CameraKeeps,
                whisperVars, receiverVars, cameraVars
  <2>5. CASE UNCHANGED vars
    BY <2>5 DEF vars, whisperVars, cameraVars
  <2>6. QED BY <2>2, <2>3, <2>4, <2>5
<1>3. QED
  BY <1>1, <1>2, RequestsStayInOrder, PTL
     DEF Spec, NewestClassesWin, Latest!LatestSpec

-----------------------------------------------------------------------------
(* No request that was answered is lost                                     *)

(* Request n, or a newer one, is in force, or on its way from the receiver  *)
(* to the detector.                                                         *)
Arrived(n) ==
    \/ n <= active \/ n <= taken
    \/ \E q \in 1..MaxRequests : mailbox = <<q>> /\ n <= q
    \/ receiver = "replacing" /\ n <= Head(backlog).request
    \/ camera = "ended"

(* Only the receiver puts requests into the queue, so the one that it has   *)
(* emptied stays empty.                                                     *)
RoomForTheSecondPut == receiver = "replacing" => mailbox = <<>>

(* What was answered has arrived, and so has what is about to be answered.  *)
AnswerIInv ==
    /\ answered \in 0..MaxRequests
    /\ Arrived(answered)
    /\ receiver = "answering" => Arrived(Head(backlog).request)
    /\ RoomForTheSecondPut

(* What has arrived stays so while the receiver and its request stay, and   *)
(* whatever the camera loop does.                                           *)
LEMMA ArrivedStays ==
    ASSUME OrderIInv, NEW n \in 0..MaxRequests, Arrived(n), CameraLoop \/ Interrupt
    PROVE  Arrived(n)'
<1> USE ClassNodesAssumption
<1>0. /\ sent \in 0..MaxRequests /\ active \in 0..sent /\ taken \in 0..sent
      /\ \A q \in 1..MaxRequests : mailbox = <<q>> => taken < q /\ active < q
      /\ taken # 0 => active < taken
  BY DEF OrderIInv, QueueTypes, QueueIsInOrder
<1>9. taken \in Nat /\ active \in Nat /\ n \in Nat
  BY DEF OrderIInv, QueueTypes
<1>1. CASE LoadModel \/ ReadFrame \/ Predict \/ Leave \/ Interrupt
  BY <1>1 DEF LoadModel, ReadFrame, Predict, Leave, Interrupt, CameraKeeps, Arrived, InLoop
<1>2. CASE TakeRequest
  <2>1. PICK q \in 1..MaxRequests : mailbox = <<q>>
    BY <1>2 DEF TakeRequest, OrderIInv, QueueTypes
  <2>2. taken' = q /\ UNCHANGED <<backlog, receiver, camera, active>>
    BY <1>2, <2>1 DEF TakeRequest
  <2>3. \A r \in 1..MaxRequests : mailbox = <<r>> => r = q
    BY <2>1
  <2>4. taken < q /\ active < q /\ q \in Nat
    BY <1>0, <2>1
  <2>5. CASE n <= active \/ n <= taken \/ n <= q
    BY <1>9, <2>2, <2>4, <2>5 DEF Arrived
  <2>6. CASE receiver = "replacing" /\ n <= Head(backlog).request
    BY <2>2, <2>6 DEF Arrived
  <2>7. CASE camera = "ended"
    BY <2>2, <2>7 DEF Arrived
  <2>8. QED
    BY <2>3, <2>5, <2>6, <2>7 DEF Arrived
<1>3. CASE ApplyRequest
  <2>1. /\ UNCHANGED <<backlog, receiver, mailbox>> /\ camera = "taking"
        /\ active' = IF taken = 0 THEN active ELSE taken
    BY <1>3 DEF ApplyRequest
  <2>2. taken \in Nat /\ active \in Nat /\ n \in Nat /\ (taken # 0 => active < taken)
    BY <1>0, <1>9
  <2>3. active <= active' /\ taken <= active' /\ active' \in Nat
    BY <2>1, <2>2
  <2>4. CASE n <= active \/ n <= taken
    BY <2>2, <2>3, <2>4 DEF Arrived
  <2>5. CASE \/ \E q \in 1..MaxRequests : mailbox = <<q>> /\ n <= q
             \/ receiver = "replacing" /\ n <= Head(backlog).request
    BY <2>1, <2>5 DEF Arrived
  <2>6. QED
    BY <2>1, <2>4, <2>5 DEF Arrived
<1>4. CASE Exit
  BY <1>4 DEF Exit, Arrived
<1>5. QED
  BY <1>1, <1>2, <1>3, <1>4 DEF CameraLoop

(* The request that the receiver serves stays the first of its backlog.     *)
LEMMA ServedStays ==
    ASSUME OrderIInv, receiver \in Serving, NEW t,
           Send(t) \/ GiveUp \/ CloseWhisper \/ StartWhisperAgain
    PROVE  Head(backlog').request = Head(backlog).request
<1>0. backlog \in Seq(Request) /\ backlog # <<>>
  BY DEF OrderIInv, QueueTypes, ReceiverHasItsRequest
<1>1. CASE backlog' = backlog
  BY <1>1
<1>2. CASE Send(t) /\ backlog' # backlog
  <2>1. PICK new : backlog' = Append(backlog, new)
    BY <1>2 DEF Send
  <2>2. Head(backlog') = Head(backlog)
    BY <1>0, <2>1
  <2>3. QED
    BY <2>2
<1>3. CASE GiveUp /\ backlog' # backlog
  <2> DEFINE n == Len(backlog)
             late == [request |-> sent, heard |-> FALSE]
  <2>1. /\ Last(backlog).request = sent
        /\ backlog' = Append(Front(backlog), late) \/ (backlog' = Front(backlog) /\ n > 1)
    BY <1>3 DEF GiveUp, Serving
  <2>2. n \in Nat \ {0} /\ Last(backlog) = backlog[n]
    BY <1>0 DEF Last
  <2>3. /\ Front(backlog) \in Seq(Request) /\ Len(Front(backlog)) = n - 1
        /\ \A i \in 1..(n - 1) : Front(backlog)[i] = backlog[i]
    BY <1>0, FrontOfSequence
  <2>4. late.request = sent
    OBVIOUS
  <2> HIDE DEF late
  <2>5. CASE n > 1
    <3>1. Head(Front(backlog)) = backlog[1] /\ Front(backlog) # <<>>
      BY <2>2, <2>3, <2>5
    <3>2. Head(Append(Front(backlog), late)) = backlog[1]
      BY <2>2, <2>3, <2>5, <3>1
    <3>3. QED
      BY <1>0, <2>1, <3>1, <3>2
  <2>6. CASE n = 1
    <3>1. Front(backlog) = <<>>
      BY <2>3, <2>6
    <3>2. Head(Append(Front(backlog), late)) = late
      BY <3>1
    <3>3. QED
      BY <1>0, <2>1, <2>2, <2>4, <2>6, <3>2
  <2>7. QED
    BY <2>2, <2>5, <2>6
<1>4. QED
  BY <1>1, <1>2, <1>3 DEF CloseWhisper, StartWhisperAgain, receiverVars

LEMMA AnswersStay ==
    ASSUME OrderIInv, OrderIInv', AnswerIInv, Next
    PROVE  AnswerIInv'
<1> USE ClassNodesAssumption
<1>0. /\ sent \in 0..MaxRequests /\ active \in 0..sent /\ taken \in 0..sent
      /\ mailbox = <<>> \/ \E q \in 1..MaxRequests : mailbox = <<q>>
      /\ receiver \in Serving => Head(backlog).request \in 1..MaxRequests
  BY HeadOfBacklog DEF OrderIInv, QueueTypes, ReceiverHasItsRequest
<1>1. CASE (\E t \in Asking : Send(t)) \/ GiveUp \/ CloseWhisper \/ StartWhisperAgain
  <2>1. UNCHANGED <<active, taken, mailbox, receiver, camera, answered>>
    BY <1>1 DEF Send, GiveUp, CloseWhisper, StartWhisperAgain, receiverVars, cameraVars
  <2>2. receiver \in Serving => Head(backlog').request = Head(backlog).request
    BY <1>1, ServedStays DEF Serving
  <2>3. QED
    BY <2>1, <2>2 DEF AnswerIInv, Arrived, RoomForTheSecondPut, Serving
<1>2. CASE CameraLoop \/ Interrupt
  <2>1. answered' = answered
    BY <1>2 DEF CameraLoop, Interrupt, LoadModel, ReadFrame, TakeRequest, ApplyRequest, Predict,
                Leave, Exit, CameraKeeps
  <2>2. Arrived(answered)'
    BY <1>2, <2>1, ArrivedStays DEF AnswerIInv, Arrived
  <2>3. receiver' \in {receiver, "ended"} /\ (receiver' = "ended" \/ backlog' = backlog)
        /\ mailbox' \in {mailbox, <<>>}
    BY <1>0, <1>2 DEF CameraLoop, Interrupt, LoadModel, ReadFrame, TakeRequest, ApplyRequest,
                      Predict, Leave, Exit, CameraKeeps, whisperVars
  <2>4. ASSUME receiver' = "answering" PROVE Arrived(Head(backlog).request)'
    <3>1. receiver = "answering" /\ backlog' = backlog
      BY <2>3, <2>4
    <3>2. Arrived(Head(backlog).request)
      BY <3>1 DEF AnswerIInv
    <3>3. QED
      BY <1>0, <1>2, <3>1, <3>2, ArrivedStays DEF Arrived, Serving
  <2>5. RoomForTheSecondPut'
    BY <2>3 DEF AnswerIInv, RoomForTheSecondPut
  <2>6. QED
    BY <2>1, <2>2, <2>4, <2>5 DEF AnswerIInv
<1>3. CASE ReceiverThread
  <2>1. UNCHANGED <<active, taken, camera>>
    BY <1>3 DEF ReceiverThread, Bind, Accept, Put, Evict, Replace, AnswerRequest, ReceiverKeeps,
                cameraVars
  <2>2. CASE Bind \/ Accept
    BY <2>1, <2>2 DEF Bind, Accept, AnswerIInv, Arrived, RoomForTheSecondPut
  <2>3. CASE Put \/ Replace
    <3>1. answered' = answered /\ receiver \in Serving
      BY <2>3 DEF Put, Replace, Serving
    <3>2. CASE mailbox = <<>>
      <4> DEFINE n == Head(backlog).request
      <4>1. mailbox' = <<n>> /\ backlog' = backlog /\ receiver' = "answering"
            /\ n \in 1..MaxRequests
        BY <1>0, <2>3, <3>1, <3>2 DEF Put, Replace
      <4>2. \A q \in 1..MaxRequests : mailbox # <<q>>
        BY <3>2
      <4>3. Arrived(n)'
        BY <4>1 DEF Arrived
      <4>4. Arrived(answered)'
        BY <1>0, <2>1, <3>1, <4>1, <4>2 DEF AnswerIInv, Arrived
      <4>5. QED
        BY <3>1, <4>1, <4>3, <4>4 DEF AnswerIInv, RoomForTheSecondPut
    <3>3. CASE mailbox # <<>>
      <4>1. Put /\ mailbox' = mailbox /\ receiver' = "evicting" /\ receiver = "putting"
            /\ backlog' = backlog
        BY <2>3, <3>3 DEF Put, Replace, AnswerIInv, RoomForTheSecondPut
      <4>2. QED
        BY <2>1, <3>1, <4>1 DEF AnswerIInv, Arrived, RoomForTheSecondPut
    <3>4. QED
      BY <3>2, <3>3
  <2>4. CASE Evict
    <3>1. /\ receiver = "evicting" /\ mailbox' = <<>> /\ receiver' = "replacing"
          /\ UNCHANGED <<answered, backlog>>
      BY <2>4 DEF Evict
    <3>2. NewerThanQueued(Head(backlog).request)
      BY <3>1, HeadOfBacklog DEF OrderIInv, BacklogIsNewer, ReceiverHasItsRequest, Serving
    <3>3. Arrived(answered)'
      BY <1>0, <2>1, <3>1, <3>2 DEF AnswerIInv, Arrived, NewerThanQueued, Serving
    <3>4. QED
      BY <3>1, <3>3 DEF AnswerIInv, RoomForTheSecondPut
  <2>5. CASE AnswerRequest
    <3>1. /\ receiver = "answering" /\ receiver' = "waiting" /\ mailbox' = mailbox
          /\ answered' \in {answered, Head(backlog).request}
      BY <2>5 DEF AnswerRequest
    <3>2. Arrived(answered') /\ answered' \in 0..MaxRequests
      BY <1>0, <3>1 DEF AnswerIInv, Serving
    <3>3. Arrived(answered)'
      BY <2>1, <3>1, <3>2 DEF Arrived
    <3>4. QED
      BY <3>1, <3>2, <3>3 DEF AnswerIInv, RoomForTheSecondPut
  <2>6. QED
    BY <1>3, <2>2, <2>3, <2>4, <2>5 DEF ReceiverThread
<1>4. QED
  BY <1>1, <1>2, <1>3 DEF Next

(* Classes that were answered with 204 are in force, or newer ones are, or  *)
(* they are on their way to the detector, until the YOLO node ends; and the *)
(* second put_nowait of update_classes never finds the queue full.          *)
THEOREM AnsweredRequestsArrive == Spec => []AnswerIInv
<1>1. Init => AnswerIInv
  BY ClassNodesAssumption DEF Init, AnswerIInv, Arrived, RoomForTheSecondPut
<1>2. OrderIInv /\ OrderIInv' /\ AnswerIInv /\ [Next]_vars => AnswerIInv'
  <2>1. ASSUME OrderIInv, OrderIInv', AnswerIInv, Next PROVE AnswerIInv'
    BY <2>1, AnswersStay
  <2>2. ASSUME AnswerIInv, UNCHANGED vars PROVE AnswerIInv'
    BY <2>2 DEF vars, whisperVars, receiverVars, cameraVars, AnswerIInv, Arrived,
                RoomForTheSecondPut
  <2>3. QED
    BY <2>1, <2>2
<1>3. QED
  BY <1>1, <1>2, RequestsStayInOrder, PTL DEF Spec

-----------------------------------------------------------------------------
(* Types                                                                    *)

(* What OrderIInv does not say.                                             *)
OtherTypes ==
    /\ whisper \in {"listening", "sending", "closing", "ended"}
    /\ text \in Text(MaxText) /\ runs \in 1..MaxRuns
    /\ answered \in 0..sent
    /\ camera \in {"loading", "leaving", "joining", "ended"} \cup InLoop
    /\ shutdown \in BOOLEAN

LEMMA NoTextIsText == <<>> \in Text(MaxText)
<1>1. <<>> \in [1..0 -> Alnum \cup Other \cup {Space}]
  OBVIOUS
<1>2. 0 \in 0..MaxText
  BY ClassNodesAssumption
<1>3. QED
  BY <1>1, <1>2 DEF Text

LEMMA OtherTypesStay ==
    ASSUME OrderIInv, OrderIInv', OtherTypes, [Next]_vars
    PROVE  OtherTypes'
<1> USE ClassNodesAssumption
<1>1. sent \in Nat /\ sent' \in Nat /\ <<>> \in Text(MaxText)
  BY NoTextIsText DEF OrderIInv, QueueTypes
<1>2. ASSUME NEW t \in Asking, Send(t) PROVE OtherTypes'
  <2>1. t \in Text(MaxText)
    BY DEF Asking
  <2>2. QED
    BY <1>1, <1>2, <2>1 DEF Send, OtherTypes, cameraVars, InLoop
<1>3. CASE GiveUp \/ CloseWhisper \/ StartWhisperAgain
  BY <1>1, <1>3 DEF GiveUp, CloseWhisper, StartWhisperAgain, OtherTypes, receiverVars,
                    cameraVars, InLoop
<1>4. CASE CameraLoop \/ Interrupt
  BY <1>4 DEF CameraLoop, Interrupt, LoadModel, ReadFrame, TakeRequest, ApplyRequest, Predict,
              Leave, Exit, CameraKeeps, whisperVars, OtherTypes, InLoop
<1>5. CASE Bind \/ Accept \/ Put \/ Evict \/ Replace
  BY <1>5 DEF Bind, Accept, Put, Evict, Replace, ReceiverKeeps, cameraVars, OtherTypes
<1>6. CASE AnswerRequest
  <2>1. Head(backlog).request \in 0..sent
    <3>1. backlog # <<>>
      BY <1>6 DEF AnswerRequest, OrderIInv, ReceiverHasItsRequest, Serving
    <3>2. QED
      BY <1>1, <3>1, HeadOfBacklog DEF OrderIInv, BacklogIsInOrder
  <2>2. QED
    BY <1>1, <1>6, <2>1 DEF AnswerRequest, ReceiverKeeps, cameraVars, OtherTypes
<1>7. CASE UNCHANGED vars
  BY <1>7 DEF vars, whisperVars, receiverVars, cameraVars, OtherTypes
<1>8. QED
  BY <1>2, <1>3, <1>4, <1>5, <1>6, <1>7 DEF Next, ReceiverThread

(* Every variable keeps its type: no answer is to a request that was never  *)
(* sent (comm.py receive_classes).                                          *)
THEOREM NodeTypes == Spec => []TypeOK
<1>1. ASSUME Init PROVE OtherTypes
  <2>1. text \in Text(MaxText)
    BY <1>1, NoTextIsText DEF Init
  <2>2. answered \in 0..sent /\ runs \in 1..MaxRuns
    BY <1>1, ClassNodesAssumption DEF Init
  <2>3. QED
    BY <1>1, <2>1, <2>2 DEF Init, OtherTypes
<1>2. OrderIInv /\ OtherTypes => TypeOK
  BY DEF OrderIInv, QueueTypes, OtherTypes, TypeOK, Request
<1>3. QED
  BY <1>1, <1>2, OtherTypesStay, RequestsStayInOrder, PTL DEF Spec

-----------------------------------------------------------------------------
(* Names and classes                                                        *)

(* Names are tried in an order: no two at once, and none before itself.     *)
LEMMA TriedInOrder ==
    /\ IsFiniteSet(DOMAIN Dictionary)
    /\ \A i, k \in DOMAIN Dictionary : i = k \/ Before(i, k) \/ Before(k, i)
    /\ \A i \in DOMAIN Dictionary : ~Before(i, i)
    /\ \A h, i, k \in DOMAIN Dictionary : Before(h, i) /\ Before(i, k) => Before(h, k)
<1>1. DOMAIN Dictionary = 1..Len(Dictionary) /\ Len(Dictionary) \in Nat
  BY TextMatchingAssumption
<1>2. ASSUME NEW i \in DOMAIN Dictionary
      PROVE  i \in Nat /\ Length(Dictionary[i].alias) \in Nat
  <2> DEFINE alias == Dictionary[i].alias
             letters == {k \in DOMAIN alias : alias[k] # Space}
  <2>1. alias \in Seq(Alnum \cup Other \cup {Space})
    BY TextMatchingAssumption
  <2>2. DOMAIN alias = 1..Len(alias) /\ Len(alias) \in Nat
    BY <2>1
  <2>3. IsFiniteSet(DOMAIN alias)
    BY <2>2, FS_Interval
  <2>4. IsFiniteSet(letters)
    BY <2>3, FS_Subset
  <2>5. Cardinality(letters) \in Nat
    BY <2>4, FS_CardinalityType
  <2>6. QED
    BY <1>1, <2>5 DEF Length, Letters
<1>3. IsFiniteSet(DOMAIN Dictionary)
  BY <1>1, FS_Interval
<1>4. QED
  BY <1>2, <1>3 DEF Before

(* extract says each class once, and says every class of which it finds a   *)
(* name, whatever the dictionary and the text: that a class is passed over  *)
(* because a longer name was found hides no class.                          *)
THEOREM ClassesAreNamedOnce ==
    ASSUME NEW t
    PROVE  /\ \A i, k \in Found(t) : Dictionary[i].class = Dictionary[k].class => i = k
           /\ \A i \in DOMAIN Dictionary : Find(t, Dictionary[i].alias) > 0 =>
                 \E k \in Found(t) : Dictionary[k].class = Dictionary[i].class
<1>1. ASSUME NEW i \in Found(t), NEW k \in Found(t), Dictionary[i].class = Dictionary[k].class
      PROVE  i = k
  BY <1>1, TriedInOrder DEF Found
<1>2. ASSUME NEW i \in DOMAIN Dictionary, Find(t, Dictionary[i].alias) > 0
      PROVE  \E k \in Found(t) : Dictionary[k].class = Dictionary[i].class
  <2> DEFINE Names == {k \in DOMAIN Dictionary : /\ Dictionary[k].class = Dictionary[i].class
                                                 /\ Find(t, Dictionary[k].alias) > 0}
             Sooner(k) == {h \in DOMAIN Dictionary : Before(h, k)}
             Sets == {Sooner(k) : k \in Names}
             D == DOMAIN Dictionary
  <2>1. IsWellFoundedOn(StrictSubsetOrdering(D), SUBSET D)
    BY TriedInOrder, FS_StrictSubsetOrderingWellFounded, FS_FiniteSubsetsOfFinite
  <2>2. Sets \subseteq SUBSET D /\ Sets # {}
    BY <1>2
  <2>3. PICK E \in Sets : \A F \in Sets : <<F, E>> \notin StrictSubsetOrdering(D)
    <3> HIDE DEF Sets, D
    <3> QED BY <2>1, <2>2, WFMin
  <2>4. PICK k \in Names : E = Sooner(k)
    BY <2>3
  <2>5. ASSUME NEW h \in Names, Before(h, k) PROVE FALSE
    <3>1. Sooner(h) \subseteq Sooner(k) /\ Sooner(h) # Sooner(k)
      BY <2>5, TriedInOrder
    <3>2. <<Sooner(h), Sooner(k)>> \in StrictSubsetOrdering(D)
      BY <3>1 DEF StrictSubsetOrdering
    <3>3. QED
      BY <2>3, <2>4, <3>2
  <2>6. k \in Found(t)
    BY <2>5 DEF Found
  <2>7. QED
    BY <2>6
<1>3. QED
  BY <1>1, <1>2

-----------------------------------------------------------------------------
(* LISTS IN ORDER *)

StrictOrder(S, order) ==
    /\ \A x \in S : <<x, x>> \notin order
    /\ \A x, y \in S : x = y \/ <<x, y>> \in order \/ <<y, x>> \in order
    /\ \A x, y, z \in S : <<x, y>> \in order /\ <<y, z>> \in order => <<x, z>> \in order

Below(S, order, x) == {y \in S : <<y, x>> \in order}

(* The number of members below one tells it from all the others.            *)
LEMMA LaterHaveMoreBelow ==
    ASSUME NEW S, IsFiniteSet(S), NEW order, StrictOrder(S, order), NEW x \in S
    PROVE  /\ Cardinality(S) \in Nat
           /\ Cardinality(Below(S, order, x)) \in Nat
           /\ Cardinality(Below(S, order, x)) < Cardinality(S)
           /\ \A y \in S : <<x, y>> \in order =>
                Cardinality(Below(S, order, x)) < Cardinality(Below(S, order, y))
<1>1. Cardinality(S) \in Nat
  BY FS_CardinalityType
<1>2. ASSUME NEW T, IsFiniteSet(T), NEW U \in SUBSET T, U # T
      PROVE  Cardinality(U) \in Nat /\ Cardinality(U) < Cardinality(T)
  <2>1. Cardinality(T) \in Nat /\ Cardinality(U) \in Nat
    BY <1>2, FS_Subset, FS_CardinalityType
  <2>2. Cardinality(U) <= Cardinality(T) /\ Cardinality(T) # Cardinality(U)
    BY <1>2, FS_Subset
  <2>3. QED
    BY <2>1, <2>2
<1>3. Below(S, order, x) \in SUBSET S /\ x \notin Below(S, order, x)
  BY DEF Below, StrictOrder
<1>4. Cardinality(Below(S, order, x)) \in Nat /\ Cardinality(Below(S, order, x)) < Cardinality(S)
  BY <1>2, <1>3
<1>5. ASSUME NEW y \in S, <<x, y>> \in order
      PROVE  Cardinality(Below(S, order, x)) < Cardinality(Below(S, order, y))
  <2>1. Below(S, order, y) \in SUBSET S /\ x \in Below(S, order, y)
    BY <1>5 DEF Below
  <2>2. Below(S, order, x) \in SUBSET Below(S, order, y)
    BY <1>5 DEF Below, StrictOrder
  <2>3. IsFiniteSet(Below(S, order, y))
    BY <2>1, FS_Subset
  <2>4. QED
    BY <1>2, <1>3, <2>1, <2>2, <2>3
<1>6. QED
  BY <1>1, <1>4, <1>5

(* InOrder lists every member of a finite set once, and in the order.       *)
LEMMA InOrderLists ==
    ASSUME NEW S, IsFiniteSet(S), NEW order, StrictOrder(S, order)
    PROVE  /\ Cardinality(S) \in Nat
           /\ DOMAIN InOrder(S, order) = 1..Cardinality(S)
           /\ \A n \in 1..Cardinality(S) :
                /\ InOrder(S, order)[n] \in S
                /\ Cardinality(Below(S, order, InOrder(S, order)[n])) = n - 1
           /\ \A x \in S : \E n \in 1..Cardinality(S) : InOrder(S, order)[n] = x
           /\ \A m, n \in 1..Cardinality(S) :
                m < n <=> <<InOrder(S, order)[m], InOrder(S, order)[n]>> \in order
<1> DEFINE M == Cardinality(S)
           Rank(x) == Cardinality(Below(S, order, x))
           rank == [x \in S |-> Rank(x) + 1]
           list == InOrder(S, order)
<1>1. M \in Nat
  BY FS_CardinalityType
<1>2. \A x \in S : Rank(x) \in Nat /\ Rank(x) < M
  BY LaterHaveMoreBelow
<1>3. \A x, y \in S : <<x, y>> \in order => Rank(x) < Rank(y)
  BY LaterHaveMoreBelow
<1>4. ASSUME NEW x \in S, NEW y \in S, Rank(x) = Rank(y)
      PROVE  x = y
  <2> HIDE DEF Rank
  <2>1. <<x, y>> \notin order /\ <<y, x>> \notin order
    BY <1>2, <1>3, <1>4
  <2>2. QED
    BY <2>1 DEF StrictOrder
<1>5. \A n \in 1..M : \E x \in S : Rank(x) = n - 1
  <2> HIDE DEF Rank
  <2>1. rank \in [S -> 1..M]
    BY <1>1, <1>2
  <2>2. \A x, y \in S : rank[x] = rank[y] => x = y
    BY <1>2, <1>4
  <2>3. rank \in Injection(S, 1..M)
    BY <2>1, <2>2 DEF Injection, IsInjective
  <2>4. IsFiniteSet(1..M) /\ Cardinality(1..M) = M
    BY <1>1, FS_Interval
  <2>5. rank \in Surjection(S, 1..M)
    BY <2>3, <2>4, FS_Injection
  <2>6. \A n \in 1..M : \E x \in S : rank[x] = n
    BY <2>5 DEF Surjection
  <2>7. QED
    BY <1>1, <1>2, <2>6
<1>6. DOMAIN list = 1..M
  BY DEF InOrder
<1>7. \A n \in 1..M : list[n] \in S /\ Rank(list[n]) = n - 1
  BY <1>5 DEF InOrder, Below
<1>8. \A x \in S : \E n \in 1..M : list[n] = x
  <2> SUFFICES ASSUME NEW x \in S PROVE \E n \in 1..M : list[n] = x
    OBVIOUS
  <2> HIDE DEF Rank, list
  <2>1. Rank(x) + 1 \in 1..M
    BY <1>1, <1>2
  <2>2. list[Rank(x) + 1] = x
    BY <1>2, <1>4, <1>7, <2>1
  <2>3. QED
    BY <2>1, <2>2
<1>9. ASSUME NEW m \in 1..M, NEW n \in 1..M
      PROVE  m < n <=> <<list[m], list[n]>> \in order
  <2> HIDE DEF Rank, list
  <2>1. Rank(list[m]) = m - 1 /\ Rank(list[n]) = n - 1 /\ list[m] \in S /\ list[n] \in S
    BY <1>7
  <2>2. CASE m < n
    <3>1. Rank(list[m]) < Rank(list[n])
      BY <2>1, <2>2
    <3>2. list[m] # list[n] /\ <<list[n], list[m]>> \notin order
      BY <1>2, <1>3, <2>1, <3>1
    <3>3. QED
      <4>1. \A x, y \in S : x = y \/ <<x, y>> \in order \/ <<y, x>> \in order
        BY DEF StrictOrder
      <4>2. QED
        BY <2>1, <2>2, <3>2, <4>1
  <2>3. CASE ~(m < n)
    BY <1>1, <1>3, <2>1, <2>3
  <2>4. QED
    BY <2>2, <2>3
<1>10. QED
  BY <1>1, <1>6, <1>7, <1>8, <1>9

(* There is only one such list.                                             *)
LEMMA ListedOneWay ==
    ASSUME NEW S, IsFiniteSet(S), NEW order, StrictOrder(S, order),
           NEW M \in Nat, NEW f \in [1..M -> S],
           \A x \in S : \E n \in 1..M : f[n] = x,
           \A m, n \in 1..M : m < n => <<f[m], f[n]>> \in order
    PROVE  /\ M = Cardinality(S)
           /\ f = InOrder(S, order)
<1> DEFINE list == InOrder(S, order)
<1>1. ASSUME NEW m \in 1..M, NEW n \in 1..M, f[m] = f[n]
      PROVE  m = n
  <2>1. <<f[m], f[n]>> \notin order /\ <<f[n], f[m]>> \notin order
    BY <1>1 DEF StrictOrder
  <2>2. QED
    BY <2>1
<1>2. ASSUME NEW m \in 1..M, NEW n \in 1..M
      PROVE  m < n <=> <<f[m], f[n]>> \in order
  <2>1. f[m] \in S /\ f[n] \in S
    OBVIOUS
  <2>2. n < m => <<f[n], f[m]>> \in order
    OBVIOUS
  <2>3. ~(<<f[m], f[n]>> \in order /\ <<f[n], f[m]>> \in order)
    BY <2>1 DEF StrictOrder
  <2>4. m = n => <<f[m], f[n]>> \notin order
    BY <2>1 DEF StrictOrder
  <2>5. QED
    BY <2>2, <2>3, <2>4
<1>3. M = Cardinality(S)
  <2>1. f \in Bijection(1..M, S)
    BY <1>1 DEF Bijection, Injection, Surjection, IsInjective
  <2>2. QED
    BY <2>1, FS_CountingElements DEF ExistsBijection
<1>4. ASSUME NEW n \in 1..M PROVE f[n] = list[n]
  <2> DEFINE B == Below(S, order, f[n])
             g == [m \in 1..(n - 1) |-> f[m]]
  <2>1. \A m \in 1..(n - 1) : m \in 1..M /\ m < n
    OBVIOUS
  <2>2. g \in [1..(n - 1) -> B]
    BY <1>2, <2>1 DEF Below
  <2>3. \A x \in B : \E m \in 1..(n - 1) : g[m] = x
    <3> SUFFICES ASSUME NEW x \in B PROVE \E m \in 1..(n - 1) : g[m] = x
      OBVIOUS
    <3>1. PICK m \in 1..M : f[m] = x
      BY DEF Below
    <3>2. m < n
      BY <1>2, <3>1 DEF Below
    <3>3. QED
      BY <3>1, <3>2
  <2>4. \A k, m \in 1..(n - 1) : g[k] = g[m] => k = m
    BY <1>1, <2>1
  <2>5. g \in Bijection(1..(n - 1), B)
    BY <2>2, <2>3, <2>4 DEF Bijection, Injection, Surjection, IsInjective
  <2>6. n - 1 \in Nat
    OBVIOUS
  <2>7. Cardinality(B) = n - 1
    BY <2>5, <2>6, FS_CountingElements DEF ExistsBijection
  <2>8. list[n] \in S /\ Cardinality(Below(S, order, list[n])) = n - 1
    BY <1>3, InOrderLists
  <2>9. \A x, y \in S : <<x, y>> \in order =>
             Cardinality(Below(S, order, x)) # Cardinality(Below(S, order, y))
    BY LaterHaveMoreBelow
  <2>10. QED
    BY <2>7, <2>8, <2>9 DEF StrictOrder
<1>5. QED
  <2> DEFINE e(n) == CHOOSE x \in S : Cardinality({y \in S : <<y, x>> \in order}) = n - 1
  <2>1. list = [n \in 1..M |-> e(n)]
    BY <1>3 DEF InOrder
  <2> HIDE DEF e, list
  <2>2. f = [n \in 1..M |-> f[n]]
    OBVIOUS
  <2>3. f = list
    BY <1>4, <2>1, <2>2
  <2>4. QED
    BY <1>3, <2>3 DEF list

-----------------------------------------------------------------------------
(* PLACES IN A TEXT *)

LEMMA PlacesAreOrdered ==
    ASSUME NEW K \in SUBSET Nat
    PROVE  StrictOrder(K, {p \in K \X K : p[1] < p[2]})
<1> DEFINE order == {p \in K \X K : p[1] < p[2]}
<1>1. \A x, y \in K : <<x, y>> \in order <=> x < y
  OBVIOUS
<1> HIDE DEF order
<1>2. \A x \in K : <<x, x>> \notin order
  BY <1>1
<1>3. ASSUME NEW x \in K, NEW y \in K
      PROVE  x = y \/ <<x, y>> \in order \/ <<y, x>> \in order
  <2>1. (<<x, y>> \in order <=> x < y) /\ (<<y, x>> \in order <=> y < x)
    BY <1>1
  <2>2. QED
    BY <2>1
<1>4. ASSUME NEW x \in K, NEW y \in K, NEW z \in K,
             <<x, y>> \in order, <<y, z>> \in order
      PROVE  <<x, z>> \in order
  <2>1. x < y /\ y < z
    BY <1>1, <1>4
  <2>2. x < z
    BY <2>1
  <2>3. QED
    BY <1>1, <2>2
<1>5. StrictOrder(K, order)
  BY <1>2, <1>3, <1>4 DEF StrictOrder
<1>6. QED
  BY <1>5 DEF order

LEMMA AscendingLists ==
    ASSUME NEW K \in SUBSET Nat, IsFiniteSet(K)
    PROVE  /\ Cardinality(K) \in Nat
           /\ DOMAIN Ascending(K) = 1..Cardinality(K)
           /\ \A n \in 1..Cardinality(K) : Ascending(K)[n] \in K
           /\ \A k \in K : \E n \in 1..Cardinality(K) : Ascending(K)[n] = k
           /\ \A m, n \in 1..Cardinality(K) : m < n <=> Ascending(K)[m] < Ascending(K)[n]
<1> DEFINE order == {p \in K \X K : p[1] < p[2]}
<1>1. \A x, y \in K : <<x, y>> \in order <=> x < y
  OBVIOUS
<1>2. StrictOrder(K, order)
  BY PlacesAreOrdered
<1>3. Ascending(K) = InOrder(K, order)
  BY DEF Ascending
<1> HIDE DEF order
<1>4. /\ Cardinality(K) \in Nat
      /\ DOMAIN Ascending(K) = 1..Cardinality(K)
      /\ \A n \in 1..Cardinality(K) : Ascending(K)[n] \in K
      /\ \A k \in K : \E n \in 1..Cardinality(K) : Ascending(K)[n] = k
  BY <1>2, <1>3, InOrderLists
<1>5. \A m, n \in 1..Cardinality(K) :
         m < n <=> <<Ascending(K)[m], Ascending(K)[n]>> \in order
  BY <1>2, <1>3, InOrderLists
<1>6. QED
  BY <1>1, <1>4, <1>5

LEMMA AscendingOneWay ==
    ASSUME NEW K \in SUBSET Nat, IsFiniteSet(K),
           NEW M \in Nat, NEW f \in [1..M -> K],
           \A k \in K : \E n \in 1..M : f[n] = k,
           \A m, n \in 1..M : m < n => f[m] < f[n]
    PROVE  /\ M = Cardinality(K)
           /\ f = Ascending(K)
<1> DEFINE order == {p \in K \X K : p[1] < p[2]}
<1>1. \A m, n \in 1..M : m < n => <<f[m], f[n]>> \in order
  OBVIOUS
<1>2. StrictOrder(K, order)
  BY PlacesAreOrdered
<1>3. Ascending(K) = InOrder(K, order)
  BY DEF Ascending
<1> HIDE DEF order
<1>4. M = Cardinality(K) /\ f = InOrder(K, order)
  <2>1. \A k \in K : \E n \in 1..M : f[n] = k
    OBVIOUS
  <2>2. QED
    BY <1>1, <1>2, <2>1, ListedOneWay, ZenonT(60)
<1>5. QED
  BY <1>3, <1>4

LEMMA LeastAndGreatest ==
    ASSUME NEW K \in SUBSET Nat, IsFiniteSet(K), K # {}
    PROVE  /\ \E k \in K : \A j \in K : k <= j
           /\ \E k \in K : \A j \in K : j <= k
<1> DEFINE M == Cardinality(K)
           at == Ascending(K)
<1>1. M \in Nat /\ M # 0
  BY FS_EmptySet, FS_CardinalityType
<1>2. /\ \A n \in 1..M : at[n] \in K
      /\ \A k \in K : \E n \in 1..M : at[n] = k
      /\ \A m, n \in 1..M : m < n <=> at[m] < at[n]
  BY AscendingLists
<1> HIDE DEF M, at
<1>3. ASSUME NEW j \in K PROVE at[1] <= j /\ j <= at[M]
  <2>1. PICK n \in 1..M : at[n] = j
    BY <1>2
  <2>2. 1 \in 1..M /\ M \in 1..M
    BY <1>1
  <2>3. at[1] \in Nat /\ at[M] \in Nat
    BY <1>2, <2>2
  <2>4. 1 = n \/ at[1] < at[n]
    BY <1>2, <2>2
  <2>5. M = n \/ at[n] < at[M]
    BY <1>2, <2>2
  <2>6. QED
    BY <2>1, <2>3, <2>4, <2>5
<1>4. at[1] \in K /\ at[M] \in K
  BY <1>1, <1>2
<1>5. QED
  BY <1>3, <1>4

(* First is a place if and only if there is a stretch to begin there.       *)
LEMMA FirstFinds ==
    ASSUME NEW L \in Nat, NEW T \in SUBSET ((1..L) \X (1..L))
    PROVE  /\ First(T) \in Nat
           /\ First(T) > 0 <=> T # {}
<1> DEFINE K == {p[1] : p \in T}
<1>1. CASE T = {}
  BY <1>1 DEF First
<1>2. CASE T # {}
  <2>1. K \in SUBSET (1..L) /\ K # {}
    BY <1>2
  <2>2. IsFiniteSet(K)
    <3>1. IsFiniteSet(1..L)
      BY FS_Interval
    <3>2. QED
      BY <2>1, <3>1, FS_Subset
  <2>3. \E k \in K : \A j \in K : k <= j
    BY <2>1, <2>2, LeastAndGreatest
  <2>4. First(T) = Min(K)
    BY <1>2 DEF First
  <2> HIDE DEF K
  <2>5. Min(K) \in K
    BY <2>3 DEF Min
  <2>6. QED
    <3>1. Min(K) \in 1..L
      BY <2>1, <2>5
    <3>2. QED
      BY <1>2, <2>4, <3>1
<1>3. QED
  BY <1>1, <1>2

LEMMA KeepLists ==
    ASSUME NEW K \in SUBSET Nat, IsFiniteSet(K), NEW t
    PROVE  /\ Keep(t, K) = [n \in 1..Cardinality(K) |-> t[Ascending(K)[n]]]
           /\ \A k \in K : \E n \in DOMAIN Keep(t, K) : Keep(t, K)[n] = t[k]
           /\ \A n \in DOMAIN Keep(t, K) : \E k \in K : Keep(t, K)[n] = t[k]
<1> DEFINE M == Cardinality(K)
           at == Ascending(K)
<1>1. /\ DOMAIN at = 1..M
      /\ \A n \in 1..M : at[n] \in K
      /\ \A k \in K : \E n \in 1..M : at[n] = k
  BY AscendingLists
<1>2. Keep(t, K) = [n \in 1..M |-> t[at[n]]]
  BY <1>1 DEF Keep
<1>3. ASSUME NEW k \in K PROVE \E n \in DOMAIN Keep(t, K) : Keep(t, K)[n] = t[k]
  <2>1. PICK n \in 1..M : at[n] = k
    BY <1>1
  <2> HIDE DEF M, at
  <2>2. QED
    BY <1>2, <2>1
<1>4. ASSUME NEW n \in DOMAIN Keep(t, K) PROVE \E k \in K : Keep(t, K)[n] = t[k]
  <2> HIDE DEF M, at
  <2>1. n \in 1..M
    BY <1>2
  <2>2. QED
    BY <1>1, <1>2, <2>1
<1>5. QED
  BY <1>2, <1>3, <1>4

(* What is kept depends only on what stands at those places.                *)
LEMMA KeepAgrees ==
    ASSUME NEW K \in SUBSET Nat, IsFiniteSet(K), NEW t, NEW u,
           \A k \in K : t[k] = u[k]
    PROVE  Keep(t, K) = Keep(u, K)
<1>1. \A n \in 1..Cardinality(K) : Ascending(K)[n] \in K
  BY AscendingLists
<1>2. /\ Keep(t, K) = [n \in 1..Cardinality(K) |-> t[Ascending(K)[n]]]
      /\ Keep(u, K) = [n \in 1..Cardinality(K) |-> u[Ascending(K)[n]]]
  BY KeepLists
<1>3. QED
  BY <1>1, <1>2

-----------------------------------------------------------------------------
(* WHAT IS FOUND AND WHAT IS MENTIONED *)

Symbols == Alnum \cup Other \cup {Space}

LEMMA TextPlaces ==
    ASSUME NEW t \in Seq(Symbols)
    PROVE  /\ Len(t) \in Nat
           /\ DOMAIN t = 1..Len(t)
           /\ Letters(t) \in SUBSET Nat /\ IsFiniteSet(Letters(t))
           /\ Letters(t) \subseteq DOMAIN t
           /\ Letters(t) \cup Gaps(t) \in SUBSET Nat /\ IsFiniteSet(Letters(t) \cup Gaps(t))
           /\ Letters(t) \cup Gaps(t) \subseteq DOMAIN t
<1>1. Len(t) \in Nat /\ DOMAIN t = 1..Len(t)
  OBVIOUS
<1>2. IsFiniteSet(DOMAIN t)
  BY <1>1, FS_Interval
<1>3. Letters(t) \subseteq DOMAIN t /\ Gaps(t) \subseteq DOMAIN t
  BY DEF Letters, Gaps
<1>4. DOMAIN t \subseteq Nat
  BY <1>1
<1>5. /\ Letters(t) \in SUBSET DOMAIN t
      /\ Letters(t) \cup Gaps(t) \in SUBSET DOMAIN t
  BY <1>3
<1>6. IsFiniteSet(Letters(t)) /\ IsFiniteSet(Letters(t) \cup Gaps(t))
  BY <1>2, <1>5, FS_Subset
<1>7. QED
  BY <1>1, <1>4, <1>5, <1>6

LEMMA PartOfText ==
    ASSUME NEW t \in Seq(Symbols), NEW c \in DOMAIN t, NEW d \in DOMAIN t, c <= d
    PROVE  /\ SubSeq(t, c, d) \in Seq(Symbols)
           /\ Len(SubSeq(t, c, d)) = d - c + 1
           /\ DOMAIN SubSeq(t, c, d) = 1..(d - c + 1)
           /\ \A k \in 1..(d - c + 1) : SubSeq(t, c, d)[k] = t[c + k - 1]
           /\ \A k \in 1..(d - c + 1) : k \in Letters(SubSeq(t, c, d)) <=> c + k - 1 \in Letters(t)
<1> DEFINE part == SubSeq(t, c, d)
<1>1. Len(t) \in Nat /\ DOMAIN t = 1..Len(t) /\ c \in Int /\ d \in Int
  BY TextPlaces
<1>2. \A i \in c..d : i \in DOMAIN t /\ t[i] \in Symbols
  BY <1>1
<1>3. /\ part \in Seq(Symbols)
      /\ Len(part) = IF c <= d THEN d - c + 1 ELSE 0
      /\ \A i \in 1..(d - c + 1) : part[i] = t[c + i - 1]
  BY <1>1, <1>2, SubSeqProperties
<1>4. part \in Seq(Symbols) /\ Len(part) = d - c + 1
  BY <1>3
<1>5. DOMAIN part = 1..(d - c + 1)
  BY <1>4
<1> HIDE DEF part
<1>6. ASSUME NEW k \in 1..(d - c + 1)
      PROVE  k \in Letters(part) <=> c + k - 1 \in Letters(t)
  <2>1. c + k - 1 \in DOMAIN t
    BY <1>1
  <2>2. k \in DOMAIN part /\ part[k] = t[c + k - 1]
    BY <1>3, <1>5
  <2>3. QED
    BY <2>1, <2>2 DEF Letters
<1>7. QED
  BY <1>3, <1>4, <1>5, <1>6 DEF part

(* The letters a to b of a text are those of any part of the text that      *)
(* begins after letter a - 1 and ends before letter b + 1.                  *)
LEMMA LettersOfPart ==
    ASSUME NEW t \in Seq(Symbols), NEW c \in DOMAIN t, NEW d \in DOMAIN t, c <= d,
           NEW a \in 1..Cardinality(Letters(t)), NEW b \in 1..Cardinality(Letters(t)), a <= b,
           \A n \in 1..Cardinality(Letters(t)) :
              c <= Ascending(Letters(t))[n] /\ Ascending(Letters(t))[n] <= d
                 <=> a <= n /\ n <= b
    PROVE  Normalize(SubSeq(t, c, d)) = SubSeq(Normalize(t), a, b)
<1> DEFINE L == Letters(t)
           N == Cardinality(L)
           at == Ascending(L)
           part == SubSeq(t, c, d)
           M == b - a + 1
           f == [n \in 1..M |-> at[a + n - 1] - c + 1]
           whole == Normalize(t)
<1>1. /\ N \in Nat
      /\ \A n \in 1..N : at[n] \in L
      /\ \A k \in L : \E n \in 1..N : at[n] = k
      /\ \A m, n \in 1..N : m < n <=> at[m] < at[n]
  BY TextPlaces, AscendingLists
<1>2. L \in SUBSET Nat /\ L \subseteq DOMAIN t /\ DOMAIN t = 1..Len(t) /\ Len(t) \in Nat
  BY TextPlaces
<1>3. M \in Nat /\ M >= 1 /\ a \in Nat /\ b \in Nat /\ c \in Nat /\ d \in Nat
  BY <1>1, <1>2
<1>4. /\ part \in Seq(Symbols) /\ DOMAIN part = 1..(d - c + 1)
      /\ \A k \in 1..(d - c + 1) : part[k] = t[c + k - 1]
      /\ \A k \in 1..(d - c + 1) : k \in Letters(part) <=> c + k - 1 \in L
  BY PartOfText
<1>5. Letters(part) \in SUBSET Nat /\ IsFiniteSet(Letters(part)) /\ Letters(part) \subseteq 1..(d - c + 1)
  BY <1>4, TextPlaces
<1>6. \A n \in 1..N : c <= at[n] /\ at[n] <= d <=> a <= n /\ n <= b
  OBVIOUS
<1>7. whole = [n \in 1..N |-> t[at[n]]]
  BY TextPlaces, KeepLists DEF Normalize
<1> HIDE DEF L, N, at, part, whole
<1>8. \A n \in 1..M : a + n - 1 \in 1..N /\ a <= a + n - 1 /\ a + n - 1 <= b
  BY <1>1, <1>3 DEF N, L
<1> HIDE DEF M
<1>9. ASSUME NEW n \in 1..M
      PROVE  /\ f[n] \in Letters(part) /\ f[n] \in 1..(d - c + 1)
             /\ part[f[n]] = t[at[a + n - 1]]
  <2>1. at[a + n - 1] \in L /\ at[a + n - 1] \in Nat /\ c <= at[a + n - 1] /\ at[a + n - 1] <= d
    BY <1>1, <1>2, <1>6, <1>8
  <2>2. f[n] = at[a + n - 1] - c + 1
    OBVIOUS
  <2>3. f[n] \in 1..(d - c + 1) /\ c + f[n] - 1 = at[a + n - 1]
    BY <1>3, <2>1, <2>2
  <2>4. QED
    BY <1>4, <2>1, <2>3
<1>10. f \in [1..M -> Letters(part)]
  BY <1>9
<1>11. ASSUME NEW k \in Letters(part) PROVE \E n \in 1..M : f[n] = k
  <2>1. k \in 1..(d - c + 1) /\ c + k - 1 \in L
    BY <1>4, <1>5
  <2>2. PICK m \in 1..N : at[m] = c + k - 1
    BY <1>1, <2>1
  <2>3. a <= m /\ m <= b
    BY <1>3, <1>6, <2>1, <2>2
  <2>4. m - a + 1 \in 1..M /\ a + (m - a + 1) - 1 = m
    BY <1>3, <2>3 DEF M
  <2>5. f[m - a + 1] = at[m] - c + 1
    BY <2>4
  <2>6. QED
    <3>1. k \in Nat /\ at[m] = c + k - 1
      BY <1>3, <2>1, <2>2
    <3>2. f[m - a + 1] = k
      BY <1>3, <2>5, <3>1
    <3>3. QED
      BY <2>4, <3>2
<1>12. ASSUME NEW m \in 1..M, NEW n \in 1..M, m < n PROVE f[m] < f[n]
  <2>1. at[a + m - 1] < at[a + n - 1]
    BY <1>1, <1>3, <1>8, <1>12
  <2>2. at[a + m - 1] \in Nat /\ at[a + n - 1] \in Nat
    BY <1>1, <1>2, <1>8
  <2>3. QED
    BY <1>3, <2>1, <2>2
<1>13. M = Cardinality(Letters(part)) /\ f = Ascending(Letters(part))
  <2> HIDE DEF f
  <2>1. QED
    BY <1>3, <1>5, <1>10, <1>11, <1>12, AscendingOneWay
<1>14. Normalize(part) = [n \in 1..M |-> part[f[n]]]
  <2> HIDE DEF f
  <2>1. QED
    BY <1>5, <1>13, KeepLists DEF Normalize
<1>15. Normalize(part) = [n \in 1..M |-> whole[a + n - 1]]
  <2>1. \A n \in 1..M : part[f[n]] = whole[a + n - 1]
    BY <1>7, <1>8, <1>9
  <2> HIDE DEF f
  <2>2. QED
    BY <1>14, <2>1
<1>16. SubSeq(whole, a, b) = [n \in 1..M |-> whole[a + n - 1]]
  <2> DEFINE W == {whole[m] : m \in a..b}
  <2>1. a \in Int /\ b \in Int
    BY <1>3
  <2>2. \A n \in a..b : whole[n] \in W
    OBVIOUS
  <2> HIDE DEF W
  <2>3. /\ SubSeq(whole, a, b) \in Seq(W)
        /\ Len(SubSeq(whole, a, b)) = IF a <= b THEN b - a + 1 ELSE 0
        /\ \A n \in 1..(b - a + 1) : SubSeq(whole, a, b)[n] = whole[a + n - 1]
    BY <2>1, <2>2, SubSeqProperties
  <2>4. Len(SubSeq(whole, a, b)) = M
    BY <2>3 DEF M
  <2>5. SubSeq(whole, a, b) = [n \in 1..M |-> SubSeq(whole, a, b)[n]]
    BY <2>3, <2>4
  <2>6. QED
    BY <2>3, <2>5 DEF M
<1>17. QED
  BY <1>15, <1>16 DEF L, N, at, part, whole

(* A Korean name is found if and only if some part of the text is that name *)
(* but for the space in it.                                                 *)
LEMMA KoreanIsFound ==
    ASSUME NEW t \in Seq(Symbols), NEW alias \in Seq(Symbols), Letters(alias) # {}
    PROVE  FindKorean(t, alias) > 0 <=>
              \E p \in Stretches(t) : Normalize(SubSeq(t, p[1], p[2])) = Normalize(alias)
<1> DEFINE L == Letters(t)
           N == Cardinality(L)
           at == Ascending(L)
           whole == Normalize(t)
           T == {p \in Stretches(whole) : SubSeq(whole, p[1], p[2]) = Normalize(alias)}
<1>1. /\ N \in Nat
      /\ \A n \in 1..N : at[n] \in L
      /\ \A k \in L : \E n \in 1..N : at[n] = k
      /\ \A m, n \in 1..N : m < n <=> at[m] < at[n]
  BY TextPlaces, AscendingLists
<1>2. L \in SUBSET Nat /\ L \subseteq DOMAIN t /\ DOMAIN t = 1..Len(t) /\ Len(t) \in Nat
  BY TextPlaces
<1>3. DOMAIN whole = 1..N
  BY TextPlaces, KeepLists DEF Normalize
<1>4. \A n \in 1..N : at[n] \in Nat /\ at[n] \in DOMAIN t
  BY <1>1, <1>2
<1>5. FindKorean(t, alias) = First(T)
  BY DEF FindKorean
<1>6. T \in SUBSET ((1..N) \X (1..N))
  <2> HIDE DEF whole, N
  <2>1. QED
    BY <1>3 DEF Stretches
<1>7. FindKorean(t, alias) > 0 <=> T # {}
  <2> HIDE DEF T, N
  <2>1. First(T) > 0 <=> T # {}
    BY <1>1, <1>6, FirstFinds
  <2>2. QED
    BY <1>5, <2>1
<1>8. ASSUME NEW a \in 1..N, NEW b \in 1..N, a <= b,
             NEW c \in DOMAIN t, NEW d \in DOMAIN t, c <= d,
             \A n \in 1..N : c <= at[n] /\ at[n] <= d <=> a <= n /\ n <= b
      PROVE  Normalize(SubSeq(t, c, d)) = SubSeq(whole, a, b)
  BY <1>8, LettersOfPart
<1> HIDE DEF L, N, at, whole
<1>9. ASSUME T # {}
      PROVE  \E p \in Stretches(t) : Normalize(SubSeq(t, p[1], p[2])) = Normalize(alias)
  <2>1. PICK q \in T : TRUE
    BY <1>9
  <2> DEFINE a == q[1]
             b == q[2]
             c == at[a]
             d == at[b]
  <2>2. a \in 1..N /\ b \in 1..N /\ a <= b /\ SubSeq(whole, a, b) = Normalize(alias)
    BY <1>3 DEF Stretches
  <2> HIDE DEF a, b
  <2>3. c \in DOMAIN t /\ d \in DOMAIN t /\ c \in Nat /\ d \in Nat
    BY <1>4, <2>2
  <2>4. c <= d
    BY <1>1, <2>2, <2>3
  <2>5. ASSUME NEW n \in 1..N
        PROVE  c <= at[n] /\ at[n] <= d <=> a <= n /\ n <= b
    <3>1. at[n] \in Nat /\ n \in Nat /\ a \in Nat /\ b \in Nat
      BY <1>4, <2>2
    <3>2. c <= at[n] <=> ~(n < a)
      BY <1>1, <2>2, <2>3, <3>1
    <3>3. at[n] <= d <=> ~(b < n)
      BY <1>1, <2>2, <2>3, <3>1
    <3>4. QED
      BY <3>1, <3>2, <3>3
  <2>6. Normalize(SubSeq(t, c, d)) = Normalize(alias)
    BY <1>8, <2>2, <2>3, <2>4, <2>5
  <2> HIDE DEF c, d
  <2>7. <<c, d>> \in Stretches(t)
    BY <2>3, <2>4 DEF Stretches
  <2>8. QED
    BY <2>6, <2>7
<1>10. ASSUME NEW p \in Stretches(t), Normalize(SubSeq(t, p[1], p[2])) = Normalize(alias)
       PROVE  T # {}
  <2> DEFINE c == p[1]
             d == p[2]
             part == SubSeq(t, c, d)
             I == {n \in 1..N : c <= at[n] /\ at[n] <= d}
  <2>1. c \in DOMAIN t /\ d \in DOMAIN t /\ c <= d /\ c \in Nat /\ d \in Nat
    BY <1>2 DEF Stretches
  <2> HIDE DEF c, d
  <2>2. /\ part \in Seq(Symbols) /\ DOMAIN part = 1..(d - c + 1)
        /\ \A k \in 1..(d - c + 1) : k \in Letters(part) <=> c + k - 1 \in L
    BY <2>1, PartOfText DEF L
  <2>3. Normalize(part) = Normalize(alias)
    BY <1>10 DEF c, d
  <2> HIDE DEF part
  <2>4. Letters(part) # {}
    <3>1. PICK k \in Letters(alias) : TRUE
      OBVIOUS
    <3>2. PICK n \in DOMAIN Normalize(alias) : TRUE
      BY <3>1, TextPlaces, KeepLists DEF Normalize
    <3>3. n \in DOMAIN Normalize(part)
      BY <2>3, <3>2
    <3>4. QED
      BY <2>2, <3>3, TextPlaces, KeepLists DEF Normalize
  <2>5. PICK k \in Letters(part) : TRUE
    BY <2>4
  <2>6. k \in 1..(d - c + 1) /\ c + k - 1 \in L
    BY <2>2, <2>5, TextPlaces
  <2>7. PICK m \in 1..N : at[m] = c + k - 1
    BY <1>1, <2>6
  <2>8. m \in I
    BY <2>1, <2>6, <2>7
  <2>9. I \in SUBSET Nat /\ I # {} /\ I \in SUBSET (1..N)
    BY <1>1, <2>8
  <2>10. IsFiniteSet(I)
    <3>1. IsFiniteSet(1..N)
      BY <1>1, FS_Interval
    <3>2. QED
      BY <2>9, <3>1, FS_Subset
  <2>11. PICK a \in I : \A n \in I : a <= n
    <3> HIDE DEF I
    <3> QED BY <2>9, <2>10, LeastAndGreatest
  <2>12. PICK b \in I : \A n \in I : n <= b
    <3> HIDE DEF I
    <3> QED BY <2>9, <2>10, LeastAndGreatest
  <2>13. a \in 1..N /\ b \in 1..N /\ a <= b /\ a \in Nat /\ b \in Nat
    BY <1>1, <2>11, <2>12
  <2>14. ASSUME NEW n \in 1..N
         PROVE  c <= at[n] /\ at[n] <= d <=> a <= n /\ n <= b
    <3>1. CASE n \in I
      BY <2>11, <2>12, <3>1
    <3>2. CASE n \notin I
      <4>1. SUFFICES ASSUME a <= n, n <= b PROVE FALSE
        BY <3>2
      <4>2. n = a \/ n = b \/ (a < n /\ n < b)
        BY <2>13, <4>1
      <4>3. a < n /\ n < b
        BY <2>11, <2>12, <3>2, <4>2
      <4>4. at[a] < at[n] /\ at[n] < at[b]
        BY <1>1, <2>13, <4>3
      <4>5. c <= at[a] /\ at[b] <= d /\ at[a] \in Nat /\ at[b] \in Nat /\ at[n] \in Nat
        BY <1>4, <2>11, <2>12, <2>13
      <4>6. QED
        BY <2>1, <3>2, <4>4, <4>5
    <3>3. QED
      BY <3>1, <3>2
  <2>15. SubSeq(whole, a, b) = Normalize(alias)
    <3> HIDE DEF I
    <3>1. Normalize(SubSeq(t, c, d)) = SubSeq(whole, a, b)
      BY <1>8, <2>1, <2>13, <2>14
    <3>2. QED
      BY <2>3, <3>1 DEF part
  <2>16. <<a, b>> \in T
    BY <1>3, <2>13, <2>15 DEF Stretches
  <2>17. QED
    BY <2>16
<1>11. QED
  BY <1>7, <1>9, <1>10

LEMMA WordsOfText ==
    ASSUME NEW u \in Seq(Symbols)
    PROVE  /\ \A k \in Letters(u) : \E n \in DOMAIN Words(u) : Words(u)[n] = u[k]
           /\ \A n \in DOMAIN Words(u) : \E k \in DOMAIN u : Words(u)[n] = u[k]
<1> DEFINE K == Letters(u) \cup Gaps(u)
<1>1. K \in SUBSET Nat /\ IsFiniteSet(K) /\ K \subseteq DOMAIN u
  BY TextPlaces
<1>2. Words(u) = Keep(u, K) /\ Letters(u) \subseteq K
  BY DEF Words
<1> HIDE DEF K
<1>3. ASSUME NEW k \in K PROVE \E n \in DOMAIN Keep(u, K) : Keep(u, K)[n] = u[k]
  BY <1>1, KeepLists
<1>4. ASSUME NEW n \in DOMAIN Keep(u, K) PROVE \E k \in K : Keep(u, K)[n] = u[k]
  BY <1>1, KeepLists
<1>5. QED
  BY <1>1, <1>2, <1>3, <1>4

(* Space at the end of a part does not count.                               *)
LEMMA WordsEndWithLetter ==
    ASSUME NEW t \in Seq(Symbols),
           NEW c \in DOMAIN t, NEW e \in DOMAIN t, NEW d \in DOMAIN t, c <= e, e <= d,
           \A k \in (e + 1)..d : t[k] = Space
    PROVE  Words(SubSeq(t, c, d)) = Words(SubSeq(t, c, e))
<1> DEFINE u == SubSeq(t, c, d)
           v == SubSeq(t, c, e)
<1>1. c \in Nat /\ d \in Nat /\ e \in Nat /\ c <= d
  BY TextPlaces
<1>2. /\ u \in Seq(Symbols) /\ DOMAIN u = 1..(d - c + 1)
      /\ \A k \in 1..(d - c + 1) : u[k] = t[c + k - 1]
      /\ \A k \in 1..(d - c + 1) : k \in Letters(u) <=> c + k - 1 \in Letters(t)
  BY <1>1, PartOfText
<1>3. /\ v \in Seq(Symbols) /\ DOMAIN v = 1..(e - c + 1)
      /\ \A k \in 1..(e - c + 1) : v[k] = t[c + k - 1]
      /\ \A k \in 1..(e - c + 1) : k \in Letters(v) <=> c + k - 1 \in Letters(t)
  BY PartOfText
<1>4. /\ Letters(u) \subseteq DOMAIN u /\ Letters(v) \subseteq DOMAIN v
      /\ Letters(u) \cup Gaps(u) \in SUBSET Nat
      /\ IsFiniteSet(Letters(u) \cup Gaps(u))
  BY <1>2, <1>3, TextPlaces
<1> HIDE DEF u, v
<1>5. 1..(e - c + 1) \subseteq 1..(d - c + 1)
  BY <1>1
<1>6. \A k \in 1..(e - c + 1) : u[k] = v[k]
  BY <1>2, <1>3, <1>5
<1>7. ASSUME NEW k \in Letters(u) PROVE k \in 1..(e - c + 1)
  <2>1. k \in 1..(d - c + 1) /\ c + k - 1 \in Letters(t)
    BY <1>2, <1>4
  <2>2. c + k - 1 \notin (e + 1)..d
    BY <2>1 DEF Letters
  <2>3. k \in Nat /\ 1 <= k /\ k <= d - c + 1
    BY <1>1, <2>1
  <2>4. ~(e + 1 <= c + k - 1)
    BY <1>1, <2>2, <2>3
  <2>5. QED
    BY <1>1, <2>3, <2>4
<1>8. Letters(u) = Letters(v)
  <2>1. \A k \in 1..(e - c + 1) : k \in Letters(u) <=> k \in Letters(v)
    BY <1>2, <1>3, <1>5
  <2>2. QED
    BY <1>3, <1>4, <1>7, <2>1
<1>9. ASSUME NEW k \in DOMAIN u, k + 1 \in Letters(u) PROVE k \in 1..(e - c + 1)
  <2>1. k \in Nat /\ 1 <= k /\ k + 1 \in 1..(e - c + 1)
    BY <1>1, <1>2, <1>7, <1>9
  <2>2. QED
    BY <1>1, <2>1
<1>10. Gaps(u) = Gaps(v)
  <2>1. ASSUME NEW k \in Gaps(u) PROVE k \in Gaps(v)
    <3>1. /\ k \in DOMAIN u /\ u[k] = Space /\ k + 1 \in Letters(u)
          /\ \E j \in Letters(u) : j < k
      BY DEF Gaps
    <3>2. k \in DOMAIN v /\ v[k] = u[k]
      BY <1>3, <1>6, <1>9, <3>1
    <3>3. QED
      BY <1>8, <3>1, <3>2 DEF Gaps
  <2>2. ASSUME NEW k \in Gaps(v) PROVE k \in Gaps(u)
    <3>1. /\ k \in DOMAIN v /\ v[k] = Space /\ k + 1 \in Letters(v)
          /\ \E j \in Letters(v) : j < k
      BY DEF Gaps
    <3>2. k \in DOMAIN u /\ v[k] = u[k]
      BY <1>2, <1>3, <1>5, <1>6, <3>1
    <3>3. QED
      BY <1>8, <3>1, <3>2 DEF Gaps
  <2>3. QED
    BY <2>1, <2>2
<1> DEFINE K == Letters(u) \cup Gaps(u)
<1>11. \A k \in K : u[k] = v[k]
  <2>1. \A k \in K : k \in 1..(e - c + 1)
    BY <1>7, <1>9 DEF Gaps
  <2>2. QED
    BY <1>6, <2>1
<1>12. Words(u) = Keep(u, K) /\ Words(v) = Keep(v, K)
  BY <1>8, <1>10 DEF Words
<1>13. Keep(u, K) = Keep(v, K)
  <2> HIDE DEF K
  <2>1. K \in SUBSET Nat /\ IsFiniteSet(K)
    BY <1>4 DEF K
  <2>2. QED
    BY <1>11, <2>1, KeepAgrees
<1>14. QED
  BY <1>12, <1>13 DEF u, v

(* Every letter or digit stands in a run.                                   *)
LEMMA RunsAround ==
    ASSUME NEW t \in Seq(Symbols), NEW c \in DOMAIN t, t[c] \in Alnum
    PROVE  /\ (c > 1 => t[c - 1] \notin Alnum) => \E r \in Runs(t) : r[1] = c
           /\ (c < Len(t) => t[c + 1] \notin Alnum) => \E r \in Runs(t) : r[2] = c
<1>1. Len(t) \in Nat /\ DOMAIN t = 1..Len(t) /\ c \in Nat /\ 1 <= c /\ c <= Len(t)
  BY TextPlaces
<1>2. IsFiniteSet(DOMAIN t)
  BY <1>1, FS_Interval
<1>3. ASSUME c > 1 => t[c - 1] \notin Alnum
      PROVE  \E r \in Runs(t) : r[1] = c
  <2> DEFINE E == {j \in DOMAIN t : c <= j /\ \A k \in c..j : t[k] \in Alnum}
  <2>1. c \in E
    BY <1>1
  <2>2. E \in SUBSET DOMAIN t /\ E \in SUBSET Nat
    BY <1>1
  <2>3. IsFiniteSet(E)
    BY <1>2, <2>2, FS_Subset
  <2>4. PICK j \in E : \A i \in E : i <= j
    <3> HIDE DEF E
    <3> QED BY <2>1, <2>2, <2>3, LeastAndGreatest
  <2>5. j \in DOMAIN t /\ j \in Nat /\ c <= j /\ \A k \in c..j : t[k] \in Alnum
    BY <1>1, <2>4
  <2>6. ASSUME j < Len(t) PROVE t[j + 1] \notin Alnum
    <3>1. SUFFICES ASSUME t[j + 1] \in Alnum PROVE FALSE
      OBVIOUS
    <3>2. j + 1 \in DOMAIN t /\ c <= j + 1
      BY <1>1, <2>5, <2>6
    <3>3. \A k \in c..(j + 1) : t[k] \in Alnum
      BY <1>1, <2>5, <3>1
    <3>4. j + 1 \in E
      BY <3>2, <3>3
    <3>5. QED
      BY <2>4, <2>5, <3>4
  <2>7. <<c, j>> \in Runs(t)
    BY <1>3, <2>5, <2>6 DEF Runs, Stretches
  <2>8. QED
    BY <2>7
<1>4. ASSUME c < Len(t) => t[c + 1] \notin Alnum
      PROVE  \E r \in Runs(t) : r[2] = c
  <2> DEFINE E == {i \in DOMAIN t : i <= c /\ \A k \in i..c : t[k] \in Alnum}
  <2>1. c \in E
    BY <1>1
  <2>2. E \in SUBSET DOMAIN t /\ E \in SUBSET Nat
    BY <1>1
  <2>3. IsFiniteSet(E)
    BY <1>2, <2>2, FS_Subset
  <2>4. PICK i \in E : \A j \in E : i <= j
    <3> HIDE DEF E
    <3> QED BY <2>1, <2>2, <2>3, LeastAndGreatest
  <2>5. i \in DOMAIN t /\ i \in Nat /\ 1 <= i /\ i <= c /\ \A k \in i..c : t[k] \in Alnum
    BY <1>1, <2>4
  <2>6. ASSUME i > 1 PROVE t[i - 1] \notin Alnum
    <3>1. SUFFICES ASSUME t[i - 1] \in Alnum PROVE FALSE
      OBVIOUS
    <3>2. i - 1 \in DOMAIN t /\ i - 1 <= c
      BY <1>1, <2>5, <2>6
    <3>3. \A k \in (i - 1)..c : t[k] \in Alnum
      BY <1>1, <2>5, <3>1
    <3>4. i - 1 \in E
      BY <3>2, <3>3
    <3>5. QED
      BY <2>4, <2>5, <3>4
  <2>7. <<i, c>> \in Runs(t)
    BY <1>4, <2>5, <2>6 DEF Runs, Stretches
  <2>8. QED
    BY <2>7
<1>5. QED
  BY <1>3, <1>4

(* An English name is found if and only if some part of the text that no    *)
(* letter or digit touches has the words of that name.                      *)
LEMMA EnglishIsFound ==
    ASSUME NEW t \in Seq(Symbols), NEW alias \in Seq(Symbols), IsAscii(alias)
    PROVE  FindAscii(t, alias) > 0 <=>
              \E p \in Stretches(t) :
                 /\ \E r, s \in Runs(t) : r[1] = p[1] /\ s[2] = p[2]
                 /\ IsAscii(SubSeq(t, p[1], p[2]))
                 /\ Words(SubSeq(t, p[1], p[2])) = Words(alias)
<1> DEFINE T == {p \in Stretches(t) :
                   /\ t[p[1]] # Space
                   /\ p[1] > 1 => t[p[1] - 1] \notin Alnum
                   /\ p[2] < Len(t) => t[p[2] + 1] \notin Alnum
                   /\ Words(SubSeq(t, p[1], p[2])) = Words(alias)}
           Said(p) == /\ \E r, s \in Runs(t) : r[1] = p[1] /\ s[2] = p[2]
                      /\ IsAscii(SubSeq(t, p[1], p[2]))
                      /\ Words(SubSeq(t, p[1], p[2])) = Words(alias)
<1>1. Len(t) \in Nat /\ DOMAIN t = 1..Len(t)
  BY TextPlaces
<1>2. Space \notin Alnum
  BY TextMatchingAssumption
<1>3. FindAscii(t, alias) > 0 <=> T # {}
  <2>1. FindAscii(t, alias) = First(T)
    BY DEF FindAscii
  <2>2. T \in SUBSET ((1..Len(t)) \X (1..Len(t)))
    BY <1>1 DEF Stretches
  <2> HIDE DEF T
  <2>3. First(T) > 0 <=> T # {}
    BY <1>1, <2>2, FirstFinds
  <2>4. QED
    BY <2>1, <2>3
<1>4. ASSUME NEW p \in T PROVE \E q \in Stretches(t) : Said(q)
  <2> DEFINE c == p[1]
             d == p[2]
             part == SubSeq(t, c, d)
             G == {k \in Letters(t) : c <= k /\ k <= d}
  <2>1. /\ c \in DOMAIN t /\ d \in DOMAIN t /\ c <= d /\ t[c] # Space
        /\ c > 1 => t[c - 1] \notin Alnum
        /\ d < Len(t) => t[d + 1] \notin Alnum
        /\ Words(part) = Words(alias)
    BY DEF Stretches
  <2> HIDE DEF c, d
  <2>2. c \in Nat /\ d \in Nat /\ 1 <= c /\ c <= Len(t)
    BY <1>1, <2>1
  <2>3. /\ part \in Seq(Symbols) /\ DOMAIN part = 1..(d - c + 1)
        /\ \A k \in 1..(d - c + 1) : part[k] = t[c + k - 1]
        /\ \A k \in 1..(d - c + 1) : k \in Letters(part) <=> c + k - 1 \in Letters(t)
    BY <2>1, PartOfText
  <2> HIDE DEF part
  <2>4. ASSUME NEW k \in DOMAIN part PROVE part[k] \in Alnum \cup {Space}
    <3>1. CASE part[k] = Space
      BY <3>1
    <3>2. CASE part[k] # Space
      <4>1. k \in Letters(part)
        BY <3>2 DEF Letters
      <4>2. PICK n \in DOMAIN Words(part) : Words(part)[n] = part[k]
        BY <2>3, <4>1, WordsOfText
      <4>3. n \in DOMAIN Words(alias) /\ Words(alias)[n] = part[k]
        BY <2>1, <4>2
      <4>4. PICK i \in DOMAIN alias : Words(alias)[n] = alias[i]
        BY <4>3, WordsOfText
      <4>5. QED
        BY <4>3, <4>4 DEF IsAscii
    <3>3. QED
      BY <3>1, <3>2
  <2>5. ASSUME NEW k \in DOMAIN t, c <= k, k <= d PROVE t[k] \in Alnum \cup {Space}
    <3>1. k \in Nat /\ k - c + 1 \in 1..(d - c + 1) /\ c + (k - c + 1) - 1 = k
      BY <1>1, <2>2, <2>5
    <3>2. t[k] = part[k - c + 1]
      BY <2>3, <3>1
    <3>3. QED
      BY <2>3, <2>4, <3>1, <3>2
  <2>6. t[c] \in Alnum
    BY <2>1, <2>2, <2>5
  <2>7. G \in SUBSET Nat /\ G \in SUBSET Letters(t) /\ c \in G
    BY <2>1, <2>2, TextPlaces DEF Letters
  <2>8. IsFiniteSet(G)
    BY <2>7, TextPlaces, FS_Subset
  <2>9. PICK e \in G : \A k \in G : k <= e
    <3> HIDE DEF G
    <3> QED BY <2>7, <2>8, LeastAndGreatest
  <2>10. e \in DOMAIN t /\ e \in Nat /\ c <= e /\ e <= d /\ e <= Len(t) /\ t[e] # Space
    BY <1>1, <2>9 DEF Letters
  <2>11. t[e] \in Alnum
    BY <2>5, <2>10
  <2>12. \A k \in (e + 1)..d : t[k] = Space
    <3>1. SUFFICES ASSUME NEW k \in (e + 1)..d, t[k] # Space PROVE FALSE
      OBVIOUS
    <3>2. k \in Nat /\ e < k /\ c <= k /\ k <= d /\ k \in DOMAIN t
      BY <1>1, <2>1, <2>2, <2>10
    <3>3. k \in G
      BY <3>1, <3>2 DEF Letters
    <3>4. QED
      BY <2>9, <2>10, <3>2, <3>3
  <2>13. ASSUME e < Len(t) PROVE t[e + 1] \notin Alnum
    <3>1. CASE e = d
      BY <2>1, <2>13, <3>1
    <3>2. CASE e # d
      <4>1. e + 1 \in (e + 1)..d
        BY <2>2, <2>10, <3>2
      <4>2. QED
        BY <1>2, <2>12, <4>1
    <3>3. QED
      BY <3>1, <3>2
  <2>14. PICK r \in Runs(t) : r[1] = c
    BY <2>1, <2>6, RunsAround
  <2>15. PICK s \in Runs(t) : s[2] = e
    BY <2>10, <2>11, <2>13, RunsAround
  <2>16. Words(SubSeq(t, c, e)) = Words(alias)
    <3>1. Words(SubSeq(t, c, d)) = Words(SubSeq(t, c, e))
      BY <2>1, <2>10, <2>12, WordsEndWithLetter
    <3>2. QED
      BY <2>1, <3>1 DEF part
  <2>17. IsAscii(SubSeq(t, c, e))
    <3>1. /\ DOMAIN SubSeq(t, c, e) = 1..(e - c + 1)
          /\ \A k \in 1..(e - c + 1) : SubSeq(t, c, e)[k] = t[c + k - 1]
      BY <2>1, <2>10, PartOfText
    <3>2. ASSUME NEW k \in 1..(e - c + 1) PROVE t[c + k - 1] \in Alnum \cup {Space}
      <4>1. c + k - 1 \in DOMAIN t /\ c <= c + k - 1 /\ c + k - 1 <= d
        BY <1>1, <2>2, <2>10
      <4>2. QED
        BY <2>5, <4>1
    <3>3. QED
      BY <3>1, <3>2 DEF IsAscii
  <2>18. <<c, e>> \in Stretches(t)
    BY <2>1, <2>10 DEF Stretches
  <2>19. QED
    BY <2>14, <2>15, <2>16, <2>17, <2>18
<1>5. ASSUME NEW p \in Stretches(t), Said(p) PROVE T # {}
  <2>1. PICK r \in Runs(t), s \in Runs(t) : r[1] = p[1] /\ s[2] = p[2]
    BY <1>5
  <2>2. p[1] \in DOMAIN t /\ t[p[1]] \in Alnum /\ (p[1] > 1 => t[p[1] - 1] \notin Alnum)
    <3>1. r \in (DOMAIN t) \X (DOMAIN t) /\ r[1] <= r[2] /\ \A k \in r[1]..r[2] : t[k] \in Alnum
      BY DEF Runs, Stretches
    <3>2. r[1] \in Int /\ r[2] \in Int /\ r[1] \in r[1]..r[2]
      BY <1>1, <3>1
    <3>3. r[1] > 1 => t[r[1] - 1] \notin Alnum
      BY DEF Runs
    <3>4. QED
      BY <2>1, <3>1, <3>2, <3>3
  <2>3. p[2] < Len(t) => t[p[2] + 1] \notin Alnum
    BY <2>1 DEF Runs
  <2>4. Words(SubSeq(t, p[1], p[2])) = Words(alias)
    BY <1>5
  <2>5. p \in T
    BY <1>2, <2>2, <2>3, <2>4
  <2>6. QED
    BY <2>5
<1>6. QED
  BY <1>3, <1>4, <1>5

(* A name is found in a text just if the text mentions it, in English as a  *)
(* run of whole words and in Korean anywhere: for every text and dictionary *)
(* (parse_and_match_module.py:32).                                          *)
THEOREM FoundIsMentioned ==
    ASSUME NEW t \in Seq(Symbols), NEW i \in DOMAIN Dictionary
    PROVE  /\ Find(t, Dictionary[i].alias) \in Nat
           /\ Find(t, Dictionary[i].alias) > 0 <=> Mentions(t, Dictionary[i].alias)
<1> DEFINE alias == Dictionary[i].alias
<1>1. alias \in Seq(Symbols) /\ Letters(alias) # {}
  BY TextMatchingAssumption DEF Symbols, Letters
<1>2. Len(t) \in Nat /\ DOMAIN t = 1..Len(t)
  BY TextPlaces
<1> HIDE DEF alias
<1>3. FindAscii(t, alias) \in Nat
  <2> DEFINE T == {p \in Stretches(t) :
                     /\ t[p[1]] # Space
                     /\ p[1] > 1 => t[p[1] - 1] \notin Alnum
                     /\ p[2] < Len(t) => t[p[2] + 1] \notin Alnum
                     /\ Words(SubSeq(t, p[1], p[2])) = Words(alias)}
  <2>1. FindAscii(t, alias) = First(T)
    BY DEF FindAscii
  <2>2. T \in SUBSET ((1..Len(t)) \X (1..Len(t)))
    BY <1>2 DEF Stretches
  <2> HIDE DEF T
  <2>3. QED
    BY <1>2, <2>1, <2>2, FirstFinds
<1>4. FindKorean(t, alias) \in Nat
  <2> DEFINE whole == Normalize(t)
             N == Cardinality(Letters(t))
             T == {p \in Stretches(whole) : SubSeq(whole, p[1], p[2]) = Normalize(alias)}
  <2>1. FindKorean(t, alias) = First(T)
    BY DEF FindKorean
  <2>2. DOMAIN whole = 1..N /\ N \in Nat
    <3>1. Letters(t) \in SUBSET Nat /\ IsFiniteSet(Letters(t))
      BY TextPlaces
    <3>2. whole = [n \in 1..N |-> t[Ascending(Letters(t))[n]]]
      BY <3>1, KeepLists DEF Normalize
    <3>3. N \in Nat
      BY <3>1, AscendingLists
    <3>4. QED
      BY <3>2, <3>3
  <2> HIDE DEF whole, N
  <2>3. T \in SUBSET ((1..N) \X (1..N))
    BY <2>2 DEF Stretches
  <2> HIDE DEF T
  <2>4. QED
    BY <2>1, <2>2, <2>3, FirstFinds
<1>5. CASE IsAscii(alias)
  <2>1. FindAscii(t, alias) > 0 <=> Mentions(t, alias)
    BY <1>1, <1>5, EnglishIsFound DEF Mentions
  <2>2. QED
    BY <1>3, <1>5, <2>1 DEF Find, alias
<1>6. CASE ~IsAscii(alias)
  <2>1. FindKorean(t, alias) > 0 <=> Mentions(t, alias)
    BY <1>1, <1>6, KoreanIsFound DEF Mentions
  <2>2. QED
    BY <1>4, <1>6, <2>1 DEF Find, alias
<1>7. QED
  BY <1>5, <1>6

(* The names that are found stand in one order.                             *)
LEMMA FoundInOrder ==
    ASSUME NEW t \in Seq(Symbols)
    PROVE  IsFiniteSet(Found(t)) /\ StrictOrder(Found(t), Earlier(t))
<1> DEFINE F == Found(t)
           at(i) == Find(t, Dictionary[i].alias)
<1>1. F \subseteq DOMAIN Dictionary /\ IsFiniteSet(F)
  <2>1. F \in SUBSET DOMAIN Dictionary
    BY DEF Found
  <2>2. QED
    BY <2>1, TriedInOrder, FS_Subset
<1>2. \A i \in F : at(i) \in Nat
  BY <1>1, FoundIsMentioned
<1>3. \A i, k \in F : <<i, k>> \in Earlier(t) <=> at(i) < at(k) \/ (at(i) = at(k) /\ Before(i, k))
  BY DEF Earlier
<1>4. /\ \A i, k \in F : i = k \/ Before(i, k) \/ Before(k, i)
      /\ \A i \in F : ~Before(i, i)
      /\ \A h, i, k \in F : Before(h, i) /\ Before(i, k) => Before(h, k)
  BY <1>1, TriedInOrder
<1> HIDE DEF F, at
<1>5. \A i \in F : <<i, i>> \notin Earlier(t)
  BY <1>2, <1>3, <1>4
<1>6. ASSUME NEW i \in F, NEW k \in F
      PROVE  i = k \/ <<i, k>> \in Earlier(t) \/ <<k, i>> \in Earlier(t)
  <2>1. at(i) \in Nat /\ at(k) \in Nat
    BY <1>2
  <2>2. i = k \/ Before(i, k) \/ Before(k, i)
    BY <1>4
  <2>3. at(i) < at(k) \/ at(i) = at(k) \/ at(k) < at(i)
    BY <2>1
  <2>4. QED
    BY <1>3, <2>2, <2>3
<1>7. ASSUME NEW h \in F, NEW i \in F, NEW k \in F,
             <<h, i>> \in Earlier(t), <<i, k>> \in Earlier(t)
      PROVE  <<h, k>> \in Earlier(t)
  <2>1. at(h) \in Nat /\ at(i) \in Nat /\ at(k) \in Nat
    BY <1>2
  <2>2. /\ at(h) < at(i) \/ (at(h) = at(i) /\ Before(h, i))
        /\ at(i) < at(k) \/ (at(i) = at(k) /\ Before(i, k))
    BY <1>3, <1>7
  <2>3. Before(h, i) /\ Before(i, k) => Before(h, k)
    BY <1>4
  <2>4. at(h) < at(k) \/ (at(h) = at(k) /\ Before(h, k))
    BY <2>1, <2>2, <2>3
  <2>5. QED
    BY <1>3, <2>4
<1>8. StrictOrder(F, Earlier(t))
  BY <1>5, <1>6, <1>7 DEF StrictOrder
<1>9. QED
  BY <1>1, <1>8 DEF F

(* extract returns each class that the text mentions, and no other, once.   *)
THEOREM ExtractIsMentioned ==
    ASSUME NEW t \in Seq(Symbols)
    PROVE  /\ ToSet(Extract(t)) = Mentioned(t)
           /\ IsInjective(Extract(t))
<1> DEFINE F == Found(t)
           N == Cardinality(F)
           list == InOrder(F, Earlier(t))
           Class(i) == Dictionary[i].class
<1>1. F \subseteq DOMAIN Dictionary
  BY DEF Found
<1>2. /\ DOMAIN list = 1..N
      /\ \A n \in 1..N : list[n] \in F
      /\ \A i \in F : \E n \in 1..N : list[n] = i
      /\ \A m, n \in 1..N : m < n <=> <<list[m], list[n]>> \in Earlier(t)
  BY FoundInOrder, InOrderLists
<1>3. N \in Nat /\ \A i \in F : <<i, i>> \notin Earlier(t)
  BY FoundInOrder, FS_CardinalityType DEF StrictOrder
<1>4. Extract(t) = [n \in 1..N |-> Class(list[n])]
  BY <1>2 DEF Extract
<1>5. \A i, k \in F : Class(i) = Class(k) => i = k
  BY ClassesAreNamedOnce
<1>6. \A i \in DOMAIN Dictionary : Mentions(t, Dictionary[i].alias) =>
         \E k \in F : Class(k) = Class(i)
  BY FoundIsMentioned, ClassesAreNamedOnce
<1>7. \A i \in F : Mentions(t, Dictionary[i].alias)
  BY <1>1, FoundIsMentioned DEF Found
<1>8. Mentioned(t) = {Class(i) : i \in F}
  <2>1. Mentioned(t) = {Class(i) : i \in {k \in DOMAIN Dictionary : Mentions(t, Dictionary[k].alias)}}
    BY DEF Mentioned
  <2> HIDE DEF F, Class
  <2>2. QED
    BY <1>1, <1>6, <1>7, <2>1
<1> HIDE DEF F, N, list, Class
<1>9. ToSet(Extract(t)) = {Class(i) : i \in F}
  <2>1. ToSet(Extract(t)) = {Class(list[n]) : n \in 1..N}
    BY <1>4 DEF ToSet
  <2>2. QED
    BY <1>2, <2>1
<1>10. IsInjective(Extract(t))
  <2>1. ASSUME NEW m \in 1..N, NEW n \in 1..N, Class(list[m]) = Class(list[n])
        PROVE  m = n
    <3>1. list[m] = list[n] /\ list[m] \in F
      BY <1>2, <1>5, <2>1
    <3>2. ~(m < n) /\ ~(n < m)
      BY <1>2, <1>3, <3>1
    <3>3. QED
      BY <1>3, <3>2
  <2>2. QED
    BY <1>4, <2>1 DEF IsInjective
<1>11. QED
  BY <1>8, <1>9, <1>10

(* What the Whisper node sends is every class that the transcript mentions, *)
(* and no other, each once: whatever the dictionary, and however the        *)
(* transcript is spaced (parse_and_match_module.py:124).                    *)
THEOREM SentIsWhatIsMentioned == Spec => []SentClassesAreMentioned
<1>1. TypeOK => SentClassesAreMentioned
  <2> SUFFICES ASSUME TypeOK PROVE SentClassesAreMentioned
    OBVIOUS
  <2>1. text \in Seq(Symbols)
    <3>1. PICK k \in 0..MaxText : text \in [1..k -> Alnum \cup Other \cup {Space}]
      BY DEF TypeOK, Text
    <3>2. k \in Nat
      BY ClassNodesAssumption
    <3>3. QED
      BY <3>1, <3>2 DEF Symbols
  <2>2. QED
    BY <2>1, ExtractIsMentioned DEF SentClassesAreMentioned
<1>2. QED
  BY <1>1, NodeTypes, PTL
=============================================================================
