------------------------- MODULE RemoteVisionProofs -------------------------
(***************************************************************************)
(* Proofs about RemoteVision, for any number of workers, requests and      *)
(* tries: a caller gets what a model with its classes found.               *)
(*                                                                         *)
(* The argument follows an answer from the model to the caller.  The       *)
(* handler knows its model; so a call that did not fail was answered by    *)
(* its classes; so a completion that the coordinator takes carries the     *)
(* caller's; and once the record has a result or will get one, no other    *)
(* completion is taken.                                                    *)
(***************************************************************************)
EXTENDS RemoteVision, SequenceTheorems, TLAPS

Types ==
    /\ rec \in [Field -> Value]
    /\ todo \in Seq(Field \X Value)
    /\ view \in Seq(Value)
    /\ seen \in Seq(Value)
    /\ asked \in Request \cup {Unsupported, Nothing}
    /\ run \in [Worker -> Run]
    /\ model \in [Worker -> Model]

(* A call for the caller's job is for what the caller waits for, and one    *)
(* that was answered was answered by a model with the classes asked for.    *)
CallsAreAnsweredRight ==
    \A w \in Worker :
        /\ run[w].mine => caller = "waiting" /\ run[w].asks = asked
        /\ run[w].by \notin {Nothing, "error"} =>
              run[w].by = run[w].asks \/ run[w].spoilt

Fits == found.by = asked \/ found.spoilt

(* The record has a result, is to get one, or a GET has seen one.           *)
HasResult ==
    \/ \E i \in DOMAIN todo : todo[i][1] = "result" /\ todo[i][2] # None
    \/ rec["result"] # None
    \/ Len(view) >= 3 /\ view[3] # None
    \/ seen # <<>> /\ seen[3] # None

(* A result is the one of the caller's job, and there will be no other.     *)
ResultsAreFinal ==
    HasResult =>
        /\ caller = "waiting" /\ Fits
        /\ \/ todo = Success
           \/ /\ rec["status"] = "succeeded"
              /\ \A i \in DOMAIN todo : todo[i][1] # "status"

VisionIInv ==
    /\ Types
    /\ HandlerKnowsItsModel
    /\ CallsAreAnsweredRight
    /\ ResultsAreFinal
    /\ DetectionsFitTheRequest

-----------------------------------------------------------------------------
(* LEMMAS *)

(* What a GET reads, and where the result stands in it.                     *)
LEMMA Fields ==
    /\ Field = {"status", "worker", "result", "error"}
    /\ Len(ReadOrder) = 4 /\ ReadOrder[3] = "result"
    /\ \A i \in 1..4 : ReadOrder[i] \in Field
<1>1. DOMAIN ReadOrder = 1..4 /\ Len(ReadOrder) = 4 /\ ReadOrder[3] = "result"
  BY DEF ReadOrder
<1>2. Field = {"status", "worker", "result", "error"}
  BY <1>1 DEF Field, ReadOrder
<1>3. QED BY <1>1, <1>2 DEF Field

(* What the methods assign has the right type, and only a success a result. *)
LEMMA Assignments ==
    /\ Success \in Seq(Field \X Value)
    /\ Failure \in Seq(Field \X Value)
    /\ Retry \in Seq(Field \X Value)
    /\ NewJob \in [Field -> Value]
    /\ NewJob["result"] = None
    /\ Success # <<>>
    /\ Success[1] = <<"status", "succeeded">>
    /\ \A i \in DOMAIN Success : i > 1 => Success[i][1] # "status"
    /\ \A i \in DOMAIN Failure : Failure[i][1] = "result" => Failure[i][2] = None
    /\ \A i \in DOMAIN Retry : Retry[i][1] = "result" => Retry[i][2] = None
<1> USE Fields DEF None, Value
<1>1. /\ Success \in Seq(Field \X Value) /\ Success # <<>>
      /\ Success[1] = <<"status", "succeeded">>
      /\ \A i \in DOMAIN Success : i > 1 => Success[i][1] # "status"
  BY DEF Success
<1>2. /\ Failure \in Seq(Field \X Value)
      /\ \A i \in DOMAIN Failure : Failure[i][1] = "result" => Failure[i][2] = None
  BY DEF Failure
<1>3. /\ Retry \in Seq(Field \X Value)
      /\ \A i \in DOMAIN Retry : Retry[i][1] = "result" => Retry[i][2] = None
  <2> DEFINE T == Field \X Value
             begin == << <<"result", None>>, <<"worker", None>> >>
             again == << <<"status", "queued">>, <<"error", None>> >>
             over == << <<"status", "failed">>, <<"error", "set">> >>
  <2>1. begin \in Seq(T) /\ Len(begin) = 2 /\ begin[1][2] = None /\ begin[2][1] = "worker"
    OBVIOUS
  <2>2. again \in Seq(T) /\ Len(again) = 2 /\ again[1][1] = "status" /\ again[2][1] = "error"
    OBVIOUS
  <2>3. over \in Seq(T) /\ Len(over) = 2 /\ over[1][1] = "status" /\ over[2][1] = "error"
    OBVIOUS
  <2>4. Retry = begin \o again \/ Retry = begin \o over
    BY DEF Retry
  <2> HIDE DEF T, begin, again, over
  <2>5. ASSUME NEW end \in Seq(T), Len(end) = 2, end[1][1] = "status", end[2][1] = "error"
        PROVE  /\ begin \o end \in Seq(T)
               /\ \A i \in DOMAIN (begin \o end) :
                     (begin \o end)[i][1] = "result" => (begin \o end)[i][2] = None
    <3>1. /\ begin \o end \in Seq(T)
          /\ Len(begin \o end) = Len(begin) + Len(end)
          /\ \A i \in 1 .. Len(begin) + Len(end) :
                (begin \o end)[i] = IF i <= Len(begin) THEN begin[i] ELSE end[i - Len(begin)]
      BY <2>1, <2>5, ConcatProperties
    <3>2. DOMAIN (begin \o end) = 1..4
      BY <2>1, <2>5, <3>1
    <3>3. /\ (begin \o end)[1] = begin[1] /\ (begin \o end)[2] = begin[2]
          /\ (begin \o end)[3] = end[1] /\ (begin \o end)[4] = end[2]
      BY <2>1, <2>5, <3>1
    <3>4. QED BY <2>1, <2>5, <3>1, <3>2, <3>3
  <2>6. CASE Retry = begin \o again
    BY <2>2, <2>5, <2>6 DEF T
  <2>7. CASE Retry = begin \o over
    BY <2>3, <2>5, <2>7 DEF T
  <2>8. QED BY <2>4, <2>6, <2>7
<1>4. NewJob \in [Field -> Value] /\ NewJob["result"] = None
  BY DEF NewJob
<1>5. QED BY <1>1, <1>2, <1>3, <1>4

(* A model for which the handler has activated r detects r, and would       *)
(* restore it, unless it was spoilt and r is what it has had active since.  *)
LEMMA ActivatedIsReady ==
    ASSUME NEW m \in Model, NEW r \in Request,
           m.active # Nothing => m.wanted = m.active /\ (m.names = m.active \/ m.spoilt)
    PROVE  /\ Activated(m, r) \in Model
           /\ Activated(m, r).active = r /\ Activated(m, r).wanted = r
           /\ Activated(m, r).names = r \/ Activated(m, r).spoilt
BY RemoteVisionAssumption DEF Activated, Model

(* What a prediction does to such a model, and what it reports.             *)
LEMMA PredictionIsRight ==
    ASSUME NEW m \in Model, NEW r \in Request, m.active = r, m.wanted = r,
           m.names = r \/ m.spoilt,
           NEW p \in Predictions(m)
    PROVE  /\ p[1] \in Model
           /\ p[1].active = r /\ p[1].wanted = r
           /\ p[1].names = r \/ p[1].spoilt
           /\ p[2] \in Request \cup {Stock, "error"}
           /\ p[2] # "error" => p[2] = r \/ p[1].spoilt
<1>1. \A f \in FallBacks(m) : /\ f \in Model /\ f.active = r /\ f.wanted = r
                              /\ f.names = r \/ f.spoilt
  BY DEF FallBacks, Model
<1>2. \/ p = <<m, m.names>> \/ p = <<m, "error">>
      \/ \E f \in FallBacks(m) : p = <<f, "error">>
      \/ \E f \in FallBacks(m) : f.names = m.wanted /\ p = <<f, f.names>>
  BY DEF Predictions
<1>3. QED BY <1>1, <1>2 DEF Model

-----------------------------------------------------------------------------
(* The steps *)

(* Asking, waiting and the end of the wait.                                 *)
LEMMA StepsOfTheCaller ==
    ASSUME VisionIInv,
           (\E r \in Request \cup {Unsupported} : Detect(r)) \/ Poll
              \/ DetectReturns \/ DetectGivesUp
    PROVE  VisionIInv'
<1> USE DEF VisionIInv, HandlerKnowsItsModel, CallsAreAnsweredRight,
            DetectionsFitTheRequest, Fits
<1>1. CASE \E r \in Request \cup {Unsupported} : Detect(r)
  BY <1>1 DEF Detect, vars, handlerVars, Types, ResultsAreFinal, HasResult
<1>2. CASE Poll
  <2>1. UNCHANGED <<caller, asked, holder, run, model, found, rec, todo>>
    BY <1>2 DEF Poll, GetJob, Read, Receive, handlerVars
  <2>2. Types' /\ (HasResult' => HasResult)
    <3>1. CASE GetJob
      BY <2>1, <3>1 DEF GetJob, Types, HasResult
    <3>2. CASE Read
      <4>1. /\ Len(view) \in Nat /\ Len(view) + 1 \in 1..4
            /\ ReadOrder[Len(view) + 1] \in Field
        <5>1. Len(view) \in Nat /\ Len(view) < 4
          BY <3>2, Fields DEF Read, Types
        <5>2. Len(view) + 1 \in 1..4
          BY <5>1
        <5>3. ReadOrder[Len(view) + 1] \in Field
          BY <5>2, Fields
        <5>4. QED BY <5>1, <5>2, <5>3
      <4>2. view' = Append(view, rec[ReadOrder[Len(view) + 1]])
            /\ rec[ReadOrder[Len(view) + 1]] \in Value
        BY <3>2, <4>1 DEF Read, Types
      <4>3. /\ view' \in Seq(Value) /\ Len(view') = Len(view) + 1
            /\ \A i \in 1..Len(view) : view'[i] = view[i]
            /\ view'[Len(view) + 1] = rec[ReadOrder[Len(view) + 1]]
        BY <4>2 DEF Types
      <4>4. Len(view') >= 3 /\ view'[3] # None => HasResult
        BY <4>1, <4>3, Fields DEF HasResult
      <4>5. QED
        BY <2>1, <3>2, <4>3, <4>4 DEF Read, Types, HasResult
    <3>3. CASE Receive
      BY <2>1, <3>3, Fields DEF Receive, Types, HasResult
    <3>4. QED BY <1>2, <3>1, <3>2, <3>3 DEF Poll
  <2>3. QED BY <2>1, <2>2 DEF ResultsAreFinal
<1>3. ASSUME Fresh, UNCHANGED <<asked, model, found>>,
             caller' = "raised" \/ (caller' = "returned" /\ Fits)
      PROVE  VisionIInv'
  <2>1. /\ rec' = NewJob /\ todo' = <<>> /\ view' = <<>> /\ seen' = <<>>
        /\ run' = [w \in Worker |-> [run[w] EXCEPT !.mine = FALSE]]
    BY <1>3 DEF Fresh
  <2>2. Types'
    <3>1. run' \in [Worker -> Run]
      <4>1. \A x \in Run : [x EXCEPT !.mine = FALSE] \in Run
        BY DEF Run
      <4>2. QED BY <2>1, <4>1 DEF Types
    <3>2. rec' \in [Field -> Value] /\ <<>> \in Seq(Field \X Value) /\ <<>> \in Seq(Value)
      BY <2>1, Assignments
    <3>3. QED BY <1>3, <2>1, <3>1, <3>2 DEF Types
  <2>3. ~HasResult'
    <3>1. rec'["result"] = None
      BY <2>1, Assignments
    <3>2. QED BY <2>1, <3>1 DEF HasResult
  <2>4. CallsAreAnsweredRight'
    BY <1>3, <2>1 DEF Types, Run
  <2>5. QED BY <1>3, <2>2, <2>3, <2>4 DEF ResultsAreFinal
<1>4. CASE DetectReturns
  <2>1. caller' = "returned" => HasResult
    BY <1>4 DEF DetectReturns, Ended, HasResult
  <2>2. QED BY <1>3, <1>4, <2>1 DEF DetectReturns, ResultsAreFinal
<1>5. CASE DetectGivesUp
  BY <1>3, <1>5 DEF DetectGivesUp
<1>6. QED BY <1>1, <1>2, <1>4, <1>5

(* A lease begins or ends without a result, and no result is there yet.     *)
LEMMA StepsWithoutResult ==
    ASSUME VisionIInv, Unlocked, rec["status"] # "succeeded",
           NEW s \in Seq(Field \X Value), todo' = s,
           \A i \in DOMAIN s : s[i][1] = "result" => s[i][2] = None,
           UNCHANGED <<rec, view, seen>>
    PROVE  ~HasResult /\ ~HasResult'
<1>1. todo # Success
  BY Assignments DEF Unlocked
<1>2. ~HasResult
  BY <1>1 DEF VisionIInv, ResultsAreFinal
<1>3. QED BY <1>2 DEF HasResult

(* A method goes on under the lock, or a lease is lost.                     *)
LEMMA StepsOfTheScheduler ==
    ASSUME VisionIInv, Assigned \/ LeaseLost
    PROVE  VisionIInv'
<1> USE DEF VisionIInv, HandlerKnowsItsModel, CallsAreAnsweredRight,
            DetectionsFitTheRequest, Fits
<1>1. CASE Assigned
  <2>1. /\ todo # <<>> /\ todo' = Tail(todo)
        /\ rec' = [rec EXCEPT ![todo[1][1]] = todo[1][2]]
        /\ UNCHANGED <<view, seen, caller, asked, holder, run, model, found>>
    <3>1. todo # <<>> /\ todo \in Seq(Field \X Value)
      BY <1>1 DEF Assigned, Assign, Unlocked, Types
    <3>2. Head(todo) = todo[1]
      BY <3>1
    <3>3. /\ todo' = Tail(todo)
          /\ rec' = [rec EXCEPT ![Head(todo)[1]] = Head(todo)[2]]
          /\ UNCHANGED <<view, seen, caller, asked, holder, run, model, found>>
      BY <1>1 DEF Assigned, Assign, handlerVars
    <3>4. QED BY <3>1, <3>2, <3>3
  <2>2. /\ Len(todo) \in Nat \ {0} /\ todo[1] \in Field \X Value
        /\ todo' \in Seq(Field \X Value) /\ Len(todo') = Len(todo) - 1
        /\ \A i \in DOMAIN todo' : i + 1 \in DOMAIN todo /\ todo'[i] = todo[i + 1]
        /\ \A i \in DOMAIN todo : i \in Nat /\ i >= 1
    BY <2>1 DEF Types
  <2>3. Types'
    BY <2>1, <2>2 DEF Types
  <2>4. HasResult' => HasResult
    <3>1. ASSUME NEW i \in DOMAIN todo', todo'[i][1] = "result", todo'[i][2] # None
          PROVE  HasResult
      <4>1. i + 1 \in DOMAIN todo /\ todo[i + 1][1] = "result" /\ todo[i + 1][2] # None
        BY <2>2, <3>1
      <4>2. QED BY <4>1 DEF HasResult
    <3>2. ASSUME rec'["result"] # None, rec["result"] = None
          PROVE  HasResult
      <4>1. 1 \in DOMAIN todo
        BY <2>2 DEF Types
      <4>2. todo[1][1] = "result" /\ todo[1][2] # None
        BY <2>1, <3>2, Fields DEF Types
      <4>3. QED BY <4>1, <4>2 DEF HasResult
    <3>3. QED BY <2>1, <3>1, <3>2 DEF HasResult
  <2>5. ASSUME HasResult
        PROVE  /\ rec'["status"] = "succeeded"
               /\ \A i \in DOMAIN todo' : todo'[i][1] # "status"
    <3>1. CASE todo = Success
      <4>1. todo[1][1] = "status" /\ todo[1][2] = "succeeded"
        BY <3>1, Assignments
      <4>2. rec'["status"] = "succeeded"
        BY <2>1, <4>1, Fields DEF Types
      <4>3. \A i \in DOMAIN todo : i > 1 => todo[i][1] # "status"
        BY <3>1, Assignments
      <4>4. QED BY <2>2, <4>2, <4>3
    <3>2. CASE rec["status"] = "succeeded" /\ \A i \in DOMAIN todo : todo[i][1] # "status"
      <4>1. 1 \in DOMAIN todo
        BY <2>2 DEF Types
      <4>2. rec'["status"] = "succeeded"
        BY <2>1, <3>2, <4>1, Fields DEF Types
      <4>3. QED BY <2>2, <3>2, <4>2
    <3>3. QED BY <2>5, <3>1, <3>2 DEF ResultsAreFinal
  <2>6. QED BY <2>1, <2>3, <2>4, <2>5 DEF ResultsAreFinal
<1>2. CASE LeaseLost
  <2>1. /\ Unlocked /\ rec["status"] = "leased" /\ todo' = Retry
        /\ UNCHANGED <<rec, view, seen, caller, asked, run, model, found>>
    BY <1>2 DEF LeaseLost, EndLease, MayEnd, handlerVars
  <2>2. ~HasResult'
    BY <2>1, Assignments, StepsWithoutResult
  <2>3. QED BY <2>1, <2>2, Assignments DEF Types, ResultsAreFinal
<1>3. QED BY <1>1, <1>2

(* Jobs, handler calls, completions and restarts of a worker.               *)
LEMMA StepsOfAWorker ==
    ASSUME VisionIInv, NEW w \in Worker,
           \/ ClaimMine(w) \/ \E r \in Request : ClaimOther(w, r)
           \/ CallHandler(w) \/ Complete(w) \/ RestartWorker(w)
    PROVE  VisionIInv'
<1> USE RemoteVisionAssumption DEF VisionIInv
<1>1. Idle \in Run /\ Idle.by = Nothing /\ Idle.mine = FALSE
  BY DEF Idle, Run
<1>2. CASE ClaimMine(w)
  <2> DEFINE s == << <<"status", "leased">>, <<"worker", "set">> >>
             new == [Idle EXCEPT !.mine = TRUE, !.asks = asked]
  <2>1. /\ Unlocked /\ rec["status"] = "queued" /\ todo' = s /\ caller = "waiting"
        /\ run' = [run EXCEPT ![w] = new]
        /\ UNCHANGED <<rec, view, seen, caller, asked, model, found>>
    BY <1>2 DEF ClaimMine, Claim
  <2>2. s \in Seq(Field \X Value) /\ \A i \in DOMAIN s : s[i][1] # "result"
    BY Fields DEF Value
  <2>3. ~HasResult'
    BY <2>1, <2>2, StepsWithoutResult
  <2>4. new \in Run /\ new.mine /\ new.asks = asked /\ new.by = Nothing
    BY <1>1 DEF Idle, Run, Types
  <2> HIDE DEF s, new
  <2>5. Types' /\ CallsAreAnsweredRight'
    BY <2>1, <2>2, <2>4 DEF Types, CallsAreAnsweredRight
  <2>6. QED
    BY <2>1, <2>3, <2>5
       DEF ResultsAreFinal, HandlerKnowsItsModel, DetectionsFitTheRequest
<1>3. CASE \E r \in Request : ClaimOther(w, r)
  <2>1. PICK r \in Request : ClaimOther(w, r)
    BY <1>3
  <2> DEFINE new == [Idle EXCEPT !.asks = r]
  <2>2. new \in Run /\ ~new.mine /\ new.by = Nothing
    BY <1>1 DEF Idle, Run
  <2> HIDE DEF new
  <2>3. /\ run' = [run EXCEPT ![w] = new]
        /\ UNCHANGED <<rec, todo, view, seen, caller, asked, model, found>>
    BY <2>1 DEF ClaimOther, vars, new
  <2>4. QED
    BY <2>2, <2>3 DEF Types, CallsAreAnsweredRight, ResultsAreFinal, HasResult, Fits,
                      HandlerKnowsItsModel, DetectionsFitTheRequest
<1>4. CASE CallHandler(w)
  <2>1. UNCHANGED <<rec, todo, view, seen, caller, asked, found>>
    BY <1>4 DEF CallHandler, vars
  <2>2. ResultsAreFinal' /\ DetectionsFitTheRequest'
    BY <2>1 DEF ResultsAreFinal, HasResult, Fits, DetectionsFitTheRequest
  <2>3. CASE run[w].asks \notin Request
    <3>1. run' = [run EXCEPT ![w].by = "error"] /\ model' = model
      BY <1>4, <2>3 DEF CallHandler
    <3>2. run' \in [Worker -> Run]
      BY <3>1 DEF Types, Run
    <3>3. Types'
      BY <2>1, <3>1, <3>2 DEF Types
    <3>4. CallsAreAnsweredRight'
      BY <2>1, <3>1 DEF Types, Run, CallsAreAnsweredRight
    <3>5. HandlerKnowsItsModel'
      BY <3>1 DEF HandlerKnowsItsModel
    <3>6. QED BY <2>2, <3>3, <3>4, <3>5
  <2>4. CASE run[w].asks \in Request
    <3> DEFINE r == run[w].asks
               m == Activated(model[w], r)
    <3>1. PICK p \in Predictions(m) :
             /\ model' = [model EXCEPT ![w] = p[1]]
             /\ run' = [run EXCEPT ![w].by = p[2],
                                   ![w].spoilt = p[1].spoilt /\ p[2] # "error"]
      BY <1>4, <2>4 DEF CallHandler
    <3>2. /\ m \in Model /\ m.active = r /\ m.wanted = r
          /\ m.names = r \/ m.spoilt
      BY <2>4, ActivatedIsReady DEF Types, HandlerKnowsItsModel
    <3> HIDE DEF m
    <3>3. /\ p[1] \in Model
          /\ p[1].active = r /\ p[1].wanted = r
          /\ p[1].names = r \/ p[1].spoilt
          /\ p[2] \in Request \cup {Stock, "error"}
          /\ p[2] # "error" => p[2] = r \/ p[1].spoilt
      BY <2>4, <3>2, PredictionIsRight
    <3>4. HandlerKnowsItsModel'
      BY <3>1, <3>3 DEF Types, HandlerKnowsItsModel
    <3>5. (p[1].spoilt /\ p[2] # "error") \in BOOLEAN
      OBVIOUS
    <3>6. Types'
      <4>1. model' \in [Worker -> Model]
        BY <3>1, <3>3 DEF Types
      <4>2. run[w] \in Run
        BY DEF Types
      <4>3. [run[w] EXCEPT !.by = p[2], !.spoilt = p[1].spoilt /\ p[2] # "error"] \in Run
        BY <3>3, <3>5, <4>2 DEF Run
      <4>4. run' \in [Worker -> Run]
        BY <3>1, <4>3 DEF Types
      <4>5. QED BY <2>1, <4>1, <4>4 DEF Types
    <3>7. CallsAreAnsweredRight'
      BY <2>1, <3>1, <3>3 DEF Types, Run, CallsAreAnsweredRight
    <3>8. QED BY <2>2, <3>4, <3>6, <3>7
  <2>5. QED BY <2>3, <2>4
<1>5. CASE Complete(w)
  <2>1. /\ run' = [run EXCEPT ![w] = Idle]
        /\ run[w].by # Nothing /\ Unlocked
        /\ UNCHANGED <<caller, asked, model>>
    BY <1>5 DEF Complete
  <2>2. CallsAreAnsweredRight' /\ HandlerKnowsItsModel'
    BY <1>1, <2>1 DEF Types, CallsAreAnsweredRight, HandlerKnowsItsModel
  <2>3. CASE run[w].mine /\ holder = w
    <3> DEFINE s == IF run[w].by = "error" THEN Failure ELSE Success
    <3>1. /\ rec["status"] = "leased" /\ todo' = s /\ found' = run[w]
          /\ UNCHANGED <<rec, view, seen>>
      BY <1>5, <2>3 DEF Complete, EndLease, MayEnd
    <3>2. caller = "waiting"
      BY <2>3 DEF CallsAreAnsweredRight
    <3>3. Types'
      BY <1>1, <2>1, <3>1, Assignments DEF Types
    <3>4. ResultsAreFinal'
      <4>1. CASE run[w].by = "error"
        <5>1. ~HasResult'
          BY <2>1, <3>1, <4>1, Assignments, StepsWithoutResult
        <5>2. QED BY <5>1 DEF ResultsAreFinal
      <4>2. CASE run[w].by # "error"
        BY <2>1, <2>3, <3>1, <3>2, <4>2
           DEF ResultsAreFinal, Fits, CallsAreAnsweredRight
      <4>3. QED BY <4>1, <4>2
    <3>5. QED BY <2>1, <2>2, <3>2, <3>3, <3>4 DEF DetectionsFitTheRequest
  <2>4. CASE ~(run[w].mine /\ holder = w)
    <3>1. UNCHANGED <<rec, todo, view, seen, found>>
      BY <1>5, <2>4 DEF Complete, vars
    <3>2. QED
      BY <1>1, <2>1, <2>2, <3>1
         DEF Types, ResultsAreFinal, HasResult, Fits, DetectionsFitTheRequest
  <2>5. QED BY <2>3, <2>4
<1>6. CASE RestartWorker(w)
  <2>1. Made(w) \in Model /\ Made(w).active = Nothing
    BY DEF Made, Model
  <2>2. /\ run' = [run EXCEPT ![w] = Idle] /\ model' = [model EXCEPT ![w] = Made(w)]
        /\ UNCHANGED <<rec, todo, view, seen, caller, asked, found>>
    BY <1>6 DEF RestartWorker, vars
  <2>3. QED
    BY <1>1, <2>1, <2>2
       DEF Types, CallsAreAnsweredRight, ResultsAreFinal, HasResult, Fits,
           HandlerKnowsItsModel, DetectionsFitTheRequest
<1>7. QED BY <1>2, <1>3, <1>4, <1>5, <1>6

-----------------------------------------------------------------------------
(* THEOREMS *)

(* The inductive invariant holds: answers are traced from the model that    *)
(* gave them to the caller.                                                 *)
THEOREM VisionInvariant == VisionSpec => []VisionIInv
<1>1. VisionInit => VisionIInv
  <2> SUFFICES ASSUME VisionInit PROVE VisionIInv
    OBVIOUS
  <2>1. /\ rec = NewJob /\ todo = <<>> /\ view = <<>> /\ seen = <<>>
        /\ caller = "idle" /\ asked = Nothing
        /\ run = [w \in Worker |-> Idle] /\ model = [w \in Worker |-> Made(w)]
    BY DEF VisionInit, Init
  <2>2. Idle \in Run /\ Idle.by = Nothing /\ Idle.mine = FALSE
    BY DEF Idle, Run
  <2>3. \A w \in Worker : Made(w) \in Model /\ Made(w).active = Nothing
    BY RemoteVisionAssumption DEF Made, Model
  <2>4. Types /\ ~HasResult
    BY <2>1, <2>2, <2>3, Assignments DEF Types, HasResult
  <2>5. QED
    BY <2>1, <2>2, <2>3, <2>4
       DEF VisionIInv, CallsAreAnsweredRight, HandlerKnowsItsModel, ResultsAreFinal,
           DetectionsFitTheRequest
<1>2. VisionIInv /\ [VisionNext]_visionVars => VisionIInv'
  <2> SUFFICES ASSUME VisionIInv, [VisionNext]_visionVars PROVE VisionIInv'
    OBVIOUS
  <2>1. CASE VisionNext
    BY <2>1, StepsOfTheCaller, StepsOfTheScheduler, StepsOfAWorker DEF VisionNext
  <2>2. CASE UNCHANGED visionVars
    BY <2>2 DEF visionVars, vars, handlerVars, VisionIInv, Types, CallsAreAnsweredRight,
                HandlerKnowsItsModel, ResultsAreFinal, HasResult, Fits,
                DetectionsFitTheRequest
  <2>3. QED BY <2>1, <2>2
<1>3. QED BY <1>1, <1>2, PTL DEF VisionSpec

(* What detect returns was found by a model with the classes asked for, or  *)
(* by one that a failed fallback has spoilt.                                *)
THEOREM CallersGetWhatTheyAskedFor == VisionSpec => []DetectionsFitTheRequest
<1>1. VisionIInv => DetectionsFitTheRequest BY DEF VisionIInv
<1>2. QED BY <1>1, VisionInvariant, PTL

(* A handler that takes a tuple of classes for active has a model that      *)
(* detects it and whose next fallback restores it, or a spoilt one.         *)
THEOREM HandlersKnowTheirModels == VisionSpec => []HandlerKnowsItsModel
<1>1. VisionIInv => HandlerKnowsItsModel BY DEF VisionIInv
<1>2. QED BY <1>1, VisionInvariant, PTL

-----------------------------------------------------------------------------
(* AN OUTCOME SEEN IS FINAL *)

ChangesStatus(i) == i \in DOMAIN todo /\ todo[i][1] = "status"

(* A method assigns the status once, and not to a job that is over; what a  *)
(* GET has read of an outcome is so.                                        *)
OutcomesStay ==
    /\ \A i, k : ChangesStatus(i) /\ ChangesStatus(k) => i = k
    /\ rec["status"] \in Terminal => \A i : ~ChangesStatus(i)
    /\ Len(view) >= 1 /\ view[1] \in Terminal => rec["status"] = view[1]
    /\ seen # <<>> => seen[1] \in Terminal /\ rec["status"] = seen[1]

(* No method assigns the status twice.                                      *)
LEMMA StatusIsAssignedOnce ==
    ASSUME NEW s \in {Success, Failure, Retry,
                      << <<"status", "leased">>, <<"worker", "set">> >>},
           NEW i \in DOMAIN s, NEW k \in DOMAIN s,
           s[i][1] = "status", s[k][1] = "status"
    PROVE  i = k
<1>1. CASE s = Success
  BY <1>1 DEF Success
<1>2. CASE s = Failure
  BY <1>2 DEF Failure
<1>3. CASE s = Retry
  <2> DEFINE begin == << <<"result", None>>, <<"worker", None>> >>
             again == << <<"status", "queued">>, <<"error", None>> >>
             over == << <<"status", "failed">>, <<"error", "set">> >>
             T == {"status", "worker", "result", "error"} \X
                     {None, "queued", "failed", "set"}
  <2>1. begin \in Seq(T) /\ Len(begin) = 2 /\ begin[1][1] = "result" /\ begin[2][1] = "worker"
    OBVIOUS
  <2>2. again \in Seq(T) /\ Len(again) = 2 /\ again[2][1] = "error"
    OBVIOUS
  <2>3. over \in Seq(T) /\ Len(over) = 2 /\ over[2][1] = "error"
    OBVIOUS
  <2>4. Retry = begin \o again \/ Retry = begin \o over
    BY DEF Retry
  <2> HIDE DEF begin, again, over, T
  <2>5. ASSUME NEW end \in Seq(T), Len(end) = 2, end[2][1] = "error", s = begin \o end
        PROVE  i = k
    <3>1. /\ begin \o end \in Seq(T)
          /\ Len(begin \o end) = Len(begin) + Len(end)
          /\ \A x \in 1 .. Len(begin) + Len(end) :
                (begin \o end)[x] = IF x <= Len(begin) THEN begin[x] ELSE end[x - Len(begin)]
      BY <2>1, <2>5, ConcatProperties
    <3>2. DOMAIN s = 1..4
      BY <2>1, <2>5, <3>1
    <3>3. s[1] = begin[1] /\ s[2] = begin[2] /\ s[4] = end[2]
      BY <2>1, <2>5, <3>1
    <3>4. QED
      BY <2>1, <2>5, <3>2, <3>3
  <2>6. QED
    BY <1>3, <2>2, <2>3, <2>4, <2>5
<1>4. CASE s = << <<"status", "leased">>, <<"worker", "set">> >>
  BY <1>4
<1>5. QED
  BY <1>1, <1>2, <1>3, <1>4

(* A method begins, on a job that is not over.                              *)
LEMMA MethodsBegin ==
    ASSUME OutcomesStay, rec["status"] \notin Terminal, UNCHANGED <<rec, view, seen>>,
           todo' \in {Success, Failure, Retry,
                      << <<"status", "leased">>, <<"worker", "set">> >>}
    PROVE  OutcomesStay'
<1>1. \A i, k : ChangesStatus(i)' /\ ChangesStatus(k)' => i = k
  <2>1. PICK s : s = todo'
    OBVIOUS
  <2>2. \A i, k \in DOMAIN s : s[i][1] = "status" /\ s[k][1] = "status" => i = k
    BY <2>1, StatusIsAssignedOnce
  <2>3. QED
    BY <2>1, <2>2 DEF ChangesStatus
<1>2. QED
  BY <1>1 DEF OutcomesStay

LEMMA OutcomesStayStep ==
    ASSUME VisionIInv, OutcomesStay, [VisionNext]_visionVars
    PROVE  OutcomesStay'
<1>1. CASE UNCHANGED <<rec, todo, view, seen>>
  BY <1>1 DEF OutcomesStay, ChangesStatus
<1>2. CASE Poll
  <2>1. UNCHANGED <<rec, todo>> /\ view \in Seq(Value)
    BY <1>2 DEF Poll, GetJob, Read, Receive, VisionIInv, Types
  <2>2. CASE GetJob
    BY <1>1, <2>1, <2>2 DEF GetJob
  <2>3. CASE Read
    <3>1. /\ view' = Append(view, rec[ReadOrder[Len(view) + 1]]) /\ seen' = seen
      BY <2>3 DEF Read
    <3>2. /\ Len(view') = Len(view) + 1 /\ Len(view) \in Nat
          /\ view'[1] = IF Len(view) = 0 THEN rec[ReadOrder[1]] ELSE view[1]
      BY <2>1, <3>1
    <3>3. ReadOrder[1] = "status"
      BY DEF ReadOrder
    <3>4. QED
      BY <2>1, <3>1, <3>2, <3>3 DEF OutcomesStay, ChangesStatus
  <2>4. CASE Receive
    <3>1. /\ Len(view) = 4 /\ view' = <<>>
          /\ seen' = IF view[1] \in Terminal THEN view ELSE seen
      BY <2>4, Fields DEF Receive
    <3>2. QED
      BY <2>1, <3>1 DEF OutcomesStay, ChangesStatus
  <2>5. QED
    BY <1>2, <2>2, <2>3, <2>4 DEF Poll
<1>3. CASE DetectReturns \/ DetectGivesUp
  <2>1. rec' = NewJob /\ todo' = <<>> /\ view' = <<>> /\ seen' = <<>>
    BY <1>3 DEF DetectReturns, DetectGivesUp, Fresh
  <2>2. QED
    BY <2>1 DEF OutcomesStay, ChangesStatus
<1>4. CASE Assigned
  <2>1. /\ todo # <<>> /\ todo \in Seq(Field \X Value) /\ rec \in [Field -> Value]
        /\ todo' = Tail(todo) /\ rec' = [rec EXCEPT ![Head(todo)[1]] = Head(todo)[2]]
        /\ UNCHANGED <<view, seen>>
    BY <1>4 DEF Assigned, Assign, Unlocked, VisionIInv, Types
  <2>2. /\ 1 \in DOMAIN todo /\ Head(todo) = todo[1]
        /\ \A i \in DOMAIN todo' : /\ i \in Nat /\ i >= 1 /\ i + 1 \in DOMAIN todo
                                   /\ todo'[i] = todo[i + 1]
    BY <2>1
  <2>3. \A i : ChangesStatus(i)' => i \in Nat /\ i >= 1 /\ ChangesStatus(i + 1)
    BY <2>2 DEF ChangesStatus
  <2>4. \A i, k : ChangesStatus(i)' /\ ChangesStatus(k)' => i = k
    <3>1. SUFFICES ASSUME NEW i, NEW k, ChangesStatus(i)', ChangesStatus(k)' PROVE i = k
      OBVIOUS
    <3>2. i + 1 = k + 1
      BY <2>3, <3>1 DEF OutcomesStay
    <3>3. QED
      BY <2>3, <3>1, <3>2
  <2>5. CASE todo[1][1] = "status"
    <3>1. ChangesStatus(1)
      BY <2>2, <2>5 DEF ChangesStatus
    <3>2. \A i : ~ChangesStatus(i)'
      BY <2>3, <3>1 DEF OutcomesStay
    <3>3. rec["status"] \notin Terminal
      BY <3>1 DEF OutcomesStay
    <3>4. QED
      BY <2>1, <2>4, <3>2, <3>3 DEF OutcomesStay
  <2>6. CASE todo[1][1] # "status"
    <3>1. rec'["status"] = rec["status"]
      BY <2>1, <2>2, <2>6, Fields
    <3>2. rec["status"] \in Terminal => \A i : ~ChangesStatus(i)'
      BY <2>3 DEF OutcomesStay
    <3>3. QED
      BY <2>1, <2>4, <3>1, <3>2 DEF OutcomesStay
  <2>7. QED
    BY <2>5, <2>6
<1>5. ASSUME NEW w \in Worker, ClaimMine(w)
      PROVE  OutcomesStay'
  BY <1>5, MethodsBegin DEF ClaimMine, Claim, Terminal
<1>6. CASE LeaseLost
  BY <1>6, MethodsBegin DEF LeaseLost, EndLease, MayEnd, Terminal
<1>7. ASSUME NEW w \in Worker, Complete(w)
      PROVE  OutcomesStay'
  <2>1. CASE run[w].mine /\ holder = w
    BY <1>7, <2>1, MethodsBegin DEF Complete, EndLease, MayEnd, Terminal
  <2>2. CASE ~(run[w].mine /\ holder = w)
    BY <1>1, <1>7, <2>2 DEF Complete, vars
  <2>3. QED
    BY <2>1, <2>2
<1>8. CASE \/ \E r \in Request \cup {Unsupported} : Detect(r)
           \/ \E w \in Worker : \/ \E r \in Request : ClaimOther(w, r)
                                \/ CallHandler(w) \/ RestartWorker(w)
           \/ UNCHANGED visionVars
  BY <1>1, <1>8 DEF Detect, ClaimOther, CallHandler, RestartWorker, visionVars, vars
<1>9. QED
  BY <1>2, <1>3, <1>4, <1>5, <1>6, <1>7, <1>8 DEF VisionNext

(* A caller that was told of an outcome is never told otherwise by the      *)
(* record later, although a GET reads it field by field while a method      *)
(* assigns it field by field (get_job, as_dict, complete): the status is    *)
(* read first and assigned once.                                            *)
THEOREM OutcomesAreFinal == VisionSpec => OutcomeSeenIsFinal
<1>1. VisionInit => OutcomesStay
  <2>1. SUFFICES ASSUME VisionInit PROVE OutcomesStay
    OBVIOUS
  <2>2. todo = <<>> /\ view = <<>> /\ seen = <<>>
    BY <2>1 DEF VisionInit, Init
  <2>3. QED
    BY <2>2 DEF OutcomesStay, ChangesStatus
<1>2. VisionIInv /\ OutcomesStay /\ [VisionNext]_visionVars => OutcomesStay'
  BY OutcomesStayStep
<1>3. OutcomesStay' =>
         [seen # <<>> /\ Seen("status") \in Terminal /\ seen' = seen
             => rec'["status"] = Seen("status")]_vars
  <2>1. Seen("status") = seen[1]
    <3>1. (CHOOSE i \in DOMAIN ReadOrder : ReadOrder[i] = "status") = 1
      BY DEF ReadOrder
    <3>2. QED
      BY <3>1 DEF Seen
  <2>2. QED
    BY <2>1 DEF OutcomesStay
<1>4. QED
  BY <1>1, <1>2, <1>3, VisionInvariant, PTL DEF VisionSpec, OutcomeSeenIsFinal
=============================================================================
