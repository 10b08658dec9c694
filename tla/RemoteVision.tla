---------------------------- MODULE RemoteVision ----------------------------
(***************************************************************************)
(* Detection on a remote worker, from end to end: a caller of              *)
(* RemoteInference.detect (distributed/remote_inference.py), the record of *)
(* its job as GETs see it (JobView), and the YOLO handler of each worker   *)
(* (distributed/model_handlers.py) with the model that it keeps loaded     *)
(* from job to job (models/yolo_world_module.py).                          *)
(*                                                                         *)
(* A request is a tuple of class names; what a prediction reports is the   *)
(* classes of the model that made it.  Workers also execute the jobs of    *)
(* other callers, and those that this caller has given up on.              *)
(***************************************************************************)
EXTENDS JobView

CONSTANTS Worker,      (* workers that serve the YOLO capability            *)
          OnMps,       (* those whose device is mps                         *)
          Request,     (* tuples of supported classes                       *)
          Unsupported, (* a tuple with a name that no handler supports      *)
          Supported,   (* all supported classes                             *)
          Stock,       (* the classes of the weights as they are loaded     *)
          Nothing      (* no classes, no worker, no job                     *)

ASSUME RemoteVisionAssumption ==
       /\ {Unsupported, Supported, Stock, Nothing} \cap Request = {}
       /\ OnMps \subseteq Worker
       /\ Nothing \notin Worker \cup {Unsupported, Supported, Stock}

VARIABLES caller,  (* where the caller of detect is                         *)
          asked,   (* the classes it asked for                              *)
          holder,  (* the worker that holds its job's lease                 *)
          run,     (* the handler call under way at each worker             *)
          model,   (* each worker's handler and the model behind it         *)
          found    (* what the handler answered for the caller's job        *)

handlerVars == <<run, model>>
visionVars == <<vars, caller, asked, holder, handlerVars, found>>

(* mine: for the caller's job; by: the classes of the model that answered,  *)
(* "error" when the handler raised; spoilt: see Model.                      *)
Idle == [mine |-> FALSE, asks |-> Nothing, by |-> Nothing, spoilt |-> FALSE]

Run == [mine : BOOLEAN, asks : Request \cup {Unsupported, Nothing},
        by : Request \cup {Nothing, Stock, "error"}, spoilt : BOOLEAN]

(* names: the classes of the loaded model; wanted: __classes of its         *)
(* manager; active: _active_classes of the handler; mps: the device is not  *)
(* the CPU yet; spoilt: a fallback to the CPU has left the model with the   *)
(* stock classes, and no activation has changed them since.                 *)
Model == [names : Request \cup {Stock}, wanted : Request \cup {Supported},
          active : Request \cup {Nothing}, mps : BOOLEAN, spoilt : BOOLEAN]

VisionTypeOK ==
    /\ TypeOK
    /\ caller \in {"idle", "waiting", "returned", "raised"}
    /\ asked \in Request \cup {Unsupported, Nothing}
    /\ holder \in Worker \cup {Nothing}
    /\ run \in [Worker -> Run]
    /\ model \in [Worker -> Model]
    /\ found \in Run

(* A handler that has just been made.  The weights hold the embeddings of   *)
(* all supported classes (class_names.json was written from them), so       *)
(* cache_class_embeddings leaves the model as it is.                        *)
Made(w) == [names |-> Stock, wanted |-> Supported, active |-> Nothing,
            mps |-> w \in OnMps, spoilt |-> FALSE]

VisionInit ==
    /\ Init
    /\ caller = "idle" /\ asked = Nothing /\ holder = Nothing /\ found = Idle
    /\ run = [w \in Worker |-> Idle]
    /\ model = [w \in Worker |-> Made(w)]

-----------------------------------------------------------------------------
(* RemoteInference.detect and ClusterClient.wait.                           *)

(* The record of a new job; the last one is not looked at any more, and     *)
(* what still runs for it counts as somebody else's.                        *)
Fresh ==
    /\ rec' = NewJob /\ tries' = 0 /\ todo' = <<>>
    /\ got' = FALSE /\ view' = <<>> /\ seen' = <<>>
    /\ holder' = Nothing
    /\ run' = [w \in Worker |-> [run[w] EXCEPT !.mine = FALSE]]

Detect(r) ==
    /\ caller # "waiting"
    /\ caller' = "waiting" /\ asked' = r /\ found' = Idle
    /\ UNCHANGED <<vars, holder, handlerVars>>

Ended == seen # <<>>

Poll ==
    /\ caller = "waiting" /\ ~Ended
    /\ GetJob \/ Read \/ Receive
    /\ UNCHANGED <<caller, asked, holder, handlerVars, found>>

(* _run returns the result, or raises what the record says, or that the     *)
(* result is invalid.                                                       *)
DetectReturns ==
    /\ caller = "waiting" /\ Ended
    /\ caller' = IF seen[1] = "succeeded" /\ seen[3] # None THEN "returned" ELSE "raised"
    /\ Fresh
    /\ UNCHANGED <<asked, model, found>>

(* The deadline or a connection error; the job is left to itself.           *)
DetectGivesUp ==
    /\ caller = "waiting" /\ ~Ended
    /\ caller' = "raised"
    /\ Fresh
    /\ UNCHANGED <<asked, model, found>>

-----------------------------------------------------------------------------
(* The scheduler and the claim thread of worker w.                          *)

Assigned == Assign /\ UNCHANGED <<caller, asked, holder, handlerVars, found>>

ClaimMine(w) ==
    /\ caller = "waiting" /\ run[w] = Idle
    /\ Claim
    /\ holder' = w
    /\ run' = [run EXCEPT ![w] = [Idle EXCEPT !.mine = TRUE, !.asks = asked]]
    /\ UNCHANGED <<caller, asked, model, found>>

(* A job of somebody else; one with unsupported classes would leave no      *)
(* trace.                                                                   *)
ClaimOther(w, r) ==
    /\ run[w] = Idle
    /\ run' = [run EXCEPT ![w] = [Idle EXCEPT !.asks = r]]
    /\ UNCHANGED <<vars, caller, asked, holder, model, found>>

(* The lease runs out, or the worker's silence or departure ends it.        *)
LeaseLost ==
    /\ caller = "waiting" /\ holder # Nothing
    /\ EndLease /\ todo' = Retry
    /\ holder' = Nothing
    /\ UNCHANGED <<caller, asked, handlerVars, found>>

(* Variant: complete takes the word of whoever was given the job once.      *)
CompleteRegardless(w) ==
    /\ run[w].by # Nothing
    /\ Unlocked
    /\ IF run[w].mine
       THEN /\ todo' = IF run[w].by = "error" THEN Failure ELSE Success
            /\ holder' = Nothing /\ found' = run[w]
            /\ UNCHANGED <<rec, tries, got, view, seen>>
       ELSE UNCHANGED <<vars, holder, found>>
    /\ run' = [run EXCEPT ![w] = Idle]
    /\ UNCHANGED <<caller, asked, model>>

(* complete: a success or a failure from the holder, 409 for anybody else.  *)
Complete(w) ==
    /\ run[w].by # Nothing
    /\ Unlocked
    /\ IF run[w].mine /\ holder = w
       THEN /\ EndLease
            /\ todo' = IF run[w].by = "error" THEN Failure ELSE Success
            /\ holder' = Nothing /\ found' = run[w]
       ELSE UNCHANGED <<vars, holder, found>>
    /\ run' = [run EXCEPT ![w] = Idle]
    /\ UNCHANGED <<caller, asked, model>>

(* The worker's process ends and another takes its place.                   *)
RestartWorker(w) ==
    /\ run' = [run EXCEPT ![w] = Idle]
    /\ model' = [model EXCEPT ![w] = Made(w)]
    /\ UNCHANGED <<vars, caller, asked, holder, found>>

-----------------------------------------------------------------------------
(* YoloWorldHandler.__call__ and YOLO_World_Manager.                        *)

(* activate_cached_classes, skipped when the handler has the classes active *)
Activated(m, r) ==
    IF m.active = r THEN m
    ELSE [m EXCEPT !.names = r, !.wanted = r, !.active = r, !.spoilt = FALSE]

(* Variant: the reloaded model is used with the classes of its weights.     *)
FallBacksUnset(m) == {[m EXCEPT !.mps = FALSE, !.names = Stock]}

(* What a fallback to the CPU may leave behind: the old model, when the     *)
(* weights cannot be loaded; the new one without its classes, when they     *)
(* cannot be set; or the new one.                                           *)
FallBacks(m) ==
    {[m EXCEPT !.mps = FALSE],
     [m EXCEPT !.mps = FALSE, !.names = Stock, !.spoilt = TRUE],
     [m EXCEPT !.mps = FALSE, !.names = m.wanted]}

(* The outcomes of predict: the model and the classes it reports.           *)
Predictions(m) ==
    {<<m, m.names>>, <<m, "error">>} \cup
        (IF m.mps
         THEN {<<f, "error">> : f \in FallBacks(m)}
                 \cup {<<f, f.names>> : f \in {g \in FallBacks(m) : g.names = m.wanted}}
         ELSE {})

(* Requests are checked before the lock is taken; whatever is raised is     *)
(* reported as a failure.                                                   *)
CallHandler(w) ==
    /\ run[w].asks # Nothing /\ run[w].by = Nothing
    /\ IF run[w].asks \notin Request
       THEN /\ run' = [run EXCEPT ![w].by = "error"]
            /\ UNCHANGED model
       ELSE \E p \in Predictions(Activated(model[w], run[w].asks)) :
               /\ model' = [model EXCEPT ![w] = p[1]]
               /\ run' = [run EXCEPT ![w].by = p[2],
                                        ![w].spoilt = p[1].spoilt /\ p[2] # "error"]
    /\ UNCHANGED <<vars, caller, asked, holder, found>>

VisionNext ==
    \/ \E r \in Request \cup {Unsupported} : Detect(r)
    \/ Poll \/ DetectReturns \/ DetectGivesUp
    \/ Assigned \/ LeaseLost
    \/ \E w \in Worker :
          \/ ClaimMine(w)
          \/ \E r \in Request : ClaimOther(w, r)
          \/ CallHandler(w) \/ Complete(w) \/ RestartWorker(w)

VisionSpec == VisionInit /\ [][VisionNext]_visionVars

-----------------------------------------------------------------------------
(* PROPERTIES *)

(* What detect returns was found by a model with the classes asked for,     *)
(* whatever the worker did before and whoever completed the job; unless a   *)
(* fallback failed there and its classes have been asked for ever since     *)
(* (model_handlers.py:73 then takes them for active).                       *)
DetectionsFitTheRequest ==
    caller = "returned" => found.by = asked \/ found.spoilt

(* A handler that takes a tuple of classes for active has a model that      *)
(* detects it and whose next fallback restores it, or a spoilt one.         *)
HandlerKnowsItsModel ==
    \A w \in Worker : model[w].active # Nothing =>
        /\ model[w].wanted = model[w].active
        /\ model[w].names = model[w].active \/ model[w].spoilt
=============================================================================
