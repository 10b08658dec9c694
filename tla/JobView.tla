------------------------------ MODULE JobView ------------------------------
(***************************************************************************)
(* What a client sees of one job while the scheduler changes it            *)
(* (src/src/detect_objects/distributed/scheduler.py, coordinator.py).      *)
(*                                                                         *)
(* Scheduler takes each method as one step, which is what its lock gives   *)
(* to everybody who takes that lock.  A GET does not for long: get_job     *)
(* returns the record itself, and as_dict reads its fields one by one      *)
(* after the lock is released, while another request may be assigning      *)
(* them one by one under the lock.  Single reads and assignments are       *)
(* atomic; nothing larger is.                                              *)
(***************************************************************************)
EXTENDS Naturals, Sequences

CONSTANTS MaxAttempts   (* max_attempts of the job *)

ASSUME JobViewAssumption == MaxAttempts \in 1..20

VARIABLES rec,    (* the fields of the JobRecord that say how it stands     *)
          tries,  (* its attempts                                           *)
          todo,   (* the assignments still to make by the holder of the     *)
                  (* lock, which is free when there are none                *)
          got,    (* whether a GET has got the record from get_job          *)
          view,   (* the fields that this GET has read so far               *)
          seen    (* the last view that told the client of an outcome       *)

vars == <<rec, tries, todo, got, view, seen>>

None == "none"
Terminal == {"succeeded", "failed"}

(* The fields in the order in which as_dict reads them.                     *)
ReadOrder == <<"status", "worker", "result", "error">>
Field == {ReadOrder[i] : i \in DOMAIN ReadOrder}
Value == {None, "queued", "leased", "succeeded", "failed", "set"}

TypeOK ==
    /\ rec \in [Field -> Value]
    /\ tries \in 0..MaxAttempts
    /\ got \in BOOLEAN
    /\ todo \in Seq(Field \X Value)
    /\ view \in Seq(Value) /\ Len(view) <= Len(ReadOrder)
    /\ seen \in Seq(Value) /\ Len(seen) \in {0, Len(ReadOrder)}

(* submit *)
NewJob == [f \in Field |-> IF f = "status" THEN "queued" ELSE None]

Init ==
    /\ rec = NewJob /\ tries = 0
    /\ todo = <<>> /\ got = FALSE /\ view = <<>> /\ seen = <<>>

Unlocked == todo = <<>>

(* claim *)
Claim ==
    /\ Unlocked /\ rec["status"] = "queued"
    /\ todo' = << <<"status", "leased">>, <<"worker", "set">> >>
    /\ tries' = tries + 1
    /\ UNCHANGED <<rec, got, view, seen>>

Success == << <<"status", "succeeded">>, <<"result", "set">>, <<"error", None>>,
              <<"worker", "set">> >>

Failure == << <<"status", "failed">>, <<"error", "set">>, <<"result", None>> >>

(* _retry_or_fail_locked *)
Retry ==
    << <<"result", None>>, <<"worker", None>> >> \o
       IF tries < MaxAttempts
       THEN << <<"status", "queued">>, <<"error", None>> >>
       ELSE << <<"status", "failed">>, <<"error", "set">> >>

MayEnd == Unlocked /\ rec["status"] = "leased"

(* complete, a reap or an unregistration ends the lease.                    *)
EndLease ==
    /\ MayEnd
    /\ todo' \in {Success, Failure, Retry}
    /\ UNCHANGED <<rec, tries, got, view, seen>>

Assign ==
    /\ ~Unlocked
    /\ rec' = [rec EXCEPT ![Head(todo)[1]] = Head(todo)[2]]
    /\ todo' = Tail(todo)
    /\ UNCHANGED <<tries, got, view, seen>>

(* get_job takes the lock to find the record, and gives it back.            *)
GetJob ==
    /\ Unlocked /\ ~got
    /\ got' = TRUE
    /\ UNCHANGED <<rec, tries, todo, view, seen>>

(* as_dict, one field.                                                      *)
Read ==
    /\ got
    /\ Len(view) < Len(ReadOrder)
    /\ view' = Append(view, rec[ReadOrder[Len(view) + 1]])
    /\ UNCHANGED <<rec, tries, todo, got, seen>>

(* The client goes on waiting unless the answer tells of an outcome.        *)
Receive ==
    /\ Len(view) = Len(ReadOrder)
    /\ seen' = IF view[1] \in Terminal THEN view ELSE seen
    /\ view' = <<>> /\ got' = FALSE
    /\ UNCHANGED <<rec, tries, todo>>

Next == Claim \/ EndLease \/ Assign \/ GetJob \/ Read \/ Receive

Spec == Init /\ [][Next]_vars

-----------------------------------------------------------------------------
(* PROPERTIES *)

Seen(f) == seen[CHOOSE i \in DOMAIN ReadOrder : ReadOrder[i] = f]

(* A client that was told of an outcome is never told otherwise by the      *)
(* record later (client.py wait returns on the first terminal status).      *)
OutcomeSeenIsFinal ==
    [][seen # <<>> /\ Seen("status") \in Terminal /\ seen' = seen
          => rec'["status"] = Seen("status")]_vars

(* "Wait for a terminal result" (client.py:70): an answer that says the job *)
(* succeeded carries its result.                                            *)
SuccessSeenWithResult ==
    seen # <<>> /\ Seen("status") = "succeeded" => Seen("result") # None
=============================================================================
