---------------------------- MODULE RunLifecycle ----------------------------
(***************************************************************************)
(* What ChronosMonitor promises about the status of a task run, with no    *)
(* table, no SQL statement and no handler in sight.  A run is absent until *)
(* it is started, runs, and settles; the sweeper may settle only a run     *)
(* that is running, a client may settle any run that exists (a late        *)
(* report corrects an earlier one, a timeout included), nothing ever makes *)
(* a settled run run again, and only settled runs are forgotten.           *)
(***************************************************************************)
CONSTANT RunIds     \* the run_id values that can occur

VARIABLE status     \* status[id]: the status of run id

Statuses == {"absent", "running", "success", "failed", "timeout"}
Settled == {"success", "failed", "timeout"}

Init == status = [id \in RunIds |-> "absent"]

(* POST /api/v1/events/start, with an id that no present run carries.              *)
Begin(id) ==
  /\ status[id] = "absent"
  /\ status' = [status EXCEPT ![id] = "running"]

(* POST /api/v1/events/success or failed.                                   *)
Report(id) ==
  /\ status[id] # "absent"
  /\ \E outcome \in {"success", "failed"} :
       status' = [status EXCEPT ![id] = outcome]

(* The TTL sweeper gives up on a run.                                      *)
Expire(id) ==
  /\ status[id] = "running"
  /\ status' = [status EXCEPT ![id] = "timeout"]

(* The retention cleaner forgets some settled runs at once.                *)
Forget ==
  \E ids \in SUBSET {id \in RunIds : status[id] \in Settled} :
    status' = [id \in RunIds |-> IF id \in ids THEN "absent" ELSE status[id]]

Next ==
  \/ \E id \in RunIds : Begin(id) \/ Report(id) \/ Expire(id)
  \/ Forget

Spec == Init /\ [][Next]_status
=============================================================================
