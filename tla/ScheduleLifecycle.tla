-------------------------- MODULE ScheduleLifecycle --------------------------
(***************************************************************************)
(* What missed-run detection promises about one schedule per task name: it *)
(* is ok until it is found missed, only a start makes it ok again, and     *)
(* each time it goes missed is announced at most once.  An announcement    *)
(* can be lost; it is never repeated.                                      *)
(***************************************************************************)
CONSTANTS
  Names,    \* the task names that can have a schedule
  Time,     \* the times a start can be seen at
  Nil       \* never seen

VARIABLES
  status,   \* status[n]: "absent", "ok" or "missed"
  seen,     \* seen[n]: when a start of n was last seen, or Nil
  owed      \* owed[n]: 1 when the last time n went missed is yet to be announced

vars == <<status, seen, owed>>

Init ==
  /\ status = [n \in Names |-> "absent"]
  /\ seen = [n \in Names |-> Nil]
  /\ owed = [n \in Names |-> 0]

(* POST /api/v1/schedules for a name that has none; a registration of one  *)
(* that exists changes neither its status nor when it was last seen.       *)
Register(n) ==
  /\ status[n] = "absent"
  /\ status' = [status EXCEPT ![n] = "ok"]
  /\ UNCHANGED <<seen, owed>>

(* A run of the task started.                                              *)
Seen(n) ==
  /\ status[n] # "absent"
  /\ status' = [status EXCEPT ![n] = "ok"]
  /\ \E t \in Time : seen' = [seen EXCEPT ![n] = t]
  /\ UNCHANGED owed

Miss(n) ==
  /\ status[n] = "ok"
  /\ status' = [status EXCEPT ![n] = "missed"]
  /\ owed' = [owed EXCEPT ![n] = 1]
  /\ UNCHANGED seen

Announce(n) ==
  /\ owed[n] = 1
  /\ owed' = [owed EXCEPT ![n] = 0]
  /\ UNCHANGED <<status, seen>>

(* DELETE /api/v1/schedules/:taskName, whatever its status.                *)
Drop(n) ==
  /\ status[n] # "absent"
  /\ status' = [status EXCEPT ![n] = "absent"]
  /\ seen' = [seen EXCEPT ![n] = Nil]
  /\ UNCHANGED owed

Next == \E n \in Names : Register(n) \/ Seen(n) \/ Miss(n) \/ Announce(n) \/ Drop(n)

Spec == Init /\ [][Next]_vars
=============================================================================
