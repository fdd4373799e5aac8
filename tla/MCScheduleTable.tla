-------------------------- MODULE MCScheduleTable ---------------------------
(* Several small instances of Schedules in one run of TLC: the behaviours  *)
(* explored are those that stay within one of the sizes at every step.     *)
EXTENDS MCSchedules

Patient == {Every(1, 1), Cron(2, 1)}
Instant == {Every(1, 0), Cron(0, 0)}
Overflowing == {Every(5, 0)}
AllModes == Patient \cup Instant \cup Overflowing

(* Two schedules with an interval, or two with a cron that never fires, in *)
(* one pass, and one error or crash; one schedule with either, with grace  *)
(* periods and a longer period over a longer time; an interval that does   *)
(* not fit in a Duration of the word of 4, and one that does.              *)
Sizes ==
  {[names |-> {n1, n2}, expect |-> {Every(1, 0)}, time |-> 1],
   [names |-> {n1, n2}, expect |-> {Cron(0, 0)}, time |-> 1],
   [names |-> {n1}, expect |-> Instant \cup Patient, time |-> 3],
   [names |-> {n1}, expect |-> {Every(1, 1)} \cup Overflowing, time |-> 1]}

Busy == {c \in Calls : call[c].pc # "idle"}
Present == {n \in Names : schedules[n].status # "absent"}

Treated == {n \in Names : detect.deadline[n] # Nil}

NamesInUse == Present \cup {call[c].name : c \in Busy} \cup Treated

Expected(row) == [interval |-> row.interval, cron |-> row.cron, grace |-> row.grace]
ModesInUse == {Expected(schedules[n]) : n \in Present} \cup {call[c].expect : c \in Busy}

Within(size) ==
  /\ now <= size.time
  /\ NamesInUse \subseteq size.names /\ ModesInUse \subseteq size.expect \cup {Nil}

(* The constraint of the run.  No step of a pass leaves a size, so fair    *)
(* passes are not cut off by it.                                           *)
WithinSomeSize == \E size \in Sizes : Within(size)
=============================================================================
