-------------------------- MODULE MCScheduleBoard ---------------------------
(* A small instance of ScheduleBoard for TLC.                              *)
EXTENDS ScheduleBoard

CONSTANTS n1, f1, f2, d1

OneName == {n1}
TwoRefreshes == {f1, f2}
OneRemove == {d1}
=============================================================================
