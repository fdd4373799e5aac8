---------------------------- MODULE MCDashboard -----------------------------
(* A small instance of Dashboard for TLC.                                  *)
EXTENDS Dashboard

CONSTANTS w1, w2, mount, submit1, submit2

TwoWriters == {w1, w2}
TwoSubmits == {submit1, submit2}
=============================================================================
