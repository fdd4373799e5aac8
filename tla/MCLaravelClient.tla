-------------------------- MODULE MCLaravelClient ---------------------------
(* A small instance of LaravelClient for TLC.                              *)
EXTENDS LaravelClient

CONSTANTS j1, j2

TwoJobs == {j1, j2}
=============================================================================
