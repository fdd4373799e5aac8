------------------------------ MODULE MCServer ------------------------------
(* Small instances of Server, and of the hub in it, for TLC.               *)
EXTENDS Server

CONSTANTS r1, sweep, clean, l1, alerts, Unset, Garbage

OneRequest == {r1}
OnePass == {sweep}
OneStream == {l1}

OneOfEach == {r1, sweep}
BothListeners == {l1, alerts}

OneSecond == [w \in {sweep, clean} |-> 1]

Environment(s, c, days, webhook) ==
  [seconds |-> [w \in {sweep, clean} |-> IF w = sweep THEN s ELSE c],
   days |-> days, webhook |-> webhook]

(* Alerts but no retention, retention but no alerts; a sweep every 0       *)
(* seconds; one whose Duration overflows (2 units to the second, 8 to the  *)
(* word); nothing understood but a cleaner's interval that would make it   *)
(* panic if it were started.                                               *)
SomeEnvironments ==
  {Environment(1, 1, 0, TRUE), Environment(Unset, 1, 1, FALSE),
   Environment(0, Unset, 1, FALSE), Environment(4, 1, 0, FALSE),
   Environment(Garbage, 0, Unset, FALSE)}
=============================================================================
