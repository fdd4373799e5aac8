------------------------------ MODULE Service -------------------------------
(***************************************************************************)
(* What a client of the server may count on while the process is deployed, *)
(* restarted and killed, with no goroutine, listener or signal in sight:   *)
(* once it has begun to drain it takes nobody new, it stops of its own     *)
(* accord only when it serves nobody, and everything else is a death, which *)
(* may come at any time.                                                   *)
(***************************************************************************)
CONSTANT Peers      \* the connections there may be

VARIABLES
  phase,      \* "starting", "up", "draining", "stopped" or "dead"
  serving     \* the connections accepted and not yet ended

Init == phase = "starting" /\ serving = {}

Alive == phase \notin {"stopped", "dead"}

Moves(from, to) == phase = from /\ phase' = to /\ UNCHANGED serving

Accept(x) ==
  /\ phase = "up" /\ x \notin serving
  /\ serving' = serving \cup {x}
  /\ UNCHANGED phase

Finish(x) ==
  /\ Alive /\ x \in serving
  /\ serving' = serving \ {x}
  /\ UNCHANGED phase

Stop == serving = {} /\ Moves("draining", "stopped")

Die == Alive /\ Moves(phase, "dead")

Next ==
  \/ Moves("starting", "up") \/ Moves("up", "draining") \/ Stop \/ Die
  \/ \E x \in Peers : Accept(x) \/ Finish(x)

Spec == Init /\ [][Next]_<<phase, serving>>
=============================================================================
