---------------------------- MODULE MCTaskTable -----------------------------
(* Several small instances of TaskRuns in one run of TLC: the behaviours   *)
(* explored are those that stay within one of the sizes at every step.     *)
EXTENDS MCTaskRuns

BothRuns == {own1, srv1}

(* Two requests on one run; one request and the whole life of a run whose  *)
(* id is used again; two runs in a pass; a TTL that overflows.  The        *)
(* cleaner only runs where a row can grow old enough for it.               *)
Sizes ==
  {[ids |-> {own1}, ttls |-> {0}, calls |-> {c1, c2}, time |-> 1],
   [ids |-> {own1}, ttls |-> {0}, calls |-> {c1}, time |-> 2],
   [ids |-> {own1, srv1}, ttls |-> {0}, calls |-> {c1}, time |-> 1],
   [ids |-> {srv1}, ttls |-> {0, 6}, calls |-> {c1}, time |-> 2]}

Busy == {c \in Calls : call[c].pc # "idle"}
Present == {id \in RunIds : runs[id].status # "absent"}

Treated == {k.id : k \in sweep.cands} \cup {sweep.done[i].id : i \in DOMAIN sweep.done}
             \cup ({sweep.cur} \ {Nil})

IdsInUse == Present \cup minted \cup {call[c].id : c \in Busy} \cup Treated
TTLsInUse == {runs[id].ttl : id \in Present} \cup {call[c].ttl : c \in Busy}

Within(size) ==
  /\ now <= size.time /\ (cutoff # Nil => size.time > Retain)
  /\ Busy \subseteq size.calls /\ IdsInUse \subseteq size.ids
  /\ TTLsInUse \subseteq size.ttls \cup {Nil}

(* The constraint of the run.  No step of a pass leaves a size, so fair    *)
(* passes are not cut off by it.                                           *)
WithinSomeSize == \E size \in Sizes : Within(size)
=============================================================================
