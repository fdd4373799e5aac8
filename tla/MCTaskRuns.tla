----------------------------- MODULE MCTaskRuns -----------------------------
(* Small instances of TaskRuns for TLC.                                    *)
EXTENDS TaskRuns, FiniteSets, TLC

CONSTANTS c1, c2, own1, srv1, srv2, s1

TwoCalls == {c1, c2}
OneCall == {c1}
OneSub == {s1}
NoSubs == {}

ServerRun == {srv1}
ClientRun == {own1}
ServerRuns == {srv1, srv2}
NoClientIds == {}

OneTTL == {0}

(* The last one overflows a word of 4.                                      *)
SomeTTLs == {0, 6}

(* Slots are interchangeable: no action orders them and each is treated alike. *)
Symmetry == Permutations(Calls)

(* A constraint: after an error or a crash one request at a time.           *)
CalmAfterFault == faults = 0 \/ Cardinality({c \in Calls : call[c].pc # "idle"}) <= 1
=============================================================================
