---------------------------- MODULE MCSchedules -----------------------------
(* Small instances of Schedules for TLC.                                   *)
EXTENDS Schedules

CONSTANTS n1, n2, c1

OneName == {n1}
TwoNames == {n1, n2}
OneCall == {c1}

Every(i, g) == [interval |-> i, cron |-> Nil, grace |-> g]
Cron(p, g) == [interval |-> Nil, cron |-> p, grace |-> g]

(* What a client may send: both, neither, not positive, an empty cron.     *)
AnyRequest == {Every(1, 0), Every(0, 0), Every(1, -1), Cron(2, 0), Cron(Garbage, 0),
               Cron(Empty, 0), [interval |-> 1, cron |-> 2, grace |-> 0],
               [interval |-> Nil, cron |-> Nil, grace |-> 0],
               [interval |-> 1, cron |-> Empty, grace |-> 0]}

LongAgo == -1000
=============================================================================
