------------------------------ MODULE Schedules ------------------------------
(***************************************************************************)
(* The task_schedules table and everything that writes it: the schedule    *)
(* handlers (internal/handlers/schedule_handler.go), the Touch at the end  *)
(* of POST /events/start, and the missed-run detector (internal/missedrun) *)
(* with the statements of internal/store/schedule_store.go they execute.   *)
(*                                                                         *)
(* One action is one SQL statement or one Hub.Publish; the time a request  *)
(* or a pass works with is captured before its statements run.             *)
(***************************************************************************)
EXTENDS Integers, Sequences

CONSTANTS
  Names,        \* the task names
  Calls,        \* request slots
  Expectations, \* what a registration may ask: [interval, cron, grace]
  ZeroTime,     \* time.Time{}: year 1, further back than any Duration
  Word,         \* a Duration lies in -Word .. Word - 1 (2^63 ns in the code)
  MaxTime,      \* bound: the clock stops here
  MaxFaults,    \* bound: number of database errors and crashes
  Empty,        \* the cron_expression ""
  Garbage,      \* any other text cron.ParseStandard refuses
  Nil           \* SQL NULL, a JSON field left out, an unset local variable

(* A cron expression that parses is modelled by the period of its          *)
(* occurrences; 0 stands for one that never fires, such as 0 0 30 2 *.     *)
Crons == Nat \cup {Empty, Garbage}

ASSUME ConstantsAssumption ==
  /\ Expectations \subseteq [interval : Int \cup {Nil}, cron : Crons \cup {Nil}, grace : Int]
  /\ Word \in Nat \ {0} /\ ZeroTime \in Int /\ ZeroTime + Word <= 0
  /\ MaxTime \in Nat /\ MaxFaults \in Nat
  /\ Nil \notin Int /\ Nil \notin Names
  /\ Empty \notin Nat \cup {Nil} /\ Garbage \notin Nat \cup {Nil}

VARIABLES
  now,        \* the wall clock
  schedules,  \* schedules[n]: the row of task name n in task_schedules
  call,       \* call[c]: the handler executing in slot c
  detect,     \* the detector goroutine
  owed,       \* history: flips to missed yet to be announced, per name
  faults      \* database errors and crashes so far

vars == <<now, schedules, call, detect, owed, faults>>

-----------------------------------------------------------------------------
NoRow == [status |-> "absent", interval |-> Nil, cron |-> Nil, grace |-> Nil,
          seen |-> Nil, updated |-> Nil]

Parses(cron) == cron \in Nat

(* sched.Next: the first occurrence strictly after ref, or the zero time.  *)
NextFire(period, ref) ==
  IF period = 0 THEN ZeroTime ELSE ((ref \div period) + 1) * period

(* The time a schedule is counted from: last seen, else last registered.   *)
Reference(row) == IF row.seen # Nil THEN row.seen ELSE row.updated

(* int64 arithmetic: a Duration that does not fit wraps around, and Register *)
(* bounds neither number from above.                                       *)
Wrap(d) == ((d + Word) % (2 * Word)) - Word

(* How long after the time it counts from a schedule is missed.            *)
Delay(row) == IF row.cron # Nil THEN row.grace ELSE row.interval + row.grace

(* Mutation: the grace period is forgotten in cron mode.                   *)
DeadlineCronNoGrace(row) ==
  IF row.cron # Nil THEN NextFire(row.cron, Reference(row))
                    ELSE Reference(row) + Wrap(Delay(row))

Deadline(row) ==
  (IF row.cron # Nil THEN NextFire(row.cron, Reference(row)) ELSE Reference(row))
    + Wrap(Delay(row))

(* Mutation: a schedule never seen is passed over.                         *)
FlaggableOnceSeen(row) == row.status = "ok" /\ row.seen # Nil

(* WHERE status = 'ok', in the detector's SELECT and in its UPDATE.        *)
Flaggable(row) == row.status = "ok"

(* A stored cron that does not parse is logged and skipped, for ever.      *)
Overdue(row, at) == (row.cron = Nil \/ Parses(row.cron)) /\ at >= Deadline(row)

(* The checks of Register: an empty cron_expression counts as none.        *)
Valid(e) ==
  LET hasInterval == e.interval # Nil
      hasCron == e.cron \notin {Nil, Empty}
  IN /\ hasInterval # hasCron
     /\ hasInterval => e.interval > 0
     /\ hasCron => Parses(e.cron)
     /\ e.grace >= 0

IdleCall == [pc |-> "idle", name |-> Nil, at |-> Nil, expect |-> Nil]

(* The detector: the time of the pass, the overdue names still to treat    *)
(* and the deadlines the SELECT gave them, the name just flipped, and the  *)
(* names to announce, in order.                                            *)
IdleDetect == [pc |-> "idle", at |-> Nil, cands |-> {}, deadline |-> [n \in Names |-> Nil],
               cur |-> Nil, found |-> <<>>]

Goto(c, r) == call' = [call EXCEPT ![c] = r]

Init ==
  /\ now = 0
  /\ schedules = [n \in Names |-> NoRow]
  /\ call = [c \in Calls |-> IdleCall]
  /\ detect = IdleDetect
  /\ owed = [n \in Names |-> 0]
  /\ faults = 0

Tick ==
  /\ now < MaxTime
  /\ now' = now + 1
  /\ UNCHANGED <<schedules, call, detect, owed, faults>>

-----------------------------------------------------------------------------
(* Requests                                                                *)

(* POST /api/v1/schedules, accepted.                                       *)
RegisterCall(c) ==
  /\ call[c].pc = "idle"
  /\ \E n \in Names, e \in Expectations :
       /\ Valid(e)
       /\ Goto(c, [pc |-> "upsert", name |-> n, at |-> now, expect |-> e])
  /\ UNCHANGED <<now, schedules, detect, owed, faults>>

(* Mutation: a registration starts the schedule afresh.                    *)
UpsertAfresh(c) ==
  /\ call[c].pc = "upsert"
  /\ LET q == call[c]
     IN schedules' = [schedules EXCEPT ![q.name] =
          [status |-> "ok", interval |-> q.expect.interval, cron |-> q.expect.cron,
           grace |-> q.expect.grace, seen |-> Nil, updated |-> q.at]]
  /\ Goto(c, IdleCall)
  /\ UNCHANGED <<now, detect, owed, faults>>

(* Upsert: on conflict last_seen_at and status stay as they are.           *)
Upsert(c) ==
  /\ call[c].pc = "upsert"
  /\ LET q == call[c]
         old == schedules[q.name]
     IN schedules' = [schedules EXCEPT ![q.name] =
          [status |-> IF old.status = "absent" THEN "ok" ELSE old.status,
           interval |-> q.expect.interval, cron |-> q.expect.cron,
           grace |-> q.expect.grace, seen |-> old.seen, updated |-> q.at]]
  /\ Goto(c, IdleCall)
  /\ UNCHANGED <<now, detect, owed, faults>>

(* POST /api/v1/events/start: its time is captured well before its Touch,  *)
(* with the INSERT of the run and the publication in between.              *)
StartCall(c) ==
  /\ call[c].pc = "idle"
  /\ \E n \in Names :
       Goto(c, [IdleCall EXCEPT !.pc = "touch", !.name = n, !.at = now])
  /\ UNCHANGED <<now, schedules, detect, owed, faults>>

(* Mutation: an UPDATE turned into an INSERT OR REPLACE.                    *)
TouchAnyName(c) ==
  /\ call[c].pc = "touch"
  /\ schedules' = [schedules EXCEPT ![call[c].name].status = "ok",
                                    ![call[c].name].seen = call[c].at,
                                    ![call[c].name].updated = call[c].at]
  /\ Goto(c, IdleCall)
  /\ UNCHANGED <<now, detect, owed, faults>>

(* Touch: a task name without a schedule is no error.                      *)
Touch(c) ==
  /\ call[c].pc = "touch"
  /\ LET q == call[c]
         old == schedules[q.name]
     IN schedules' = IF old.status = "absent" THEN schedules
          ELSE [schedules EXCEPT ![q.name] =
                  [old EXCEPT !.status = "ok", !.seen = q.at, !.updated = q.at]]
  /\ Goto(c, IdleCall)
  /\ UNCHANGED <<now, detect, owed, faults>>

(* DELETE /api/v1/schedules/:taskName; 404 when there is none.             *)
Delete(n) ==
  /\ schedules[n].status # "absent"
  /\ schedules' = [schedules EXCEPT ![n] = NoRow]
  /\ UNCHANGED <<now, call, detect, owed, faults>>

-----------------------------------------------------------------------------
(* The detector: one pass of DetectMissed and checkOnce                    *)

DetectStart ==
  /\ detect.pc = "idle"
  /\ detect' = [IdleDetect EXCEPT !.pc = "select", !.at = now]
  /\ UNCHANGED <<now, schedules, call, owed, faults>>

(* The SELECT, with the deadline computed and compared for each row.       *)
DetectSelect ==
  /\ detect.pc = "select"
  /\ LET overdue == {n \in Names : Flaggable(schedules[n]) /\ Overdue(schedules[n], detect.at)}
     IN detect' = [detect EXCEPT !.pc = "mark", !.cands = overdue,
          !.deadline = [n \in Names |-> IF n \in overdue THEN Deadline(schedules[n]) ELSE Nil]]
  /\ UNCHANGED <<now, schedules, call, owed, faults>>

(* The UPDATE of one candidate: it asks for the status again, not for the  *)
(* deadline.                                                               *)
DetectMark ==
  /\ detect.pc = "mark"
  /\ \E n \in detect.cands :
       LET rest == [detect EXCEPT !.cands = detect.cands \ {n}]
       IN IF Flaggable(schedules[n])
            THEN /\ schedules' = [schedules EXCEPT ![n] =
                       [schedules[n] EXCEPT !.status = "missed", !.updated = detect.at]]
                 /\ detect' = [rest EXCEPT !.pc = "get", !.cur = n]
                 /\ owed' = IF schedules[n].status = "ok" THEN [owed EXCEPT ![n] = 1] ELSE owed
            ELSE /\ detect' = rest
                 /\ UNCHANGED <<schedules, owed>>
  /\ UNCHANGED <<now, call, faults>>

(* Get of the name just flipped; ErrNotFound gives up the whole pass.      *)
DetectGet ==
  /\ detect.pc = "get" /\ schedules[detect.cur].status # "absent"
  /\ detect' = [detect EXCEPT !.pc = "mark", !.cur = Nil,
                  !.found = Append(detect.found, detect.cur)]
  /\ UNCHANGED <<now, schedules, call, owed, faults>>

DetectGone ==
  /\ detect.pc = "get" /\ schedules[detect.cur].status = "absent"
  /\ detect' = IdleDetect
  /\ UNCHANGED <<now, schedules, call, owed, faults>>

(* checkOnce publishes one schedule.missed per name found.                 *)
DetectPublish ==
  /\ detect.pc = "mark" /\ detect.cands = {} /\ detect.found # <<>>
  /\ detect' = [detect EXCEPT !.found = Tail(detect.found)]
  /\ owed' = [owed EXCEPT ![Head(detect.found)] = @ - 1]
  /\ UNCHANGED <<now, schedules, call, faults>>

DetectEnd ==
  /\ detect.pc = "mark" /\ detect.cands = {} /\ detect.found = <<>>
  /\ detect' = IdleDetect
  /\ UNCHANGED <<now, schedules, call, owed, faults>>

-----------------------------------------------------------------------------
(* Failures                                                                *)

(* A statement fails: 500, or only a log line for Touch.                   *)
CallDbError(c) ==
  /\ faults < MaxFaults
  /\ call[c].pc # "idle"
  /\ Goto(c, IdleCall)
  /\ faults' = faults + 1
  /\ UNCHANGED <<now, schedules, detect, owed>>

DetectDbError ==
  /\ faults < MaxFaults
  /\ detect.pc \in {"select", "get"} \/ (detect.pc = "mark" /\ detect.cands # {})
  /\ detect' = IdleDetect
  /\ faults' = faults + 1
  /\ UNCHANGED <<now, schedules, call, owed>>

(* The process dies and is started again: the table is all that is left.   *)
Crash ==
  /\ faults < MaxFaults
  /\ call' = [c \in Calls |-> IdleCall]
  /\ detect' = IdleDetect
  /\ faults' = faults + 1
  /\ UNCHANGED <<now, schedules, owed>>

-----------------------------------------------------------------------------
DetectStep == DetectStart \/ DetectSelect \/ DetectMark \/ DetectGet \/ DetectGone
                \/ DetectPublish \/ DetectEnd

Next ==
  \/ Tick
  \/ \E c \in Calls : \/ RegisterCall(c) \/ Upsert(c) \/ StartCall(c) \/ Touch(c)
                      \/ CallDbError(c)
  \/ \E n \in Names : Delete(n)
  \/ DetectStep \/ DetectDbError
  \/ Crash

Spec == Init /\ [][Next]_vars

(* The detector is a goroutine with a ticker: it keeps running its passes. *)
FairSpec == Spec /\ WF_vars(DetectStep)

-----------------------------------------------------------------------------
(* Properties                                                              *)

NilOr(S) == S \cup {Nil}
Row == [status : {"ok", "missed"}, interval : NilOr(Int), cron : NilOr(Crons),
        grace : Int, seen : NilOr(Int), updated : Int]

(* The type invariant: a present row has every column the schema declares  *)
(* NOT NULL, only a registration makes one present.                        *)
TypeOK ==
  /\ now \in 0..MaxTime
  /\ schedules \in [Names -> Row \cup {NoRow}]
  /\ call \in [Calls -> [pc : {"idle", "upsert", "touch"}, name : NilOr(Names),
                         at : NilOr(Int), expect : NilOr(Expectations)]]
  /\ detect \in [pc : {"idle", "select", "mark", "get"}, at : NilOr(Int),
                 cands : SUBSET Names, deadline : [Names -> NilOr(Int)],
                 cur : NilOr(Names), found : Seq(Names)]
  /\ owed \in [Names -> {0, 1}]
  /\ faults \in 0..MaxFaults

(* A run of the task was due: its interval, or an occurrence of its cron   *)
(* since it was last counted from, lies a grace period back.  (A cron that *)
(* never fires is due at once.)                                            *)
WasDue(row, at) ==
  IF row.cron = Nil THEN Reference(row) + row.interval <= at - row.grace
  ELSE row.cron = 0 \/ \E t \in (Reference(row) + 1)..(at - row.grace) : t % row.cron = 0

Fits(row) == -Word <= Delay(row) /\ Delay(row) < Word

FlippedWhenDue(n) ==
  schedules[n].status = "ok" /\ schedules'[n].status = "missed" =>
    LET row == schedules[n]
    IN IF row.cron # Nil /\ ~Parses(row.cron) THEN detect.deadline[n] # Nil
       ELSE \/ WasDue(row, detect.at)
            \/ Deadline(row) # detect.deadline[n]
            \/ ~Fits(row)

(* No schedule is flipped whose run was not due, except that it was seen   *)
(* or registered again with another deadline, or a cron that does not      *)
(* parse, between the SELECT of the pass and its UPDATE, which does not    *)
(* ask for the deadline; or that its interval and grace period do not fit  *)
(* in a Duration.                                                          *)
MissedOnlyWhenDue == [][\A n \in Names : FlippedWhenDue(n)]_vars

(* Seen through status and owed alerts the table and the detector keep the *)
(* promise of ScheduleLifecycle: a registration forgets nothing, only a    *)
(* start clears a missed schedule, no episode is announced twice.          *)
Lifecycle == INSTANCE ScheduleLifecycle
               WITH status <- [n \in Names |-> schedules[n].status],
                    seen <- [n \in Names |-> schedules[n].seen],
                    Time <- 0..MaxTime
ImplementsLifecycle == Lifecycle!Spec

(* No schedule stays overdue for ever without being flagged: it is seen,   *)
(* registered again, deleted or flipped, errors and crashes                *)
(* notwithstanding - unless passes are given up for ever because the very  *)
(* schedule they have just flipped is deleted before they read it back.    *)
OverdueIsFlagged ==
  \A n \in Names :
    \/ []<>~(schedules[n].status = "ok" /\ Overdue(schedules[n], now))
    \/ []<><<DetectGone>>_vars

-----------------------------------------------------------------------------
(* What comments and documents say and the code does not do                *)

(* "Was validated at registration time, so this shouldn't happen": no      *)
(* stored cron_expression fails to parse.                                  *)
StoredCronParses ==
  \A n \in Names : schedules[n].cron # Nil => Parses(schedules[n].cron)
=============================================================================
