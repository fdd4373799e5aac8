------------------------------ MODULE TaskRuns ------------------------------
(***************************************************************************)
(* The task_runs table and everything that writes it: the task event       *)
(* handlers of the HTTP API (internal/handlers/task_handler.go), the TTL   *)
(* sweeper (internal/sweeper), the retention cleaner (internal/retention)  *)
(* and the statements of internal/store/task_store.go they execute, with   *)
(* the events they publish to the subscribers of the hub.                  *)
(*                                                                         *)
(* One action is one SQL statement or one Hub.Publish: nothing in the code *)
(* puts two statements in a transaction, so every other goroutine may run  *)
(* between any two of them.  Every time stamp is captured by time.Now()    *)
(* before the statement that stores it, so a stamp can be old when it is   *)
(* written.  The clock never goes backwards.                               *)
(***************************************************************************)
EXTENDS Integers, Sequences

CONSTANTS
  RunIds,       \* every run_id that can occur
  ClientIds,    \* those a client chooses itself; uuid.NewString() mints the rest
  Calls,        \* request slots: how many API calls are in flight at once
  TTLs,         \* ttl_seconds values a start may carry; Nil when it has none
  Subs,         \* subscribers of the hub
  Cap,          \* capacity of a subscriber's channel (16 in the code)
  Retain,       \* retention window; 0 when retention is disabled
  Word,         \* a Duration lies in -Word .. Word - 1 (2^63 ns in the code)
  Milli,        \* units of the clock in a millisecond (10^6 ns in the code)
  MaxTime,      \* bound: the clock stops here
  MaxFaults,    \* bound: number of database errors and crashes
  Nil           \* SQL NULL, or an unset local variable

ASSUME ConstantsAssumption ==
  /\ ClientIds \subseteq RunIds
  /\ TTLs \subseteq Int \cup {Nil}
  /\ Nil \notin Int
  /\ Cap \in Nat \ {0} /\ Word \in Nat \ {0} /\ Milli \in Nat \ {0}
  /\ Retain \in Nat /\ MaxTime \in Nat /\ MaxFaults \in Nat

ASSUME NilAssumption == Nil \notin RunIds

VARIABLES
  now,      \* the wall clock
  runs,     \* runs[id]: the row of run id in task_runs
  minted,   \* the server ids already drawn
  told,     \* the server ids a client has been given in a 201 response
  early,    \* history: the server ids somebody reported on before that
  call,     \* call[c]: the handler executing in slot c
  sweep,    \* the sweeper goroutine
  cutoff,   \* the cutoff of the retention pass in progress, or Nil
  chan,     \* chan[s]: events buffered for subscriber s
  faults    \* database errors and crashes so far

vars == <<now, runs, minted, told, early, call, sweep, cutoff, chan, faults>>

-----------------------------------------------------------------------------
(* Rows, events, handlers                                                  *)

Time == 0..MaxTime
Ops == {"heartbeat", "success", "failed"}
Settled == {"success", "failed", "timeout"}

NoRow == [status |-> "absent", started |-> Nil, finished |-> Nil,
          beat |-> Nil, ttl |-> Nil, dur |-> Nil]

NewRow(at, ttl) == [NoRow EXCEPT !.status = "running", !.started = at,
                                 !.beat = at, !.ttl = ttl]

(* Mutations: the duration of a settled row is kept; finished_at is forgotten. *)
SettleKeepsDuration(row, status, at, dur) ==
  [row EXCEPT !.status = status, !.finished = at,
              !.dur = IF row.dur = Nil THEN dur ELSE row.dur]
SettleWithoutFinish(row, status, at, dur) ==
  [row EXCEPT !.status = status, !.dur = dur]

(* The status, finished_at and duration_ms that both ways of settling set. *)
Settle(row, status, at, dur) ==
  [row EXCEPT !.status = status, !.finished = at, !.dur = dur]

(* The TTL as a time.Duration, in int64 arithmetic: one that does not fit  *)
(* wraps around, and no request is refused for it.                         *)
Duration(ttl) == ((ttl + Word) % (2 * Word)) - Word

(* Duration.Milliseconds: integer division, truncated toward zero.         *)
Millis(d) == IF d >= 0 THEN d \div Milli ELSE -((-d) \div Milli)

(* Mutations of the loop's comparison: off by one; runs that ever sent a   *)
(* heartbeat are skipped; the reference time is always started_at.         *)
ExpiredAtTTL(row, at) == at - row.beat >= Duration(row.ttl)
ExpiredUnheard(row, at) == row.beat = row.started /\ at - row.beat > Duration(row.ttl)
ExpiredSinceStart(row, at) == at - row.started > Duration(row.ttl)

(* SweepTimeouts: silent for more than the TTL at the time of the pass.    *)
Expired(row, at) == at - row.beat > Duration(row.ttl)

(* Mutation: the UPDATE of the sweep forgets AND status = 'running'.       *)
MarksAnyRow(row) == row.status # "absent"

(* The rows the sweep's UPDATE matches: those still running, whatever      *)
(* became of the heartbeat the SELECT saw.                                 *)
Marks(row) == row.status = "running"

(* Mutation of the cleaner's WHERE: off by one.                            *)
PurgeableAtCutoff(row, at) == row.finished # Nil /\ row.finished <= at

(* DeleteOlderThan: finished_at IS NOT NULL AND finished_at < cutoff.      *)
Purgeable(row, at) == row.finished # Nil /\ row.finished < at

Event(type, id, row) == [type |-> type, id |-> id, row |-> row]

EventType == [start |-> "task.started", heartbeat |-> "task.heartbeat",
              success |-> "task.succeeded", failed |-> "task.failed"]

(* Mutation: off by one, a full channel takes one more.                    *)
PublishPastCap(evt) ==
  chan' = [s \in Subs |-> IF Len(chan[s]) <= Cap THEN Append(chan[s], evt)
                                                 ELSE chan[s]]

(* Hub.Publish: a subscriber whose channel is full misses the event.       *)
Publish(evt) ==
  chan' = [s \in Subs |-> IF Len(chan[s]) < Cap THEN Append(chan[s], evt)
                                                ELSE chan[s]]

(* A handler is at step pc of operation op on run id with captured time at *)
(* and request ttl; started is what Finish read, row what publishLatest    *)
(* (or Start itself) is about to publish.                                  *)
IdleCall == [pc |-> "idle", op |-> Nil, id |-> Nil, at |-> Nil, ttl |-> Nil,
             started |-> Nil, row |-> NoRow]

(* The sweeper: the time the pass captured, the candidates still to treat, *)
(* the run just marked and the rows marked so far, in order.               *)
IdleSweep == [pc |-> "idle", at |-> Nil, cands |-> {}, cur |-> Nil, done |-> <<>>]

Goto(c, r) == call' = [call EXCEPT ![c] = r]

(* What GET /api/v1/tasks shows.                                           *)
Listed == {id \in RunIds : runs[id].status # "absent"}

Init ==
  /\ now = 0
  /\ runs = [id \in RunIds |-> NoRow]
  /\ minted = {} /\ told = {} /\ early = {}
  /\ call = [c \in Calls |-> IdleCall]
  /\ sweep = IdleSweep
  /\ cutoff = Nil
  /\ chan = [s \in Subs |-> <<>>]
  /\ faults = 0

Tick ==
  /\ now < MaxTime
  /\ now' = now + 1
  /\ UNCHANGED <<runs, minted, told, early, call, sweep, cutoff, chan, faults>>

-----------------------------------------------------------------------------
(* POST /api/v1/events/start                                               *)

StartCall(c) ==
  /\ call[c].pc = "idle"
  /\ \E id \in RunIds, ttl \in TTLs :
       /\ id \in ClientIds \/ id \notin minted
       /\ minted' = minted \cup ({id} \ ClientIds)
       /\ Goto(c, [IdleCall EXCEPT !.pc = "create", !.op = "start", !.id = id,
                                   !.at = now, !.ttl = ttl])
  /\ UNCHANGED <<now, runs, told, early, sweep, cutoff, chan, faults>>

(* Mutation: Start answers before it publishes.                            *)
CreateAnswers(c) ==
  /\ call[c].pc = "create" /\ runs[call[c].id].status = "absent"
  /\ LET row == NewRow(call[c].at, call[c].ttl)
     IN /\ runs' = [runs EXCEPT ![call[c].id] = row]
        /\ Goto(c, [call[c] EXCEPT !.pc = "publish", !.row = row])
  /\ told' = told \cup ({call[c].id} \ ClientIds)
  /\ UNCHANGED <<now, minted, early, sweep, cutoff, chan, faults>>

(* Create: run_id is the primary key, a present run makes the INSERT fail. *)
Create(c) ==
  /\ call[c].pc = "create"
  /\ LET id == call[c].id
         row == NewRow(call[c].at, call[c].ttl)
     IN IF runs[id].status = "absent"
          THEN /\ runs' = [runs EXCEPT ![id] = row]
               /\ Goto(c, [call[c] EXCEPT !.pc = "publish", !.row = row])
          ELSE /\ Goto(c, IdleCall)
               /\ UNCHANGED runs
  /\ UNCHANGED <<now, minted, told, early, sweep, cutoff, chan, faults>>

(* Touch writes the schedules only and its error is logged, so what is     *)
(* left to this module of the end of Start is the response.                *)
RespondStart(c) ==
  /\ call[c].pc = "respond"
  /\ told' = told \cup ({call[c].id} \ ClientIds)
  /\ Goto(c, IdleCall)
  /\ UNCHANGED <<now, runs, minted, early, sweep, cutoff, chan, faults>>

-----------------------------------------------------------------------------
(* POST /api/v1/events/heartbeat, success, failed                          *)

(* A client reports on an id it chose, on one it was given, or on one it   *)
(* read in GET /tasks, which lists a row from its INSERT on.  (Any other   *)
(* id gets a 404 and changes nothing.)                                     *)
ReportCall(c) ==
  /\ call[c].pc = "idle"
  /\ \E op \in Ops, id \in ClientIds \cup told \cup Listed :
       /\ Goto(c, [IdleCall EXCEPT !.pc = IF op = "heartbeat" THEN "beat" ELSE "find",
                                   !.op = op, !.id = id, !.at = now])
       /\ early' = early \cup ({id} \ (ClientIds \cup told))
  /\ UNCHANGED <<now, runs, minted, told, sweep, cutoff, chan, faults>>

Heartbeat(c) ==
  /\ call[c].pc = "beat"
  /\ LET id == call[c].id
     IN IF runs[id].status = "running"
          THEN /\ runs' = [runs EXCEPT ![id] = [runs[id] EXCEPT !.beat = call[c].at]]
               /\ Goto(c, [call[c] EXCEPT !.pc = "read"])
          ELSE /\ Goto(c, IdleCall)    \* 404
               /\ UNCHANGED runs
  /\ UNCHANGED <<now, minted, told, early, sweep, cutoff, chan, faults>>

(* The first of Finish's two statements: SELECT started_at.                *)
FinishFind(c) ==
  /\ call[c].pc = "find"
  /\ LET row == runs[call[c].id]
     IN Goto(c, IF row.status = "absent" THEN IdleCall          \* 404
                ELSE [call[c] EXCEPT !.pc = "finish", !.started = row.started])
  /\ UNCHANGED <<now, runs, minted, told, early, sweep, cutoff, chan, faults>>

(* Mutation: the row to publish is the one from before the UPDATE.         *)
FinishUpdateAfterRead(c) ==
  /\ call[c].pc = "finish" /\ runs[call[c].id].status # "absent"
  /\ LET r == call[c]
     IN /\ runs' = [runs EXCEPT
              ![r.id] = Settle(runs[r.id], r.op, r.at, Millis(r.at - r.started))]
        /\ Goto(c, [r EXCEPT !.pc = "publish", !.row = runs[r.id]])
  /\ UNCHANGED <<now, minted, told, early, sweep, cutoff, chan, faults>>

(* Its second statement does not ask for the status: a late report         *)
(* overwrites an earlier one, or a timeout.                                *)
FinishUpdate(c) ==
  /\ call[c].pc = "finish"
  /\ LET r == call[c]
     IN IF runs[r.id].status = "absent"
          THEN /\ Goto(c, IdleCall)    \* 404
               /\ UNCHANGED runs
          ELSE /\ runs' = [runs EXCEPT
                     ![r.id] = Settle(runs[r.id], r.op, r.at, Millis(r.at - r.started))]
               /\ Goto(c, [call[c] EXCEPT !.pc = "read"])
  /\ UNCHANGED <<now, minted, told, early, sweep, cutoff, chan, faults>>

(* publishLatest reads the row again: it publishes what the row is by now, *)
(* under the event type of the request.                                    *)
ReadLatest(c) ==
  /\ call[c].pc = "read"
  /\ LET row == runs[call[c].id]
     IN Goto(c, IF row.status = "absent" THEN IdleCall
                ELSE [call[c] EXCEPT !.pc = "publish", !.row = row])
  /\ UNCHANGED <<now, runs, minted, told, early, sweep, cutoff, chan, faults>>

PublishCall(c) ==
  /\ call[c].pc = "publish"
  /\ Publish(Event(EventType[call[c].op], call[c].id, call[c].row))
  /\ Goto(c, IF call[c].op = "start" THEN [call[c] EXCEPT !.pc = "respond"] ELSE IdleCall)
  /\ UNCHANGED <<now, runs, minted, told, early, sweep, cutoff, faults>>

-----------------------------------------------------------------------------
(* The TTL sweeper: one pass of SweepTimeouts and sweepOnce                *)

SweepStart ==
  /\ sweep.pc = "idle"
  /\ sweep' = [IdleSweep EXCEPT !.pc = "select", !.at = now]
  /\ UNCHANGED <<now, runs, minted, told, early, call, cutoff, chan, faults>>

(* The SELECT, with the comparison the loop makes on what it returned: a   *)
(* candidate is overdue by the reference time read here.                   *)
SweepSelect ==
  /\ sweep.pc = "select"
  /\ LET overdue == {id \in RunIds :
                       /\ runs[id].status = "running" /\ runs[id].ttl # Nil
                       /\ Expired(runs[id], sweep.at)}
     IN sweep' = [sweep EXCEPT !.pc = "mark",
                    !.cands = {[id |-> id, ref |-> runs[id].beat] : id \in overdue}]
  /\ UNCHANGED <<now, runs, minted, told, early, call, cutoff, chan, faults>>

(* The UPDATE of one candidate, in the order the SELECT listed them: it    *)
(* asks again for status "running", not for the heartbeat.                 *)
SweepMark ==
  /\ sweep.pc = "mark"
  /\ \E k \in sweep.cands :
       LET rest == [sweep EXCEPT !.cands = sweep.cands \ {k}]
       IN IF Marks(runs[k.id])
            THEN /\ runs' = [runs EXCEPT ![k.id] =
                       Settle(runs[k.id], "timeout", sweep.at, Millis(sweep.at - k.ref))]
                 /\ sweep' = [rest EXCEPT !.pc = "get", !.cur = k.id]
            ELSE /\ sweep' = rest
                 /\ UNCHANGED runs
  /\ UNCHANGED <<now, minted, told, early, call, cutoff, chan, faults>>

(* Get of the run just marked; ErrNotFound gives up the whole pass.        *)
SweepGet ==
  /\ sweep.pc = "get"
  /\ LET id == sweep.cur
     IN sweep' = IF runs[id].status = "absent" THEN IdleSweep
                 ELSE [sweep EXCEPT !.pc = "mark", !.cur = Nil,
                         !.done = Append(sweep.done, [id |-> id, row |-> runs[id]])]
  /\ UNCHANGED <<now, runs, minted, told, early, call, cutoff, chan, faults>>

(* All candidates treated: sweepOnce publishes what was marked, in order.  *)
SweepPublish ==
  /\ sweep.pc = "mark" /\ sweep.cands = {} /\ sweep.done # <<>>
  /\ LET marked == Head(sweep.done)
     IN Publish(Event("task.timeout", marked.id, marked.row))
  /\ sweep' = [sweep EXCEPT !.done = Tail(sweep.done)]
  /\ UNCHANGED <<now, runs, minted, told, early, call, cutoff, faults>>

SweepEnd ==
  /\ sweep.pc = "mark" /\ sweep.cands = {} /\ sweep.done = <<>>
  /\ sweep' = IdleSweep
  /\ UNCHANGED <<now, runs, minted, told, early, call, cutoff, chan, faults>>

-----------------------------------------------------------------------------
(* The retention cleaner, started by main only when retention is enabled   *)

CleanStart ==
  /\ Retain > 0 /\ cutoff = Nil
  /\ cutoff' = now - Retain
  /\ UNCHANGED <<now, runs, minted, told, early, call, sweep, chan, faults>>

DeleteOlderThan ==
  /\ cutoff # Nil
  /\ runs' = [id \in RunIds |-> IF Purgeable(runs[id], cutoff) THEN NoRow ELSE runs[id]]
  /\ cutoff' = Nil
  /\ UNCHANGED <<now, minted, told, early, call, sweep, chan, faults>>

-----------------------------------------------------------------------------
(* Consumers and failures                                                  *)

(* A subscriber (an SSE connection, the alert dispatcher) takes an event.  *)
Deliver(s) ==
  /\ chan[s] # <<>>
  /\ chan' = [chan EXCEPT ![s] = Tail(chan[s])]
  /\ UNCHANGED <<now, runs, minted, told, early, call, sweep, cutoff, faults>>

(* A statement fails: a handler answers 500 (publishLatest stays silent),  *)
(* the sweeper gives up its pass and what it marked, the cleaner its own.  *)
CallDbError(c) ==
  /\ faults < MaxFaults
  /\ call[c].pc \in {"create", "beat", "find", "finish", "read"}
  /\ Goto(c, IdleCall)
  /\ faults' = faults + 1
  /\ UNCHANGED <<now, runs, minted, told, early, sweep, cutoff, chan>>

SweepDbError ==
  /\ faults < MaxFaults
  /\ sweep.pc \in {"select", "get"} \/ (sweep.pc = "mark" /\ sweep.cands # {})
  /\ sweep' = IdleSweep
  /\ faults' = faults + 1
  /\ UNCHANGED <<now, runs, minted, told, early, call, cutoff, chan>>

CleanDbError ==
  /\ faults < MaxFaults
  /\ cutoff # Nil
  /\ cutoff' = Nil
  /\ faults' = faults + 1
  /\ UNCHANGED <<now, runs, minted, told, early, call, sweep, chan>>

(* The process dies and is started again: the table is all that is left.   *)
Crash ==
  /\ faults < MaxFaults
  /\ call' = [c \in Calls |-> IdleCall]
  /\ sweep' = IdleSweep
  /\ cutoff' = Nil
  /\ chan' = [s \in Subs |-> <<>>]
  /\ faults' = faults + 1
  /\ UNCHANGED <<now, runs, minted, told, early>>

-----------------------------------------------------------------------------
CallStep(c) ==
  \/ StartCall(c) \/ Create(c) \/ RespondStart(c)
  \/ ReportCall(c) \/ Heartbeat(c) \/ FinishFind(c) \/ FinishUpdate(c)
  \/ ReadLatest(c) \/ PublishCall(c) \/ CallDbError(c)

SweepStep == SweepStart \/ SweepSelect \/ SweepMark \/ SweepGet \/ SweepPublish \/ SweepEnd

Next ==
  \/ Tick
  \/ \E c \in Calls : CallStep(c)
  \/ SweepStep \/ SweepDbError
  \/ CleanStart \/ DeleteOlderThan \/ CleanDbError
  \/ \E s \in Subs : Deliver(s)
  \/ Crash

Spec == Init /\ [][Next]_vars

(* The sweeper is a goroutine with a ticker: it keeps running its passes.  *)
FairSpec == Spec /\ WF_vars(SweepStep)
-----------------------------------------------------------------------------
(* Properties                                                              *)

Statuses == {"absent", "running"} \cup Settled
NilOr(S) == S \cup {Nil}
Row == [status : Statuses, started : NilOr(Int), finished : NilOr(Int),
        beat : NilOr(Int), ttl : NilOr(Int), dur : NilOr(Int)]
Events == [type : {EventType[op] : op \in DOMAIN EventType} \cup {"task.timeout"},
           id : RunIds, row : Row]
CallRecs == [pc : {"idle", "create", "publish", "respond", "beat", "find", "finish", "read"},
             op : NilOr(Ops \cup {"start"}), id : NilOr(RunIds), at : NilOr(Int),
             ttl : NilOr(Int), started : NilOr(Int), row : Row]
SweepRecs == [pc : {"idle", "select", "mark", "get"}, at : NilOr(Int),
              cands : SUBSET [id : RunIds, ref : Int], cur : NilOr(RunIds),
              done : Seq([id : RunIds, row : Row])]

(* The type invariant.                                                     *)
TypeOK ==
  /\ now \in Time
  /\ runs \in [RunIds -> Row]
  /\ minted \in SUBSET (RunIds \ ClientIds)
  /\ told \in SUBSET minted /\ early \in SUBSET minted
  /\ call \in [Calls -> CallRecs]
  /\ sweep \in SweepRecs
  /\ cutoff \in NilOr(Int)
  /\ chan \in [Subs -> Seq(Events)] /\ \A s \in Subs : Len(chan[s]) <= Cap
  /\ faults \in 0..MaxFaults

(* A row has a finish time and a duration exactly when it is settled,      *)
(* whichever of Finish and SweepTimeouts came first, second or between the *)
(* two statements of the other: the cleaner keys on finished_at alone to   *)
(* leave running runs in peace.                                            *)
FinishedRowsAreStamped ==
  \A id \in RunIds :
    LET row == runs[id]
    IN IF row.status \in Settled THEN row.finished # Nil /\ row.dur # Nil
                                 ELSE row.finished = Nil /\ row.dur = Nil

(* Runs whose id never names a second row: retention is off, so the        *)
(* primary key still stands, or the server minted the id.                  *)
NeverReused(id) == Retain = 0 \/ id \notin ClientIds

Fits(ttl) == ttl < Word

(* The duration of a row belongs to the status beside it, whichever of     *)
(* several reports and passes wrote last: a report's is the time from the  *)
(* start of the run to that report, a pass's is never less than the TTL,   *)
(* unless the TTL overflows.  Both are cut to whole milliseconds, so a run *)
(* given up on just past its TTL shows the TTL itself.  (Where an id is    *)
(* used again Finish may measure from the start of the row that is gone.)  *)
DurationsAgree ==
  \A id \in RunIds :
    LET row == runs[id]
    IN NeverReused(id) =>
         /\ row.status \in {"success", "failed"} =>
               row.dur = Millis(row.finished - row.started)
         /\ row.status = "timeout" =>
               row.ttl # Nil /\ (Fits(row.ttl) => row.dur >= Millis(row.ttl))

(* On a run whose id the server minted no stamp precedes the start, however *)
(* late the statements run, and a timeout comes more than a TTL after the  *)
(* start, unless the TTL overflows.  (For an id of the client's choosing a *)
(* report captured before the start can be written after it.)              *)
ServerRunTimesOrdered ==
  \A id \in RunIds \ ClientIds :
    LET row == runs[id]
    IN /\ row.status # "absent" => row.started <= row.beat /\ row.beat <= now
       /\ row.status \in {"success", "failed"} =>
             row.started <= row.finished /\ row.finished <= now
       /\ row.status = "timeout" /\ Fits(row.ttl) => row.finished - row.started > row.ttl

(* An event that says a run ended carries a row that has ended: between    *)
(* the write and the read of publishLatest, or of SweepTimeouts' Get, the  *)
(* run can settle again but never be running.                              *)
TerminalEventsAreFinal ==
  \A s \in Subs : \A i \in DOMAIN chan[s] :
    LET evt == chan[s][i]
    IN NeverReused(evt.id) /\ evt.type \in {"task.succeeded", "task.failed", "task.timeout"}
         => evt.row.status \in Settled

(* A subscriber hears of the start of a server-minted run before it hears  *)
(* of any report on it, dropped events or not: Start publishes before it   *)
(* answers.  It may hear of a report first only if the reporter did not    *)
(* wait for the answer but read the id in GET /tasks.  (Timeouts may       *)
(* overtake the start as well: the row is there already.)                  *)
StartedComesFirst ==
  \A s \in Subs : \A i, j \in DOMAIN chan[s] :
    LET before == chan[s][i]
        after == chan[s][j]
    IN i < j /\ before.id = after.id /\ before.id \notin ClientIds \cup early
         /\ after.type = "task.started" => before.type = "task.timeout"

(* Retention removes a run only once it has been finished for longer than  *)
(* the window, however long the pass sat between its cutoff and its DELETE. *)
PurgedOnlyWhenOld ==
  [][\A id \in RunIds : runs[id].status # "absent" /\ runs'[id].status = "absent"
       => runs[id].finished # Nil /\ runs[id].finished + Retain < now]_vars

(* A run in touch is given up on in one way only: a heartbeat of it is     *)
(* written between the SELECT and the UPDATE of the pass.  Every other     *)
(* timeout follows a silence longer than the TTL, unless the TTL overflows. *)
SilentOrOvertaken ==
  [][\A id \in RunIds :
       NeverReused(id) /\ runs[id].status = "running" /\ runs'[id].status = "timeout"
       => \/ runs'[id].finished - runs[id].beat > runs[id].ttl
          \/ \E k \in sweep.cands : k.id = id /\ k.ref # runs[id].beat
          \/ ~Fits(runs[id].ttl)]_vars

(* Seen through the status column the table implements the life cycle: a   *)
(* stale sweep cannot time out a run that was reported, no late heartbeat  *)
(* or sweep revives one, and no running row is ever deleted.               *)
Lifecycle == INSTANCE RunLifecycle WITH status <- [id \in RunIds |-> runs[id].status]
ImplementsLifecycle == Lifecycle!Spec

(* No run stays overdue for ever: once it is silent past its TTL it is     *)
(* reported on, heard from or timed out, errors and crashes notwithstanding. *)
Overdue(id) == /\ runs[id].status = "running" /\ runs[id].ttl # Nil
               /\ now - runs[id].beat > runs[id].ttl
OverdueRunsSettle == \A id \in RunIds : []<>~Overdue(id)

-----------------------------------------------------------------------------
(* What comments and documents say and the code does not do                *)

(* SweepTimeouts: "marks any running task whose last heartbeat (...) is    *)
(* older than its declared TTL as timeout".                                *)
TimeoutOnlyIfSilent ==
  [][\A id \in RunIds : runs[id].status = "running" /\ runs'[id].status = "timeout"
       => runs'[id].finished - runs[id].beat > runs[id].ttl]_vars

(* README: task.timeout is the event of a run found timed out.  The runs a *)
(* pass has marked and read again stay due to be published until every     *)
(* subscriber with room has the event, whatever happens to the rest of the *)
(* pass.                                                                   *)
MarkedRunsAreAnnounced ==
  [][SweepStep \/ SweepDbError =>
       \A s \in Subs, i \in DOMAIN sweep.done :
         LET marked == sweep.done[i]
         IN \/ \E j \in DOMAIN sweep'.done : sweep'.done[j] = marked
            \/ Len(chan[s]) = Cap
            \/ chan'[s] = Append(chan[s], Event("task.timeout", marked.id, marked.row))]_vars
=============================================================================
