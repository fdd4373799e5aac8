# ChronosMonitor in TLA+

ChronosMonitor is a passive monitor for background jobs. Workers report `start`,
`heartbeat`, `success` and `failed` over HTTP; a Go server keeps the runs in SQL,
times out the silent ones, notices scheduled jobs that never started, streams
events to a Vue dashboard and posts alerts to a webhook. This directory models its
control: which statements each handler and background pass executes, in which
order, with which guards, and what happens when they interleave, fail halfway or
lose a message. TLC checks small instances; TLAPS proves every safety property of
the passing runs for all of them.

```
tlc -workers 2 -config TaskTable.cfg MCTaskTable.tla    # any run below
tlapm TaskRunsProofs.tla                                # the proofs
```

## 1. Inventory

| part (source) | state it keeps | operations | talks to |
|---|---|---|---|
| task run store and API (`internal/store/task_store.go`, `internal/handlers/task_handler.go`) | table `task_runs` | Start, Heartbeat, Success, Failed, List, Get | hub (publish), schedule store (Touch) |
| TTL sweeper (`internal/sweeper`) | one pass in flight | SELECT overdue, UPDATE and Get one by one, publish | table, hub |
| retention cleaner (`internal/retention`) | one cutoff in flight | DELETE of finished rows older than the window | table |
| schedule store and API (`internal/store/schedule_store.go`, `internal/handlers/schedule_handler.go`) | table `task_schedules` | Register (Upsert), Touch, List, Delete | - |
| missed-run detector (`internal/missedrun`) | one pass in flight | SELECT ok schedules, flip the overdue, Get, publish | table, hub |
| hub and SSE (`internal/broker`, `internal/handlers/stream_handler.go`) | mutex, map of buffered channels | Subscribe, Publish, unsubscribe, receive | browsers, dispatcher |
| alert dispatcher (`internal/notifier`) | window start and count | filter, rate limit, POST | hub, webhook |
| Laravel client (`clients/laravel/src`) | `$runId` of a job | `track`, `->chronos()` | API over HTTP |
| dashboard (`web/src/composables/useTasks.js`, `ApiKeyGate.vue`) | Map of runs, EventSource, key, gate | load, connect, submit key, upsert | `GET /tasks`, `/stream` |
| schedule board (`useSchedules.js`) | Map of schedules | refresh each 15 s, remove | `GET`/`DELETE /schedules` |
| API key (`internal/router`) | - | 401 or pass | in front of all |
| start-up and shutdown (`cmd/server/main.go`, `internal/config`) | settings, goroutines, context, connections | boot, listen, signal, Shutdown in 5 s, forced end | all |
| database layer, embedded UI, demo worker, Vue components | - | open and rebind, serve, simulate, lay out | - |

What is hard here:

* **Statements, not transactions.** No operation on a table is a transaction. `Finish`
  is a SELECT and an UPDATE; a sweep is a SELECT, then an UPDATE and a SELECT for each
  candidate; the times they compare were captured earlier still. Handlers, sweeper and
  cleaner interleave between any two statements.
* **The row as the message.** After a write, `publishLatest` reads the row again and
  publishes what it finds, so that event type and row, and the order of events, are
  not those of the writes.
* **Giving up halfway.** Passes return at the first error and drop what they had done;
  the process can die anywhere; nothing but the tables is persistent.
* **Dropping and blocking.** Publishing never blocks: a full channel misses the event.
  The dispatcher sends one POST of up to 5 s at a time.
* **Clients that stop waiting.** A request may be processed after its sender gave up,
  and the next one overtake it. The dashboard mixes a list and a stream that come over
  different connections, and its schedule board polls without waiting.
* **An end with work under way.** A signal stops the background goroutines between two
  passes, `Shutdown` waits for connections that no context cancels, and after 5 s the
  process ends in the middle of whatever it does.

What makes each part correct: a run goes from running to one outcome, is timed out only
when silent, is deleted only when old, its stamps fit together, and its events mean what
they say; a schedule is flagged when overdue, once per episode, and cleared by a start;
the hub never blocks, never panics and keeps order; the dispatcher respects its limit
and keeps going; a client never reports what did not happen and never gets in the way of
the work; the dashboard shows what is there, or there is a known reason why not, and its schedule
board catches up; the process has all its goroutines or none, and a signal ends it.

## 2. Modules

```
RunLifecycle      <--refines--  TaskRuns    <-- TaskRunsProofs <-- TaskRunsHistory
ScheduleLifecycle <--refines--  Schedules   <-- SchedulesProofs
Broadcast         <--refines--  Hub
Hub, Service      <--refines--  Server      <-- ServerProofs (Hub and Server)
RunLifecycle      <--refines--  LaravelClient <-- LaravelClientProofs
                                Dispatcher  <-- DispatcherProofs
                                Dashboard     <-- DashboardProofs
                                ScheduleBoard <-- ScheduleBoardProofs
MC<module>: the small instances of each for TLC
MCTaskTable, MCScheduleTable: several instances in one run (below)
```

**TaskRuns** is the core. `runs[id]` is the row of a run (`absent` when there is none),
`call[c]` the handler executing in a request slot, `sweep` and `clean` the two background
passes, `chan` the hub channels, `now` the clock. One action is one SQL statement, one
`Hub.Publish`, or one answer; a handler is the sequence of its actions, its `pc` the
next statement:

| code | actions |
|---|---|
| `TaskHandler.Start` | `StartCall` (time captured, id chosen or minted), `Create`, `PublishCall`, `RespondStart` |
| `TaskHandler.Success`, `Failed`, `TaskStore.Finish` | `ReportCall`, `FinishFind`, `FinishUpdate`, then `ReadLatest`, `PublishCall` |
| `TaskHandler.Heartbeat` | `ReportCall`, `Heartbeat`, then `ReadLatest`, `PublishCall` |
| `Sweeper.sweepOnce`, `SweepTimeouts` | `SweepStart`, `SweepSelect`, (`SweepMark`, `SweepGet`)*, `SweepPublish`*, `SweepEnd` |
| `Cleaner.cleanOnce` | `CleanStart`, `DeleteOlderThan` |
| SSE handler | `Deliver` |
| a statement fails | `CallDbError`, `SweepDbError`, `CleanDbError` |
| process dies, restarts | `Crash`: only the table survives |

Ids are split into those clients chose (`ClientIds`), which may name a second row once
the first is deleted, and those the server mints, which are used once. A reporter has a minted id
from the answer of Start (`told`) or from `GET /api/v1/tasks`, which lists the row from its INSERT on
(`Listed`); `early` notes the ids somebody reported on in the second way before Start had answered. `Publish` is one step here, because `Hub.mu` serialises
publications; the module `Hub` opens that step up. A TTL becomes a `time.Duration` in the
sweep, which wraps at `Word` (2^63 ns in the code, 4 in the runs): a TTL that does not fit is
negative there, so that the run is overdue at once. `duration_ms` is stored by `Duration.Milliseconds()`,
which truncates (`Millis`): a millisecond is `Milli` units of the clock (10^6 ns in the code, 2 units in the runs),
while the sweep compares at full resolution.

**RunLifecycle** is what the table promises, status only: `Begin`, `Report` (a report
overwrites whatever outcome is there: the code allows a second report, and a report after a
timeout), `Expire` only from running, `Forget` only a settled run. Two modules implement it:
`TaskRuns`, the server's side, and `LaravelClient`, whose jobs each have a run of their own.

**Schedules** models `task_schedules` in the same way (`RegisterCall`/`Upsert`,
`StartCall`/`Touch`, `Delete`, and the detector's `DetectStart` ... `DetectEnd`). A cron
expression is the period of its occurrences, 0 for one that never fires, where
`robfig/cron` returns the zero time; `Empty` and `Garbage` do not parse. Interval and grace period are multiplied with `time.Second` and added as int64
Durations, which wrap at `Word` (`Delay`, `Wrap`). `detect.deadline` keeps what the pass computed in its SELECT. **ScheduleLifecycle** is the promise: a registration
neither clears nor sets `missed`, only a start clears it, a flip owes one alert and an
alert is published only when owed.

**Hub** opens up `broker.Publish`: the mutex, one send per subscriber in any order, a
channel made before it is registered, `unsubscribe` that deletes and closes in one
critical section. **Broadcast** is what this buys a subscriber, without mutex, map or loop: events
have one order, each is offered to everybody open when it was published, before the next one and
before anybody enters or leaves; only a full buffer misses it. Under the mapping a publication happens
when its publisher has the mutex, `offered[s]` is behind for the channels in `todo`, and a
listener is open from its entry into the map to its deletion.

**Server** is one life of the process and composes everybody who uses the hub: request
handlers and the passes of sweeper and detector publish, streams and the dispatcher
listen, the cleaner only runs. Each of its actions is a step of `Hub` together with what
the process does, or leaves the hub alone.

| code | actions |
|---|---|
| `main`: settings, `db.Open`, the `go` statements | `Boot`, `BootFails` |
| `ListenAndServe` | `Listen`, `ListenFails`, `Accept` |
| `Sweeper.Run`, `Detector.Run`, `Cleaner.Run` | `Panic` (`time.NewTicker` of an interval <= 0), `RunStarts`, `PassStarts`, `PassPublishes`, `PassEnds`, `RunReturns` |
| `Dispatcher.Run` | `DispatcherStarts`, `DispatcherLeaves` |
| handlers | `RequestPublishes`, `RequestAnswered`; `StreamSubscribes`, `StreamLeaves`, `StreamCloses` |
| inside `Publish`, `Subscribe`, receive | `Locks`, `Sends`, `Listens` |
| signal and `srv.Shutdown` | `Signal`, `Shutdown`, `Poll`, `PollAgain`, `MainReturns`; `Deadline` is `log.Fatalf("forced shutdown")` |

Its settings are what `internal/config` makes of the environment: an interval that is unset
or no number falls back, any other is multiplied with `time.Second` in wrapping arithmetic
and never checked. What a pass does to the tables is in `TaskRuns` and `Schedules`; here it is a
number of publications. A life ends; the next begins with `ServerInit` again, and what the end
of a life does to the tables is `Crash` there. **Service** is the process as its clients see it:
starting, up, draining, then stopped or dead, and the connections it serves. `main` is mapped to the phase
(`Phase`), every goroutine, listener and signal is hidden.

**Dispatcher** has `allow` (window start and count; Go's zero time before the first
alert), the POST with its timeout, and the channel it consumes. Its limit is chosen
initially, 0 disabling it.

**LaravelClient** has `track` and the scheduled macro as the calls they make: a call is
sent, then answered, refused, or timed out, which throws. The server processes a request
whenever it arrives, in any order. A throw travels as in PHP: out of `start`, into the
`catch` of `track` when it comes from `success`, in place of `$e` when it comes from `failed`.

**Dashboard** follows one run by the version of its row. Writers change it, re-read it
and publish; the page loads the list, connects its EventSource, loses and reopens it,
shows the gate after a 401 and takes keys.

**ScheduleBoard** has `refresh` and `remove` with several calls of either in flight, each
taking the key of the moment it is made, the handlers `List` and `Delete` behind the API key,
and a table that others change. A row is its stamp, so that older and newer can be told
apart; `known` and `news` are history variables: what the page has heard last of a schedule,
and what it heard while a call was in flight. A request that is processed after its `fetch`
threw is a `Change` by somebody else.

Except for `Server` and `Hub` the modules share no state, and each abstracts its environment
to what the code of its neighbour allows: in `Dashboard` the writers are handlers of
`TaskRuns` reduced to write, re-read, publish; the events reaching `Dispatcher` are
arbitrary; `LaravelClient`'s server is the effect of `TaskRuns`' handlers on the status.

## 3. Runs

| run (module) | shows | bounds |
|---|---|---|
| `TaskTable` (`MCTaskTable`) | `ImplementsLifecycle`: the status life cycle holds for all interleavings, also when an id is used again; `PurgedOnlyWhenOld`, `FinishedRowsAreStamped`, `DurationsAgree`, `ServerRunTimesOrdered`; a timeout follows a silence, or the heartbeat fell between SELECT and UPDATE (`SilentOrOvertaken`); overdue runs settle (`OverdueRunsSettle`) | four sizes: 2 requests on 1 run, clock to 1; 1 request and an id used again after a window of 1, clock to 2; 2 runs, clock to 1; TTLs 0 and 6, which overflows, clock to 2; word 4, 2 units in a millisecond, 1 fault |
| `TaskEvents` (`MCTaskRuns`) | `TerminalEventsAreFinal`, `StartedComesFirst`, `TypeOK` | 1 server id, 2 requests, 1 subscriber, channel of 2, clock to 1, 1 fault, after which there is one request at a time |
| `ScheduleTable` (`MCScheduleTable`) | `ImplementsLifecycle`, `OverdueIsFlagged`, `MissedOnlyWhenDue`, `TypeOK` | four sizes: 2 names with interval 1, clock to 1; 2 names with a cron that never fires, clock to 1; 1 name with either of these, or interval 1 or cron period 2 with grace 1, clock to 3; 1 name, an interval of 5 that overflows the word of 4 or an interval 1 with grace 1, clock to 1; 1 fault |
| `ServerProcess` (`MCServer`) | `NeverSendsOnClosed`, `InPublicationOrder`, `GracefulIsDrained`, `NoGoroutineMissing`, `PublishReturns`, `ShutdownEnds`, `TypeOK`; the hub is a broadcast (`ImplementsBroadcast`), the process a service (`ImplementsService`) | 1 request, 1 stream, dispatcher, 1 publishing pass, cleaner, channel of 2, 3 events, 5 environments |
| `AlertDispatch` (`MCDispatcher`) | `RollingBound`, `WindowCountIsExact`, `SuppressedOnlyWhenFull`, `BacklogDrains`, `TypeOK` | limits 0 and 2, window 3, channel of 2, clock to 6 |
| `BoardPolling` (`MCScheduleBoard`) | `ShownIsKnown`, `OlderOnlyByOverlap`, `BoardCatchesUp` | 1 name, 2 refreshes and 1 removal in flight, 4 changes, 1 fault |
| `ClientReports` (`MCLaravelClient`) | `NoFalseSuccess`, `FalseFailureIsRaised`, `WorkExceptionSurfaces`, `JobsEnd`, `TypeOK`; the requests of a job respect the life cycle (`ImplementsLifecycle`) | 2 jobs, either mode |
| `DashboardView` (`MCDashboard`) | `StaleHasAReason`, `GateOrStream`, `TypeOK` | 2 writers, 3 versions, 3 loads, channel of 1, 1 fault |
| `LostHeartbeat` (`MCTaskRuns`) | violated: `TimeoutOnlyIfSilent` | 1 run, 1 request, clock to 2 |
| `UnannouncedTimeout` (`MCTaskRuns`) | violated: `MarkedRunsAreAnnounced` | 2 runs, 1 request, 1 subscriber, channel of 2, 1 fault |
| `StoredCron` (`MCSchedules`) | violated: `StoredCronParses` | 1 name, 1 request |
| `ClientOutage` (`MCLaravelClient`) | violated: `OutageNeverBreaksTheTask` | 2 jobs |

Why the bounds are enough. Every race on a table is between two parties and one row: a
request and a pass, or two requests with a pass. Two request slots and one id give all of
them; two ids are needed only where a pass treats several rows. No single instance with all
of this is small enough, so the runs on `MCTaskTable` and `MCScheduleTable` take several: their
`CONSTRAINT` is that at every step what is in use (request slots, ids, TTLs or modes, time)
fits into one of a few sizes. The cleaner takes part only in the sizes whose clock lets a row grow older than
the window. A step of a pass never leaves a size, so that the
constraint cuts off no behaviour by which a liveness property could fail within one. The clock needs to get past a TTL of 0 twice, so
that a run can be overdue and reported, or settled, be purged and begin again. One fault
splits a pass once, and the next pass is the retry. Channels are shorter than the 16 of the
code, so that they overflow. In `AlertDispatch` the clock runs over two windows and their
seam. In `ServerProcess` a stream and the dispatcher share the hub with a request and a
pass, which is what the mutex is there for, and the environments are one with alerts, one
with retention, an interval of 0, an interval that wraps, and one nothing of which can be
parsed (a second is 2 units there, and 8, the word, is four of them). In `BoardPolling` three calls overlap, so that
an answer can be overtaken by two others. That larger instances hold nothing new is
what the proofs are for.

`CHECK_DEADLOCK` is off in all runs because the clock and the counters stop at their
bounds, and a finished job, a quiet system or a process that has ended may stop.

Every property has a mutant: an operator beside the definition it changes, commented
`Mutation`, with which TLC finds the property violated.

### Fairness

* `TaskRuns!FairSpec`: weak fairness of `SweepStep`, the loop of a goroutine with a ticker.
  Requests owe nothing: a client may vanish between any two of them. Faults are
  bounded, so errors do not recur for ever; an error every time would of course keep
  every pass from finishing.
* `Schedules!FairSpec`: the same for the detector. `OverdueIsFlagged` has an escape:
  if schedules keep being deleted just after a pass has flipped them, every pass ends in
  `ErrNotFound` and another schedule may wait for ever.
* `Server!FairServerSpec`: the goroutine of `main` runs (`MainStep`); the timer of `shutdownCtx`
  fires however often the polls restart theirs (`Deadline`, strong, because it is
  enabled only between two polls); a goroutine inside `Publish` goes on (`Sends`), and gets
  the mutex if it is free again and again (`Locks`, strong: Go's mutex is starvation free).
  Browsers owe nothing: a stream may never receive and never leave.
* `Dispatcher!FairSpec`: the dispatcher's loop, including `NotifyReturns`, which the
  timeout of the `http.Client` guarantees.
* `ScheduleBoard!FairSpec`: the interval timer keeps calling `refresh`, and every request ends,
  because the server answers or `fetch` throws. `BoardCatchesUp` assumes no more of the
  key than that it is right from some time on.
* `LaravelClient!FairSpec`: every step of a job; `Http::timeout(5)` ends each call.

## 4. Proofs

For all constants that satisfy the named assumptions of the modules:

| module | theorems | inductive invariant |
|---|---|---|
| `TaskRunsProofs` | `TypeCorrect`, `RowsStamped`, `LifecycleImplemented`, `PurgeOnlyOld` | `IInv` |
| `TaskRunsHistory` | `DurationsMatch`, `ServerRunsInTime`, `EndsAreFinal`, `StartHeardFirst`, `TimeoutsAreEarned`, `OverflowingTTLExpires` | `IInv` and `Hist` |
| `SchedulesProofs` | `TypeCorrect`, `LifecycleImplemented`, `MissesWereDue`, `OverflowingIntervalIsOverdue` | `IInv`: `TableInv`, `CallInv`, `DetectInv` |
| `ServerProofs` | of the hub: `TypeCorrect`, `NoSendOnClosed`, `OrderKept`, `BroadcastImplemented`; of the process: `ProcessImplementsHub`, `ServerTypeCorrect`, `GracefulEnd`, `AllGoroutinesLive`, `ServerNeverSendsOnClosed`, `ServerKeepsOrder`, `ServerBroadcasts`, `ServiceImplemented`, `OverflowMakesNoPass` | `IInv`: `LockInv`, `SubsInv`, `ChanInv`; `FreshInv`; `SInv`; `TickerInv` |
| `DispatcherProofs` | `TypeCorrect`, `RateIsBounded`, `CountIsExact`, `NoNeedlessSuppression` | `Typed`, `Limited` |
| `DashboardProofs` | `TypeCorrect`, `StaleOnlyForAReason`, `GateOrStreamAlways` | `NewsInv`, `GateInv` and types |
| `ScheduleBoardProofs` | `TypeCorrect`, `ShownWasHeard`, `OlderOnlyThen` | `StampInv`, `RefreshInv`, `RemoveInv` |
| `LaravelClientProofs` | `TypeCorrect`, `SuccessIsTrue`, `FailureIsShared`, `ExceptionSurvives`, `LifecycleImplemented` | `WorkInv`, `SaidInv`, `WireInv`, `RaisedInv`; `OrderInv` |

*Task runs.* `IInv` says of a row that it is no row, or running without finish time and
duration, or settled with both (`RowOK`); of a handler that it knows its run and a
captured time, and at which step it can be for which request (`CallOK`); of a pass the
same (`SweepOK`); and of the cleaner that its cutoff lies a window in the past
(`RestInv`). Rows alone are not inductive: that `FinishUpdate` stores a number in `duration_ms`
depends on what `FinishFind` put into the handler, and that the DELETE takes only old
rows depends on the age of the cutoff. The refinement is proved action by action: every
step of the table is a step of `RunLifecycle` because of what the UPDATE asks of the row
at that moment; what was read before is not trusted, which is why it goes through.

*Their history.* Here what was read before is trusted, and `Hist` says why it may be. A
handler, a pass and an event carry copies: the start time `Finish` has read, the reference time
of a candidate, the row of a publication. They stay good because a row keeps its start
and TTL as long as it is there and an id that is never used again has one row
(`ReportOK`, `CandOK`). A server-minted id is known to nobody before its INSERT (`StartOK`), so that a
report finds the row and its time is not before the start. Whoever uses it has been answered or has made it one of
`early`; for an id outside of `early`, the event of a report therefore comes after the start's (`EventOK`, `StartFirst`).
`DurationsMatch` says that the truncated duration of a timed out run is no less than its truncated TTL: it
may be equal, since truncation is only monotone (`MillisMonotone`). The proof first reduces the actions to
what they do to a row, to a handler, to the pass and to a channel (`RowsEvolve`, `CallsEvolve`,
`SweepAlwaysEvolves`, `ChannelsEvolve`), and then shows each part of `Hist` kept under these.
`TimeoutsAreEarned` is the exact form of the promise which `LostHeartbeat` finds broken: by `CandOK`
the marking pass had found its candidate silent for more than a TTL, measured from the reference it
had read; if that is still the row's reference, the timeout was right. It excludes ids that are used again,
where the second row can be marked for the silence of the first, and TTLs that do not fit a
`Duration`; of these `OverflowingTTLExpires` says that every pass takes a young run for overdue.

*Schedules.* An alert is owed exactly for a schedule that a pass has flipped and not published, of
which it keeps a list (`Debts`): hence no second announcement of an episode. That a
candidate was due is remembered by the deadline the pass computed (`Passed`): at the
UPDATE either the row still has that deadline, and then its interval or an occurrence of its cron
has passed, or somebody wrote the row in between, or the interval and grace period do not fit a `Duration`.
Of these last, `OverflowingIntervalIsOverdue` says that from one word to two the sum is negative and every pass
takes the schedule for overdue.

*Hub.* The key fact is that `todo`, the channels still to be tried, is empty unless the
mutex is held, and always within the registered, hence open, channels; `unsubscribe`
needs the free mutex. For the order, a channel still to be tried holds only events
older than the one being sent. `BroadcastImplemented` rests on the same two: the channels in `todo`
are those which have not been offered the event under way, so a free mutex means that everybody is up
to date, which is what `Broadcast` asks before anybody publishes, enters or leaves. The one further
fact is that a channel made and not yet registered is empty (`FreshInv`).

*Process.* Every step of `Server` is a step of `Hub` or leaves it alone, so what is proved of the hub
holds in the process, its shutdown included. A slot without a connection is outside of the hub
(`ConnInv`), and after a poll that found no connection there is none again, as the listener is
closed before the first poll (`MainInv`); with the hub's `SubsInv` this gives `GracefulEnd`. The same invariant proves `ServiceImplemented`: the
listener is open only while `main` serves, and a return from `main` finds no connection.
`OverflowMakesNoPass` is arithmetic: between one word and two the product of the interval is
negative, and a goroutine whose interval is not positive never reaches its `select` (`TickerInv`).

*Dispatcher.* For the last `windowCount` alerts sent, and no others, the time is at or after
`windowStart` (`Windows`), and the first alert of a window is at `windowStart` itself. So an
alert and the `2 limit - 1`th after it have a window seam of full length between them.
No induction over the list of alerts is needed: each step appends one.

*Dashboard.* The news of the last change is shown, or a reason has been noted, or it is in the
channel, or with a writer that has not published yet (`NewsInv`); at rest the last two are
impossible. With one load at a time, a load carries the page's key and has been answered what
this key deserves (`GateOK`).

*Schedule board.* A list under way is at least as new as what the page knows, but for the schedules it
heard of since that list was asked for (`RefreshInv`); an answer to `remove` likewise.

*Laravel client.* Whatever a job is about to report, has on the wire, or finds stored, is
what may be said of it (`SaidInv`, `WireInv`), and nothing can have been said before the work has
ended (`WorkInv`). Until `track` is done, what it will throw is what its closure threw (`RaisedInv`): `success` is
called only where the closure threw nothing, so that a call that throws after a failed closure can only be the
report of the failure, the last. For the life cycle the order is what matters: the network may delay and
overtake as it likes, yet a report carries a run id, the id comes with the answer to `start`, and an
answer comes after the INSERT; a job whose `start` timed out has no id and reports nothing
(`OrderInv`). So no report meets a run that is not there, and no second `start` one that is.

Model-checked only: everything under fairness (`OverdueRunsSettle`, `OverdueIsFlagged`,
`PublishReturns`, `ShutdownEnds`, `BacklogDrains`, `BoardCatchesUp`, `JobsEnd`), as
liveness is beyond the prover. Every invariant and action property of the passing runs is proved.

## 5. Where code and words differ

Four runs exhibit these (details in `PROJECT.json`):

1. `LostHeartbeat`: a heartbeat stored between the sweep's SELECT and UPDATE does not save the run.
   `SilentOrOvertaken` shows this race to be the only way for a run in touch to be timed out,
   reused ids and overflowing TTLs apart.
2. `UnannouncedTimeout`: an error on one run of a pass loses the events of the runs it has already marked and
   read again. The property asks that these stay due until published, so that a pass which publishes what it
   got before it returns, or keeps it for the next, satisfies it.
3. `StoredCron`: `cron_expression: ""` beside an interval is stored and disables the schedule.
4. `ClientOutage`: an unreachable server makes `start` throw, so that the work does not run.
   The same missing `catch` loses the exception of a closure: where the report of the failure throws
   (`ChronosClient.php:92`), its exception takes the place of `$e`, although the package's README promises
   to throw the original one again (`clients/laravel/README.md:68`). `WorkExceptionSurfaces` shows that
   this is the only way to lose it; the promise itself, as the package makes it, is not kept.

Met while modelling and not kept as runs:

* An event can carry the row of another transition: `task.succeeded` with a `failed` row, when
  a second report came before the re-read (`task_handler.go:136`; `TerminalEventsAreFinal` is what remains true).
* `DetectMissed` flips a schedule that was touched after its SELECT (`schedule_store.go:165`);
  `MissedOnlyWhenDue` has this as an exception.
* The comment of `DetectMissed` (`schedule_store.go:96-99`) counts a schedule as overdue after
  its interval plus grace; their sum is an int64 Duration, which wraps for numbers above about 9.2e9 seconds that
  `Register` accepts, and the schedule is flagged at once (`schedule_store.go:149`). `MissedOnlyWhenDue` has this as its other exception.
* `duration_ms` is cut to milliseconds (`task_store.go:48,110`): a run that is given up on just past its
  TTL shows the TTL itself, though the comparison was a strict one.
* Where an id is used again, `Finish` may compute the duration of the second row from the start of
  the first, which it has read before (`task_store.go:39-51`).
* A run can be reported by somebody who read its id in `GET /tasks`, which lists it before Start has published
  (`task_handler.go:48-54`): then `task.succeeded` can be heard before `task.started`.
* A cron that never fires (30 February) makes `Next` return the zero time, so that the schedule is
  overdue at once and again after each start (`schedule_store.go:147`).
* Deleting one schedule during a pass loses the alert of another one already flipped (`schedule_store.go:175`).
* The limit "per rolling minute" (`config.go:27`) is a fixed window: up to 2 Limit - 1 in
  a minute. `RollingBound` checks that bound, which is exact.
* "A POST is sent for every task.failed / task.timeout event" (`config.go:20`) does not
  hold while a POST is under way and the channel is full.
* The README says that webhooks are for failures and timeouts only (`README.md:258`: `只有 task.failed 和
  task.timeout`); the dispatcher alerts on `schedule.missed` too, as `README.md:219` says.
* With two keys submitted at once, a late 401 shows the gate to the holder of the right
  key; after a `fetch` that throws the page has neither gate nor stream. Both are the
  hypotheses of `GateOrStream`.
* As long as a browser stays connected, a shutdown is a forced one: nothing cancels the
  context of an SSE request, so `Shutdown` runs into its 5 s (`main.go:86`). `Deadline` is then the only way out.
* On a signal the dispatcher leaves with its channel unread, while handlers may still publish.

## 6. Not modelled

* Payload texts, the truncation of error messages, the layout of the page: no property is
  about wording. Views computed from the Maps of the page (sorting, statistics).
* The routing table, static files and the embedded UI: plain I/O without state.
* Settings that are strings handed to libraries (addresses, paths, keys), `rebind` and the
  migration statements of `db.go`, which run before anything else does.
* A retention window that overflows (more than about 106751 days, `retention.go:24`): `Retain` is
  a natural number in `TaskRuns`.
* The 200 row limit of `List`, and rows the page keeps after retention deleted them: `Dashboard`
  follows one run.
* The demo worker: what it sends are requests any client of `TaskRuns` may make.

Database statements are atomic, as one SQLite connection or the row locks of Postgres make
them. Time is one clock that never runs backwards; `time.Now` of Go is a wall clock, and a
clock set back is not considered. A connection is accepted in one step, so the moment
between `accept` and its entry into the server's list is not opened up: that is `net/http`'s.

What could be added: the alert pipeline as one chain from an UPDATE to a POST, refining
an abstract "posted, suppressed or dropped, once" (today `TaskRuns`, `Server` and
`Dispatcher` each have their part of it), and a second tab of the dashboard.
