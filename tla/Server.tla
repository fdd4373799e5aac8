------------------------------- MODULE Server -------------------------------
(***************************************************************************)
(* One life of the server process, cmd/server/main.go: the settings it is  *)
(* started with (internal/config), the goroutines it runs, the connections *)
(* it serves, and how a signal ends it, composed with the hub through      *)
(* which all of them publish and listen.                                   *)
(*                                                                         *)
(* Every step of the process either is a step of Hub or leaves the hub     *)
(* alone; a process that has ended takes no step.  Nothing here outlives   *)
(* it: the next life begins with Init again.                               *)
(***************************************************************************)
EXTENDS Hub

CONSTANTS
  Requests,     \* publishers: slots for API requests being served
  Passes,       \* publishers: the goroutines of sweeper and detector
  Cleaner,      \* the goroutine of the retention cleaner
  Streams,      \* listeners: slots for SSE connections
  Dispatcher,   \* listener: the goroutine of the alert dispatcher
  Environments, \* the settings a process may be started with
  Fallback,     \* Fallback[w]: the interval of w when none is set, in seconds
  Second,       \* time.Second
  Word          \* a Duration lies in -Word .. Word - 1 (2^63 in the code)

Tickers == Passes \cup {Cleaner}
Background == Tickers \cup {Dispatcher}

ASSUME PartsAssumption ==
  /\ Publishers = Requests \cup Passes /\ Requests \cap Passes = {}
  /\ Listeners = Streams \cup {Dispatcher} /\ Dispatcher \notin Streams
  /\ Cleaner \notin Actors

ASSUME SettingsAssumption ==
  /\ Second \in Nat \ {0} /\ Word \in Nat
  /\ \A w \in Tickers : Fallback[w] \in Nat \ {0} /\ Fallback[w] * Second < Word

VARIABLES
  env,        \* the environment variables
  main,       \* where main() is, "stopped" after it returned, "dead" otherwise
  cancelled,  \* ctx is done: SIGINT or SIGTERM has arrived
  listener,   \* "new", "open" or "closed"
  loop,       \* loop[w]: where the Run of background goroutine w is
  conn        \* conn[x]: what the connection in slot x is up to

process == <<env, main, cancelled, listener, loop, conn>>
serverVars == <<mu, subs, chan, closed, pc, todo, count, last,
                env, main, cancelled, listener, loop, conn>>

Clients == Requests \cup Streams

-----------------------------------------------------------------------------
(* Settings                                                                *)

(* Unset, or not a number: the fallback.  No range is asked of a number.   *)
getEnvInt(value, fallback) == IF value \in Int THEN value ELSE fallback

(* int64 arithmetic.                                                       *)
Wrap(n) == ((n + Word) % (2 * Word)) - Word

Interval(w) == Wrap(getEnvInt(env.seconds[w], Fallback[w]) * Second)

(* What main starts: alerting and retention have to be switched on.        *)
Started(w) ==
  /\ w = Cleaner => getEnvInt(env.days, 0) > 0
  /\ w = Dispatcher => env.webhook

ServerInit ==
  /\ Init
  /\ env \in Environments
  /\ main = "boot" /\ cancelled = FALSE /\ listener = "new"
  /\ loop = [w \in Background |-> "off"]
  /\ conn = [x \in Clients |-> "none"]

Alive == main \notin {"stopped", "dead"}

-----------------------------------------------------------------------------
(* Start up                                                                *)

(* db.Open, the routes, and a go statement for each background goroutine.  *)
Boot ==
  /\ main = "boot"
  /\ main' = "serve"
  /\ loop' = [w \in Background |-> IF Started(w) THEN "start" ELSE "off"]
  /\ UNCHANGED <<vars, env, cancelled, listener, conn>>

(* The database cannot be opened, or a signal comes before NotifyContext.  *)
BootFails ==
  /\ main = "boot"
  /\ main' = "dead"
  /\ UNCHANGED <<vars, env, cancelled, listener, loop, conn>>

(* The goroutine of ListenAndServe.  After Shutdown it returns at once;    *)
(* any other error is fatal.                                               *)
Listen ==
  /\ Alive /\ main # "boot" /\ listener = "new"
  /\ listener' = "open"
  /\ UNCHANGED <<vars, env, main, cancelled, loop, conn>>

ListenFails ==
  /\ Alive /\ main # "boot" /\ listener = "new"
  /\ main' = "dead"
  /\ UNCHANGED <<vars, env, cancelled, listener, loop, conn>>

-----------------------------------------------------------------------------
(* The background goroutines                                               *)

GoTo(w, to) == loop' = [loop EXCEPT ![w] = to]

(* Mutation: a panic takes only its goroutine with it.                     *)
PanicRecovered(w) ==
  /\ Alive /\ loop[w] = "start" /\ Interval(w) <= 0
  /\ GoTo(w, "ended")
  /\ UNCHANGED <<vars, env, main, cancelled, listener, conn>>

(* time.NewTicker panics for an interval that is not positive, and nothing *)
(* recovers a panic of these goroutines.                                   *)
Panic(w) ==
  /\ Alive /\ loop[w] = "start" /\ Interval(w) <= 0
  /\ main' = "dead"
  /\ UNCHANGED <<vars, env, cancelled, listener, loop, conn>>

(* The cleaner does not wait for its first tick.                           *)
RunStarts(w) ==
  /\ Alive /\ loop[w] = "start" /\ Interval(w) > 0
  /\ GoTo(w, IF w = Cleaner THEN "pass" ELSE "select")
  /\ UNCHANGED <<vars, env, main, cancelled, listener, conn>>

(* The select of Run; with both cases ready it may take either.            *)
PassStarts(w) ==
  /\ Alive /\ loop[w] = "select"
  /\ GoTo(w, "pass")
  /\ UNCHANGED <<vars, env, main, cancelled, listener, conn>>

PassPublishes(w) ==
  /\ Alive /\ loop[w] = "pass"
  /\ PublishCall(w)
  /\ UNCHANGED process

PassEnds(w) ==
  /\ Alive /\ loop[w] = "pass"
  /\ w \in Publishers => pc[w] = "idle"
  /\ GoTo(w, "select")
  /\ UNCHANGED <<vars, env, main, cancelled, listener, conn>>

(* ctx is looked at between two passes, never inside one.                  *)
RunReturns(w) ==
  /\ Alive /\ loop[w] = "select" /\ cancelled
  /\ GoTo(w, "ended")
  /\ UNCHANGED <<vars, env, main, cancelled, listener, conn>>

(* The dispatcher subscribes when its goroutine gets to run, and leaves on *)
(* ctx, whatever its channel still holds.                                  *)
DispatcherStarts ==
  /\ Alive /\ loop[Dispatcher] = "start"
  /\ SubscribeMake(Dispatcher)
  /\ GoTo(Dispatcher, "select")
  /\ UNCHANGED <<env, main, cancelled, listener, conn>>

DispatcherLeaves ==
  /\ Alive /\ cancelled
  /\ Leave(Dispatcher)
  /\ GoTo(Dispatcher, "ended")
  /\ UNCHANGED <<env, main, cancelled, listener, conn>>

-----------------------------------------------------------------------------
(* The connections                                                         *)

Becomes(x, to) == conn' = [conn EXCEPT ![x] = to]

Accept(x) ==
  /\ Alive /\ listener = "open" /\ conn[x] = "none"
  /\ Becomes(x, "handling")
  /\ UNCHANGED <<vars, env, main, cancelled, listener, loop>>

(* A handler publishes once at most, then answers.                         *)
RequestPublishes(r) ==
  /\ Alive /\ conn[r] = "handling"
  /\ PublishCall(r)
  /\ Becomes(r, "ending")
  /\ UNCHANGED <<env, main, cancelled, listener, loop>>

RequestAnswered(r) ==
  /\ Alive /\ conn[r] # "none" /\ pc[r] = "idle"
  /\ Becomes(r, "none")
  /\ UNCHANGED <<vars, env, main, cancelled, listener, loop>>

StreamSubscribes(l) ==
  /\ Alive /\ conn[l] = "handling"
  /\ SubscribeMake(l)
  /\ Becomes(l, "ending")
  /\ UNCHANGED <<env, main, cancelled, listener, loop>>

(* The browser goes away.  Shutdown cancels no context of a request.       *)
StreamLeaves(l) ==
  /\ Alive
  /\ Leave(l)
  /\ UNCHANGED process

StreamCloses(l) ==
  /\ Alive /\ conn[l] = "ending" /\ pc[l] = "gone"
  /\ Becomes(l, "none")
  /\ UNCHANGED <<vars, env, main, cancelled, listener, loop>>

(* What goroutines do inside Publish, Subscribe and receive.               *)
Locks(p) == Alive /\ PublishLock(p) /\ UNCHANGED process

Sends ==
  /\ Alive
  /\ \E p \in Publishers : Send(p) \/ PublishUnlock(p)
  /\ UNCHANGED process

Listens(l) ==
  /\ Alive
  /\ SubscribeRegister(l) \/ Receive(l) \/ Unsubscribe(l)
  /\ UNCHANGED process

-----------------------------------------------------------------------------
(* Shutdown                                                                *)

Signal ==
  /\ Alive /\ main # "boot" /\ ~cancelled
  /\ cancelled' = TRUE
  /\ UNCHANGED <<vars, env, main, listener, loop, conn>>

(* Mutation: the listener is left open while the connections are polled.   *)
ShutdownListens ==
  /\ main = "serve" /\ cancelled
  /\ main' = "poll"
  /\ UNCHANGED <<vars, env, cancelled, listener, loop, conn>>

(* srv.Shutdown closes the listener and then polls the connections.        *)
Shutdown ==
  /\ main = "serve" /\ cancelled
  /\ main' = "poll" /\ listener' = "closed"
  /\ UNCHANGED <<vars, env, cancelled, loop, conn>>

(* Mutation: connections of streams do not count.                          *)
PollRequests ==
  /\ main = "poll"
  /\ main' = IF \A x \in Requests : conn[x] = "none" THEN "closing" ELSE "wait"
  /\ UNCHANGED <<vars, env, cancelled, listener, loop, conn>>

Poll ==
  /\ main = "poll"
  /\ main' = IF \A x \in Clients : conn[x] = "none" THEN "closing" ELSE "wait"
  /\ UNCHANGED <<vars, env, cancelled, listener, loop, conn>>

PollAgain ==
  /\ main = "wait"
  /\ main' = "poll"
  /\ UNCHANGED <<vars, env, cancelled, listener, loop, conn>>

(* Mutation: a Shutdown without a deadline.                                *)
NoDeadline == FALSE

(* The 5 s are over: "forced shutdown", with no deferred call.             *)
Deadline ==
  /\ main = "wait"
  /\ main' = "dead"
  /\ UNCHANGED <<vars, env, cancelled, listener, loop, conn>>

(* conn.Close and the end of main; no goroutine is waited for.             *)
MainReturns ==
  /\ main = "closing"
  /\ main' = "stopped"
  /\ UNCHANGED <<vars, env, cancelled, listener, loop, conn>>

MainStep == Shutdown \/ Poll \/ PollAgain \/ MainReturns

-----------------------------------------------------------------------------
TickerStep(w) ==
  \/ Panic(w) \/ RunStarts(w) \/ PassStarts(w) \/ PassEnds(w) \/ RunReturns(w)

RequestStep(r) == Accept(r) \/ RequestPublishes(r) \/ RequestAnswered(r)
StreamStep(l) == Accept(l) \/ StreamSubscribes(l) \/ StreamLeaves(l) \/ StreamCloses(l)

ServerNext ==
  \/ Boot \/ BootFails \/ Listen \/ ListenFails
  \/ \E w \in Tickers : TickerStep(w)
  \/ \E w \in Passes : PassPublishes(w)
  \/ DispatcherStarts \/ DispatcherLeaves
  \/ \E r \in Requests : RequestStep(r)
  \/ \E l \in Streams : StreamStep(l)
  \/ (\E p \in Publishers : Locks(p)) \/ Sends \/ (\E l \in Listeners : Listens(l))
  \/ Signal \/ MainStep \/ Deadline

ServerSpec == ServerInit /\ [][ServerNext]_serverVars

(* main's goroutine runs, and the timer of shutdownCtx fires however often *)
(* the polls reset the other one.  A goroutine inside Publish keeps        *)
(* running and sync.Mutex is starvation free; a browser owes nobody        *)
(* anything, it may never receive and never leave.                         *)
FairServerSpec ==
  /\ ServerSpec
  /\ WF_serverVars(MainStep) /\ SF_serverVars(Deadline)
  /\ WF_serverVars(Sends) /\ \A p \in Publishers : SF_serverVars(Locks(p))

-----------------------------------------------------------------------------
(* Properties                                                              *)

(* The type invariant of the process; that of the hub is TypeOK.           *)
ServerTypeOK ==
  /\ env \in Environments
  /\ main \in {"boot", "serve", "poll", "wait", "closing", "stopped", "dead"}
  /\ cancelled \in BOOLEAN
  /\ listener \in {"new", "open", "closed"}
  /\ loop \in [Background -> {"off", "start", "select", "pass", "ended"}]
  /\ conn \in [Clients -> {"none", "handling", "ending"}]

(* A shutdown that does not say "forced" has cut nobody off: no request is *)
(* unanswered, none is inside Publish, no stream is subscribed; what still *)
(* runs is the background, whose passes nobody waits for.                  *)
GracefulIsDrained ==
  main \in {"closing", "stopped"} =>
    /\ \A x \in Clients : conn[x] = "none"
    /\ \A r \in Requests : pc[r] = "idle" /\ mu # r
    /\ subs \subseteq {Dispatcher}

(* There is no half of a server: unless it is being shut down, a process   *)
(* that lives has every goroutine it was configured to have.  A setting    *)
(* one of them cannot work with ends them all.                             *)
NoGoroutineMissing ==
  Alive /\ main # "boot" /\ ~cancelled =>
    \A w \in Background : Started(w) => loop[w] \notin {"off", "ended"}

(* Seen from its clients the process implements Service: none is taken in  *)
(* once it drains, however late ListenAndServe gets to run, and a process  *)
(* that stops without dying serves nobody.                                 *)
Phase == CASE main = "boot" -> "starting"
           [] main = "serve" -> "up"
           [] main \in {"poll", "wait", "closing"} -> "draining"
           [] OTHER -> main

Seen == INSTANCE Service WITH
  Peers <- Clients, phase <- Phase, serving <- {x \in Clients : conn[x] # "none"}

ImplementsService == Seen!Spec

(* A signal ends the process, whatever clients hold on to, wherever passes *)
(* and publications are.                                                   *)
ShutdownEnds == cancelled ~> ~Alive

(* Publish returns whether or not anybody receives, as long as the process *)
(* lives and the model's supply of events lasts: slow subscribers never    *)
(* block the caller.                                                       *)
PublishReturns ==
  \A p \in Publishers : pc[p] = "lock" /\ count < MaxEvents
      ~> \/ pc[p] = "idle" \/ (pc[p] = "lock" /\ count = MaxEvents)
         \/ ~Alive
=============================================================================
