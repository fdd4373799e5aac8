----------------------------- MODULE Dispatcher -----------------------------
(***************************************************************************)
(* The alert dispatcher of internal/notifier: one goroutine that takes     *)
(* events off its hub channel, drops those that are no alert or exceed the *)
(* rate limit, and POSTs the rest to the webhook, during which the channel *)
(* fills up behind it.                                                     *)
(***************************************************************************)
EXTENDS Integers, Sequences

CONSTANTS
  EventTypes,   \* the types of the events published
  Limits,       \* the rate limits a configuration may set; 0 or less for none
  Window,       \* length of a window (a minute)
  Cap,          \* buffer of the hub channel (16 in the code)
  MaxTime,      \* bound: the clock stops here
  MaxPerTick,   \* bound: events published between two ticks
  Nil

AlertTypes == {"task.failed", "task.timeout", "schedule.missed"}

ASSUME ConstantsAssumption ==
  /\ Limits \subseteq Int /\ Window \in Nat \ {0} /\ Cap \in Nat \ {0}
  /\ MaxTime \in Nat /\ MaxPerTick \in Nat /\ Nil \notin EventTypes

VARIABLES
  limit,        \* d.limit, set once at start up
  now,          \* the clock
  fresh,        \* events published since the last tick
  queue,        \* the dispatcher's hub channel
  posting,      \* the alert being POSTed, or Nil
  windowStart,  \* d.windowStart
  windowCount,  \* d.windowCount
  sent          \* history: when each alert was let through, in order

vars == <<limit, now, fresh, queue, posting, windowStart, windowCount, sent>>

Time == 0..MaxTime

(* The zero time.Time, further back than any window.                       *)
ZeroTime == -Window

Init ==
  /\ limit \in Limits
  /\ now = 0 /\ fresh = 0
  /\ queue = <<>> /\ posting = Nil
  /\ windowStart = ZeroTime /\ windowCount = 0
  /\ sent = <<>>

Tick ==
  /\ now < MaxTime
  /\ now' = now + 1 /\ fresh' = 0
  /\ UNCHANGED <<limit, queue, posting, windowStart, windowCount, sent>>

(* Mutation: off by one, a full channel takes one more.                    *)
PublishPastCap ==
  /\ fresh < MaxPerTick
  /\ fresh' = fresh + 1
  /\ Len(queue) <= Cap
  /\ \E type \in EventTypes : queue' = Append(queue, type)
  /\ UNCHANGED <<limit, now, posting, windowStart, windowCount, sent>>

(* Hub.Publish, as far as this subscriber is concerned.                    *)
Publish ==
  /\ fresh < MaxPerTick
  /\ fresh' = fresh + 1
  /\ \E type \in EventTypes :
       IF Len(queue) < Cap
         THEN queue' = Append(queue, type)
         ELSE UNCHANGED queue    \* dropped, alert or not
  /\ UNCHANGED <<limit, now, posting, windowStart, windowCount, sent>>

-----------------------------------------------------------------------------
(* handle and allow                                                        *)

(* Mutation: the window is restarted one instant early.                    *)
ExpiredEarly(start) == now - start >= Window - 1

(* Mutation: > for >=, the window lasts one instant longer.                *)
ExpiredLate(start) == now - start > Window

(* now.Sub(d.windowStart) >= d.window                                      *)
WindowExpired(start) == now - start >= Window

(* Mutations of allow's last test: one alert too many.                     *)
UnderLimitLoose(n) == n <= limit

UnderLimit(n) == n < limit

CountNow == IF WindowExpired(windowStart) THEN 0 ELSE windowCount

Forward(type) ==
  /\ posting' = type
  /\ sent' = Append(sent, now)

(* An event of another type is ignored.                                    *)
Ignore ==
  /\ posting = Nil /\ queue # <<>> /\ Head(queue) \notin AlertTypes
  /\ queue' = Tail(queue)
  /\ UNCHANGED <<limit, now, fresh, posting, windowStart, windowCount, sent>>

(* A limit <= 0 disables the limit, and leaves the window alone.             *)
AllowUnlimited ==
  /\ limit <= 0
  /\ posting = Nil /\ queue # <<>> /\ Head(queue) \in AlertTypes
  /\ queue' = Tail(queue)
  /\ Forward(Head(queue))
  /\ UNCHANGED <<limit, now, fresh, windowStart, windowCount>>

Allow ==
  /\ limit > 0
  /\ posting = Nil /\ queue # <<>> /\ Head(queue) \in AlertTypes
  /\ UnderLimit(CountNow)
  /\ queue' = Tail(queue)
  /\ Forward(Head(queue))
  /\ windowStart' = IF WindowExpired(windowStart) THEN now ELSE windowStart
  /\ windowCount' = CountNow + 1
  /\ UNCHANGED <<limit, now, fresh>>

(* The window cannot have expired here: a new one has room.                *)
Suppress ==
  /\ limit > 0
  /\ posting = Nil /\ queue # <<>> /\ Head(queue) \in AlertTypes
  /\ ~UnderLimit(CountNow)
  /\ queue' = Tail(queue)
  /\ UNCHANGED <<limit, now, fresh, posting, windowStart, windowCount, sent>>

(* Mutation: an http.Client without a Timeout.                             *)
NotifyHangs == FALSE

(* Notify returns, with or without an error: an error is logged, the alert *)
(* stays counted and is not tried again.                                   *)
NotifyReturns ==
  /\ posting # Nil
  /\ posting' = Nil
  /\ UNCHANGED <<limit, now, fresh, queue, windowStart, windowCount, sent>>

Handle == Ignore \/ AllowUnlimited \/ Allow \/ Suppress \/ NotifyReturns

Next == Tick \/ Publish \/ Handle

Spec == Init /\ [][Next]_vars

(* The http.Client has a timeout: Notify always returns, and then the loop *)
(* takes the next event.                                                   *)
FairSpec == Spec /\ WF_vars(Handle)

-----------------------------------------------------------------------------
(* Properties                                                              *)

(* The type invariant.                                                     *)
TypeOK ==
  /\ now \in Time /\ fresh \in 0..MaxPerTick
  /\ queue \in Seq(EventTypes) /\ Len(queue) <= Cap
  /\ posting \in AlertTypes \cup {Nil}
  /\ windowStart \in Time \cup {ZeroTime}
  /\ windowCount \in Nat
  /\ sent \in Seq(Time)

(* The limit of two adjacent windows is not exceeded by both together at   *)
(* their seam: the first alert of a window is too old to share a rolling   *)
(* window with any alert of the next, so at most 2 limit - 1 alerts are    *)
(* sent in any Window consecutive instants: alerts i and i + 2 limit - 1   *)
(* are at least a Window apart.                                            *)
RollingBound ==
  limit > 0 =>
    \A i, j \in DOMAIN sent : j = i + 2 * limit - 1 => sent[j] - sent[i] >= Window

(* The count the code keeps is the number of alerts sent since windowStart: *)
(* those are the last windowCount of them.                                 *)
WindowCountIsExact ==
  limit > 0 =>
    /\ windowCount <= limit
    /\ \A i \in DOMAIN sent : sent[i] >= windowStart <=> i > Len(sent) - windowCount

(* An alert is suppressed only when the limit is used up by what was sent  *)
(* within the last Window instants, never on account of an older window.   *)
AlertSuppressed ==
  queue # <<>> /\ queue' = Tail(queue) /\ Head(queue) \in AlertTypes /\ sent' = sent

FullNow ==
  /\ limit > 0 /\ Len(sent) >= limit
  /\ now - sent[Len(sent) - limit + 1] < Window

SuppressedOnlyWhenFull == [][AlertSuppressed => FullNow]_vars

(* The dispatcher never stops taking events: a backlog drains although     *)
(* every POST may run into its timeout.                                    *)
BacklogDrains == []<>(queue = <<>>)
=============================================================================
