-------------------------------- MODULE Hub ---------------------------------
(***************************************************************************)
(* The in-memory hub of internal/broker: publishers (request handlers, the *)
(* sweeper, the missed-run detector) fan events out, under one mutex, to   *)
(* the buffered channels of the listeners (SSE connections, the alert      *)
(* dispatcher), which come and go and receive without the mutex.           *)
(*                                                                         *)
(* An event is the number of its publication: the order in which           *)
(* publishers got the mutex.  A listener that subscribes again gets a new  *)
(* channel, so a slot of Listeners stands for one connection at a time.    *)
(***************************************************************************)
EXTENDS Integers, Sequences

CONSTANTS
  Publishers,   \* goroutines that publish
  Listeners,    \* slots for connections
  Cap,          \* buffer of a channel (16 in the code)
  MaxEvents,    \* bound: number of events published
  Nil           \* the mutex is free

ASSUME ConstantsAssumption ==
  /\ Cap \in Nat \ {0} /\ MaxEvents \in Nat
  /\ Publishers \cap Listeners = {} /\ Nil \notin Publishers \cup Listeners

VARIABLES
  mu,       \* who holds h.mu, or Nil
  subs,     \* h.subs: the listeners whose channel is registered
  chan,     \* chan[l]: what is buffered in the channel of l
  closed,   \* closed[l]: the channel of l has been closed
  pc,       \* pc[x]: the step of publisher or listener x
  todo,     \* the channels the publisher holding the mutex has yet to try
  count,    \* events published so far
  last      \* history: last[l] is the newest event l has received

vars == <<mu, subs, chan, closed, pc, todo, count, last>>

Actors == Publishers \cup Listeners

Init ==
  /\ mu = Nil /\ subs = {} /\ todo = {} /\ count = 0
  /\ chan = [l \in Listeners |-> <<>>]
  /\ closed = [l \in Listeners |-> TRUE]
  /\ pc = [x \in Actors |-> IF x \in Publishers THEN "idle" ELSE "gone"]
  /\ last = [l \in Listeners |-> 0]

At(x, from, to) == pc[x] = from /\ pc' = [pc EXCEPT ![x] = to]

Acquire(x) == mu = Nil /\ mu' = x

-----------------------------------------------------------------------------
(* Publish                                                                 *)

PublishCall(p) ==
  /\ At(p, "idle", "lock")
  /\ UNCHANGED <<mu, subs, chan, closed, todo, count, last>>

PublishLock(p) ==
  /\ count < MaxEvents
  /\ At(p, "lock", "send") /\ Acquire(p)
  /\ todo' = subs
  /\ count' = count + 1
  /\ UNCHANGED <<subs, chan, closed, last>>

(* Mutations of the select: off by one; a full channel blocks the sender.  *)
SendPastCap(p) ==
  /\ pc[p] = "send"
  /\ \E l \in todo :
       /\ todo' = todo \ {l}
       /\ chan' = IF Len(chan[l]) <= Cap THEN [chan EXCEPT ![l] = Append(chan[l], count)]
                                         ELSE chan
  /\ UNCHANGED <<mu, subs, closed, pc, count, last>>
SendBlocks(p) ==
  /\ pc[p] = "send"
  /\ \E l \in todo :
       /\ Len(chan[l]) < Cap
       /\ todo' = todo \ {l}
       /\ chan' = [chan EXCEPT ![l] = Append(chan[l], count)]
  /\ UNCHANGED <<mu, subs, closed, pc, count, last>>

(* Mutation: on a full channel the loop returns, not just the select.      *)
SendGivesUp(p) ==
  /\ pc[p] = "send"
  /\ \E l \in todo :
       IF Len(chan[l]) < Cap
       THEN todo' = todo \ {l} /\ chan' = [chan EXCEPT ![l] = Append(chan[l], count)]
       ELSE todo' = {} /\ chan' = chan
  /\ UNCHANGED <<mu, subs, closed, pc, count, last>>

(* One turn of the loop over the map, in no particular order: a channel    *)
(* that is full misses the event.                                          *)
Send(p) ==
  /\ pc[p] = "send"
  /\ \E l \in todo :
       /\ todo' = todo \ {l}
       /\ chan' = IF Len(chan[l]) < Cap THEN [chan EXCEPT ![l] = Append(chan[l], count)]
                                        ELSE chan
  /\ UNCHANGED <<mu, subs, closed, pc, count, last>>

PublishUnlock(p) ==
  /\ todo = {}
  /\ At(p, "send", "idle")
  /\ mu' = Nil
  /\ UNCHANGED <<subs, chan, closed, todo, count, last>>

-----------------------------------------------------------------------------
(* Subscribe, receive, unsubscribe                                         *)

(* The channel is made before the mutex is taken to register it.           *)
SubscribeMake(l) ==
  /\ At(l, "gone", "register")
  /\ chan' = [chan EXCEPT ![l] = <<>>]
  /\ closed' = [closed EXCEPT ![l] = FALSE]
  /\ last' = [last EXCEPT ![l] = 0]
  /\ UNCHANGED <<mu, subs, todo, count>>

(* Lock, store into the map, unlock: nobody else looks in between.         *)
SubscribeRegister(l) ==
  /\ At(l, "register", "listen")
  /\ mu = Nil
  /\ subs' = subs \cup {l}
  /\ UNCHANGED <<mu, chan, closed, todo, count, last>>

(* Mutation: a receive that takes the newest event first.                  *)
ReceiveNewest(l) ==
  /\ pc[l] = "listen" /\ chan[l] # <<>>
  /\ last' = [last EXCEPT ![l] = chan[l][Len(chan[l])]]
  /\ chan' = [chan EXCEPT ![l] = SubSeq(chan[l], 1, Len(chan[l]) - 1)]
  /\ UNCHANGED <<mu, subs, closed, pc, todo, count>>

(* The listener's select picks the channel.                                *)
Receive(l) ==
  /\ pc[l] = "listen" /\ chan[l] # <<>>
  /\ last' = [last EXCEPT ![l] = Head(chan[l])]
  /\ chan' = [chan EXCEPT ![l] = Tail(chan[l])]
  /\ UNCHANGED <<mu, subs, closed, pc, todo, count>>

(* The client of an SSE connection went away, or the dispatcher stops.     *)
Leave(l) ==
  /\ At(l, "listen", "unsubscribe")
  /\ UNCHANGED <<mu, subs, chan, closed, todo, count, last>>

(* Mutation: unsubscribe without the mutex.                                *)
UnsubscribeUnlocked(l) ==
  /\ At(l, "unsubscribe", "gone")
  /\ subs' = subs \ {l}
  /\ closed' = [closed EXCEPT ![l] = TRUE]
  /\ UNCHANGED <<mu, chan, todo, count, last>>

(* Lock, delete from the map and close, unlock.  What is still buffered    *)
(* is lost: the listener receives no more.                                 *)
Unsubscribe(l) ==
  /\ At(l, "unsubscribe", "gone")
  /\ mu = Nil
  /\ subs' = subs \ {l}
  /\ closed' = [closed EXCEPT ![l] = TRUE]
  /\ UNCHANGED <<mu, chan, todo, count, last>>

-----------------------------------------------------------------------------
PublisherStep(p) == PublishCall(p) \/ PublishLock(p) \/ Send(p) \/ PublishUnlock(p)

ListenerStep(l) ==
  \/ SubscribeMake(l) \/ SubscribeRegister(l)
  \/ Receive(l) \/ Leave(l) \/ Unsubscribe(l)

Next ==
  \/ \E p \in Publishers : PublisherStep(p)
  \/ \E l \in Listeners : ListenerStep(l)

Spec == Init /\ [][Next]_vars

-----------------------------------------------------------------------------
(* Properties                                                              *)

(* The type invariant.                                                     *)
TypeOK ==
  /\ mu \in Publishers \cup {Nil}
  /\ subs \in SUBSET Listeners /\ todo \in SUBSET Listeners
  /\ chan \in [Listeners -> Seq(1..MaxEvents)]
  /\ \A l \in Listeners : Len(chan[l]) <= Cap
  /\ closed \in [Listeners -> BOOLEAN]
  /\ pc \in [Actors -> {"idle", "lock", "send", "gone", "register", "listen", "unsubscribe"}]
  /\ count \in 0..MaxEvents
  /\ last \in [Listeners -> 0..MaxEvents]

(* No publisher sends on a closed channel, which would panic: a channel    *)
(* leaves the map and is closed in one critical section, and the loop over *)
(* the map is another.                                                     *)
NeverSendsOnClosed ==
  \A p \in Publishers, l \in Listeners : pc[p] = "send" /\ l \in todo => ~closed[l]

(* Every listener receives events in the order they were published, the    *)
(* same for all listeners, and no event twice; it may miss some.           *)
InPublicationOrder ==
  \A l \in Listeners :
    /\ \A i, j \in DOMAIN chan[l] : i < j => chan[l][i] < chan[l][j]
    /\ pc[l] # "gone" => \A i \in DOMAIN chan[l] : last[l] < chan[l][i]

(* "Publish broadcasts an event to all current subscribers", and drops it  *)
(* only for those that cannot keep up: whatever mutex and loop interleave  *)
(* with, the hub keeps the promise of Broadcast to every subscriber.       *)
Reached == [l \in Listeners |-> IF l \notin subs THEN 0 ELSE IF l \in todo THEN count - 1 ELSE count]
Inbox == [l \in Listeners |-> IF l \in subs THEN chan[l] ELSE <<>>]

Promise == INSTANCE Broadcast WITH
  Subscribers <- Listeners, open <- subs, published <- count, offered <- Reached, queue <- Inbox

ImplementsBroadcast == Promise!Spec
=============================================================================
