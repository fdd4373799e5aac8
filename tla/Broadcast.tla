----------------------------- MODULE Broadcast ------------------------------
(***************************************************************************)
(* What the hub promises its subscribers, with no mutex, no map and no     *)
(* loop over it in sight.  Events are published one after another, each    *)
(* offered to everybody subscribed when it is; a subscriber misses an      *)
(* event only if its buffer is full at the moment it is offered; and one   *)
(* who leaves is offered everything published before, and nothing after.   *)
(***************************************************************************)
EXTENDS Naturals, Sequences

CONSTANTS
  Subscribers,
  Cap           \* events a subscriber's buffer holds

VARIABLES
  open,         \* the subscribers of the moment
  published,    \* events published so far: an event is its number
  offered,      \* offered[s]: the newest event offered to s, 0 if s is not open
  queue         \* queue[s]: what s has yet to receive

view == <<open, published, offered, queue>>

Init ==
  /\ open = {} /\ published = 0
  /\ offered = [s \in Subscribers |-> 0]
  /\ queue = [s \in Subscribers |-> <<>>]

UpToDate(s) == offered[s] = published

(* One is offered only what is published from now on.                      *)
Open(s) ==
  /\ s \notin open /\ \A t \in open : UpToDate(t)
  /\ open' = open \cup {s}
  /\ offered' = [offered EXCEPT ![s] = published]
  /\ UNCHANGED <<published, queue>>

Publish ==
  /\ \A s \in open : UpToDate(s)
  /\ published' = published + 1
  /\ UNCHANGED <<open, offered, queue>>

Offer(s) ==
  /\ s \in open /\ ~UpToDate(s)
  /\ offered' = [offered EXCEPT ![s] = published]
  /\ queue' = IF Len(queue[s]) < Cap THEN [queue EXCEPT ![s] = Append(@, published)] ELSE queue
  /\ UNCHANGED <<open, published>>

Take(s) ==
  /\ queue[s] # <<>>
  /\ queue' = [queue EXCEPT ![s] = Tail(@)]
  /\ UNCHANGED <<open, published, offered>>

(* What is still in the buffer is lost.                                    *)
Close(s) ==
  /\ s \in open /\ UpToDate(s)
  /\ open' = open \ {s}
  /\ offered' = [offered EXCEPT ![s] = 0]
  /\ queue' = [queue EXCEPT ![s] = <<>>]
  /\ UNCHANGED published

Next ==
  \/ Publish
  \/ \E s \in Subscribers : Open(s) \/ Offer(s) \/ Take(s) \/ Close(s)

Spec == Init /\ [][Next]_view
=============================================================================
