---------------------------- MODULE ServerProofs ----------------------------
(***************************************************************************)
(* Proofs about Hub and Server.  The first half is about the hub alone,    *)
(* for every number of publishers and connections and every buffer size.   *)
(* The second half shows that the hub inside a process behaves like Hub,   *)
(* so the first half holds there too; what a graceful end means; and that  *)
(* a process has all its goroutines, for every number of connections and   *)
(* passes and every environment.                                           *)
(***************************************************************************)
EXTENDS Server, SequenceTheorems, TLAPS

-----------------------------------------------------------------------------
(* The hub: the inductive invariant                                        *)

(* Every actor is at a step of its own kind.                               *)
PcInv ==
  /\ pc \in [Actors -> {"idle", "lock", "send", "gone", "register", "listen", "unsubscribe"}]
  /\ \A p \in Publishers : pc[p] \in {"idle", "lock", "send"}
  /\ \A l \in Listeners : pc[l] \in {"gone", "register", "listen", "unsubscribe"}

(* The mutex is held by whoever is sending, and only he has channels to    *)
(* try, all of them registered.                                            *)
LockInv ==
  /\ mu \in Publishers \cup {Nil}
  /\ \A p \in Publishers : pc[p] = "send" <=> mu = p
  /\ todo \subseteq subs
  /\ mu = Nil => todo = {}

(* Registered means listening or about to unsubscribe; closed means gone.  *)
SubsInv ==
  /\ subs = {l \in Listeners : pc[l] \in {"listen", "unsubscribe"}}
  /\ closed \in [Listeners -> BOOLEAN]
  /\ \A l \in Listeners : closed[l] <=> pc[l] = "gone"

(* Events are buffered and received in the order of their numbers, none    *)
(* newer than the last published, and while the last one is being sent it  *)
(* has not reached the channels still to be tried.                         *)
Ordered(s, bound) ==
  /\ \A i \in DOMAIN s : s[i] <= bound
  /\ \A i, j \in DOMAIN s : i < j => s[i] < s[j]

Newest(l) == IF l \in todo THEN count - 1 ELSE count

ChanInv ==
  /\ count \in 0..MaxEvents
  /\ chan \in [Listeners -> Seq(1..MaxEvents)]
  /\ last \in [Listeners -> 0..MaxEvents]
  /\ \A l \in Listeners :
       /\ Len(chan[l]) <= Cap
       /\ Ordered(chan[l], Newest(l))
       /\ pc[l] # "gone" => /\ last[l] <= Newest(l)
                            /\ \A i \in DOMAIN chan[l] : last[l] < chan[l][i]

IInv == PcInv /\ LockInv /\ SubsInv /\ ChanInv

-----------------------------------------------------------------------------
(* Buffers                                                                 *)

LEMMA OrderedAppend ==
  ASSUME NEW s \in Seq(1..MaxEvents), NEW e \in 1..MaxEvents, Ordered(s, e - 1)
  PROVE  /\ Append(s, e) \in Seq(1..MaxEvents)
         /\ Ordered(Append(s, e), e)
         /\ Len(Append(s, e)) = Len(s) + 1
<1>1. SUFFICES ASSUME NEW t, t = Append(s, e)
               PROVE  t \in Seq(1..MaxEvents) /\ Ordered(t, e) /\ Len(t) = Len(s) + 1
  OBVIOUS
<1>2. /\ t \in Seq(1..MaxEvents) /\ Len(s) \in Nat /\ Len(t) = Len(s) + 1
      /\ DOMAIN s = 1..Len(s) /\ DOMAIN t = 1..(Len(s) + 1)
      /\ \A i \in 1..Len(s) : t[i] = s[i] /\ s[i] \in 1..MaxEvents
      /\ t[Len(s) + 1] = e
  <2>1. /\ t \in Seq(1..MaxEvents) /\ Len(t) = Len(s) + 1 /\ t[Len(s) + 1] = e
        /\ \A i \in 1..Len(s) : t[i] = s[i]
    BY <1>1, AppendProperties
  <2>2. Len(s) \in Nat /\ DOMAIN s = 1..Len(s) /\ DOMAIN t = 1..Len(t)
    BY <2>1
  <2>3. \A i \in 1..Len(s) : s[i] \in 1..MaxEvents
    BY ElementOfSeq
  <2> QED
    BY <2>1, <2>2, <2>3
<1>3. \A i \in DOMAIN t : i \in DOMAIN s \/ i = Len(s) + 1
  BY <1>2
<1>4. \A i \in DOMAIN s : t[i] = s[i] /\ s[i] <= e - 1 /\ s[i] \in Int
  BY <1>2 DEF Ordered
<1>5. \A i \in DOMAIN t : t[i] <= e
  BY <1>2, <1>3, <1>4
<1>6. \A i, j \in DOMAIN t : i < j => t[i] < t[j]
  <2>1. SUFFICES ASSUME NEW i \in DOMAIN t, NEW j \in DOMAIN t, i < j PROVE t[i] < t[j]
    OBVIOUS
  <2>2. i \in DOMAIN s
    BY <1>2, <2>1
  <2>3. CASE j \in DOMAIN s
    BY <1>4, <2>1, <2>2, <2>3 DEF Ordered
  <2>4. CASE j = Len(s) + 1
    BY <1>2, <1>4, <2>2, <2>4
  <2> QED
    BY <1>3, <2>3, <2>4
<1> QED
  BY <1>2, <1>5, <1>6 DEF Ordered

LEMMA OrderedTail ==
  ASSUME NEW s \in Seq(1..MaxEvents), s # <<>>, NEW b \in Int, Ordered(s, b)
  PROVE  /\ Head(s) \in 1..MaxEvents /\ Head(s) <= b
         /\ Tail(s) \in Seq(1..MaxEvents)
         /\ Len(Tail(s)) = Len(s) - 1
         /\ Ordered(Tail(s), b)
         /\ \A i \in DOMAIN Tail(s) : Head(s) < Tail(s)[i]
<1>1. Len(s) \in Nat /\ Len(s) >= 1 /\ DOMAIN s = 1..Len(s)
  BY EmptySeq
<1>2. Head(s) = s[1] /\ 1 \in DOMAIN s
  BY <1>1
<1>3. /\ Tail(s) \in Seq(1..MaxEvents) /\ Len(Tail(s)) = Len(s) - 1
      /\ \A i \in 1..(Len(s) - 1) : Tail(s)[i] = s[i + 1]
  BY <1>1, HeadTailProperties
<1>4. DOMAIN Tail(s) = 1..(Len(s) - 1)
  BY <1>1, <1>3
<1>5. \A i \in DOMAIN Tail(s) : i + 1 \in DOMAIN s /\ Tail(s)[i] = s[i + 1] /\ i + 1 > 1
  BY <1>1, <1>3, <1>4
<1>6. \A i \in 1..Len(s) : s[i] \in 1..MaxEvents
  BY ElementOfSeq
<1>7. \A i \in DOMAIN s : s[i] \in 1..MaxEvents /\ s[i] <= b
  BY <1>1, <1>6 DEF Ordered
<1>8. \A i \in DOMAIN Tail(s) : Head(s) < Tail(s)[i] /\ Tail(s)[i] <= b
  BY <1>2, <1>5, <1>7 DEF Ordered
<1>9. \A i, j \in DOMAIN Tail(s) : i < j => i + 1 < j + 1 /\ Tail(s)[i] < Tail(s)[j]
  BY <1>4, <1>5 DEF Ordered
<1> QED
  BY <1>2, <1>3, <1>7, <1>8, <1>9 DEF Ordered

-----------------------------------------------------------------------------
(* Initial states and steps                                                *)

LEMMA InitIInv == Init => IInv
<1> SUFFICES ASSUME Init PROVE IInv
  OBVIOUS
<1> USE ConstantsAssumption
<1>1. PcInv
  BY DEF Init, PcInv, Actors
<1>2. LockInv
  BY DEF Init, LockInv, Actors
<1>3. SubsInv
  BY DEF Init, SubsInv, Actors
<1>4. ChanInv
  BY EmptySeq DEF Init, ChanInv, Ordered, Newest
<1> QED
  BY <1>1, <1>2, <1>3, <1>4 DEF IInv

LEMMA PublishCallStep ==
  ASSUME IInv, NEW p \in Publishers, PublishCall(p) PROVE IInv'
<1> USE ConstantsAssumption
<1>1. PcInv'
  BY DEF PublishCall, At, IInv, PcInv, Actors
<1>2. LockInv'
  BY DEF PublishCall, At, IInv, PcInv, LockInv, Actors
<1>3. SubsInv'
  BY DEF PublishCall, At, IInv, PcInv, SubsInv, Actors
<1>4. ChanInv'
  BY DEF PublishCall, At, IInv, PcInv, ChanInv, Actors, Newest
<1> QED
  BY <1>1, <1>2, <1>3, <1>4 DEF IInv

LEMMA PublishLockStep ==
  ASSUME IInv, NEW p \in Publishers, PublishLock(p) PROVE IInv'
<1> USE ConstantsAssumption
<1>1. PcInv'
  BY DEF PublishLock, At, IInv, PcInv, Actors
<1>2. LockInv'
  BY DEF PublishLock, At, Acquire, IInv, PcInv, LockInv, Actors
<1>3. SubsInv'
  BY DEF PublishLock, At, IInv, PcInv, SubsInv, Actors
<1>4. todo = {} /\ count' = count + 1 /\ count' \in 0..MaxEvents
  BY DEF PublishLock, Acquire, IInv, LockInv, ChanInv
<1>5. \A l \in Listeners : Newest(l) = count /\ count <= Newest(l)'
  BY <1>4 DEF Newest, IInv, ChanInv
<1>6. \A l \in Listeners : Ordered(chan[l], count)
  BY <1>5 DEF IInv, ChanInv
<1>7. \A l \in Listeners : Ordered(chan[l], Newest(l)')
  <2>1. SUFFICES ASSUME NEW l \in Listeners PROVE Ordered(chan[l], Newest(l)')
    OBVIOUS
  <2>2. chan[l] \in Seq(1..MaxEvents) /\ count \in Int /\ Newest(l)' \in Int
    BY <1>4 DEF IInv, ChanInv, Newest
  <2> QED
    BY <1>5, <1>6, <2>2 DEF Ordered
<1>8. \A l \in Listeners : pc'[l] = pc[l]
  BY DEF PublishLock, At, IInv, PcInv, Actors
<1>9. ChanInv'
  <2>1. UNCHANGED <<chan, last>>
    BY DEF PublishLock
  <2>2. \A l \in Listeners : pc[l] # "gone" => last[l] <= Newest(l)'
    BY <1>4, <1>5 DEF IInv, ChanInv, Newest
  <2> QED
    BY <1>4, <1>7, <1>8, <2>1, <2>2 DEF IInv, ChanInv
<1> QED
  BY <1>1, <1>2, <1>3, <1>9 DEF IInv

LEMMA SendStep ==
  ASSUME IInv, NEW p \in Publishers, Send(p) PROVE IInv'
<1> USE ConstantsAssumption
<1>1. PICK l \in todo :
        /\ todo' = todo \ {l}
        /\ chan' = IF Len(chan[l]) < Cap THEN [chan EXCEPT ![l] = Append(chan[l], count)]
                                         ELSE chan
  BY DEF Send
<1>2. UNCHANGED <<mu, subs, closed, pc, count, last>> /\ pc[p] = "send"
  BY DEF Send
<1>3. l \in Listeners /\ l \in subs /\ pc[l] # "gone"
  BY DEF IInv, LockInv, SubsInv
<1>4. PcInv' /\ SubsInv'
  BY <1>2 DEF IInv, PcInv, SubsInv
<1>5. LockInv'
  BY <1>1, <1>2 DEF IInv, LockInv
<1>6. count \in 0..MaxEvents /\ chan[l] \in Seq(1..MaxEvents) /\ Len(chan[l]) \in Nat
      /\ Newest(l) = count - 1 /\ Newest(l)' = count
  BY <1>1, <1>2, <1>3 DEF IInv, ChanInv, Newest
<1>7. \A m \in Listeners \ {l} : Newest(m)' = Newest(m) /\ chan'[m] = chan[m]
  BY <1>1, <1>2 DEF Newest, IInv, ChanInv
<1>8. Ordered(chan[l], count - 1) /\ last[l] <= count - 1 /\ last[l] \in Nat
  BY <1>3, <1>6 DEF IInv, ChanInv
<1>9. count \in 1..MaxEvents
  BY <1>6, <1>8
<1>10. /\ Ordered(chan'[l], count) /\ chan'[l] \in Seq(1..MaxEvents) /\ Len(chan'[l]) <= Cap
       /\ \A i \in DOMAIN chan'[l] : last[l] < chan'[l][i]
  <2>0. DOMAIN chan = Listeners /\ Len(chan[l]) <= Cap
        /\ \A i \in DOMAIN chan[l] : last[l] < chan[l][i]
    BY <1>3 DEF IInv, ChanInv
  <2>1. CASE Len(chan[l]) < Cap
    <3>1. chan'[l] = Append(chan[l], count)
      BY <1>1, <1>3, <2>0, <2>1
    <3>2. /\ Append(chan[l], count) \in Seq(1..MaxEvents)
          /\ Ordered(Append(chan[l], count), count)
          /\ Len(Append(chan[l], count)) = Len(chan[l]) + 1
      BY <1>6, <1>8, <1>9, OrderedAppend
    <3>3. \A i \in DOMAIN Append(chan[l], count) : last[l] < Append(chan[l], count)[i]
      BY <1>6, <1>8, <2>0
    <3> QED
      BY <1>6, <2>1, <3>1, <3>2, <3>3
  <2>2. CASE ~(Len(chan[l]) < Cap)
    <3>1. chan'[l] = chan[l]
      BY <1>1, <2>2
    <3>2. Ordered(chan[l], count)
      BY <1>6, <1>8 DEF Ordered
    <3> QED
      BY <1>6, <2>0, <3>1, <3>2
  <2> QED
    BY <2>1, <2>2
<1>11. chan' \in [Listeners -> Seq(1..MaxEvents)]
  BY <1>1, <1>6, <1>7, <1>9, <1>10 DEF IInv, ChanInv
<1>12. ChanInv'
  <2>1. \A m \in Listeners \ {l} :
          /\ Len(chan'[m]) <= Cap /\ Ordered(chan'[m], Newest(m)')
          /\ pc'[m] # "gone" => /\ last'[m] <= Newest(m)'
                                /\ \A i \in DOMAIN chan'[m] : last'[m] < chan'[m][i]
    BY <1>2, <1>7 DEF IInv, ChanInv
  <2>2. last[l] <= count
    BY <1>6, <1>8
  <2> QED
    BY <1>2, <1>6, <1>10, <1>11, <2>1, <2>2 DEF IInv, ChanInv
<1> QED
  BY <1>4, <1>5, <1>12 DEF IInv

LEMMA PublishUnlockStep ==
  ASSUME IInv, NEW p \in Publishers, PublishUnlock(p) PROVE IInv'
<1> USE ConstantsAssumption
<1>1. PcInv'
  BY DEF PublishUnlock, At, IInv, PcInv, Actors
<1>2. LockInv'
  BY DEF PublishUnlock, At, IInv, PcInv, LockInv, Actors
<1>3. SubsInv'
  BY DEF PublishUnlock, At, IInv, PcInv, SubsInv, Actors
<1>4. ChanInv'
  BY DEF PublishUnlock, At, IInv, PcInv, ChanInv, Actors, Newest
<1> QED
  BY <1>1, <1>2, <1>3, <1>4 DEF IInv

LEMMA SubscribeMakeStep ==
  ASSUME IInv, NEW l \in Listeners, SubscribeMake(l) PROVE IInv'
<1> USE ConstantsAssumption
<1>1. PcInv'
  BY DEF SubscribeMake, At, IInv, PcInv, Actors
<1>2. LockInv'
  BY DEF SubscribeMake, At, IInv, PcInv, LockInv, Actors
<1>3. SubsInv'
  BY DEF SubscribeMake, At, IInv, PcInv, SubsInv, Actors
<1>4. l \notin todo
  BY DEF SubscribeMake, At, IInv, LockInv, SubsInv
<1>5. ChanInv'
  BY <1>4 DEF SubscribeMake, At, IInv, PcInv, ChanInv, Actors, Newest, Ordered
<1> QED
  BY <1>1, <1>2, <1>3, <1>5 DEF IInv

LEMMA SubscribeRegisterStep ==
  ASSUME IInv, NEW l \in Listeners, SubscribeRegister(l) PROVE IInv'
<1> USE ConstantsAssumption
<1>1. PcInv'
  BY DEF SubscribeRegister, At, IInv, PcInv, Actors
<1>2. LockInv'
  BY DEF SubscribeRegister, At, IInv, PcInv, LockInv, Actors
<1>3. SubsInv'
  BY DEF SubscribeRegister, At, IInv, PcInv, SubsInv, Actors
<1>4. ChanInv'
  BY DEF SubscribeRegister, At, IInv, PcInv, ChanInv, Actors, Newest
<1> QED
  BY <1>1, <1>2, <1>3, <1>4 DEF IInv

LEMMA ReceiveStep ==
  ASSUME IInv, NEW l \in Listeners, Receive(l) PROVE IInv'
<1> USE ConstantsAssumption
<1>1. /\ pc[l] = "listen" /\ chan[l] # <<>>
      /\ last' = [last EXCEPT ![l] = Head(chan[l])]
      /\ chan' = [chan EXCEPT ![l] = Tail(chan[l])]
      /\ UNCHANGED <<mu, subs, closed, pc, todo, count>>
  BY DEF Receive
<1>2. PcInv' /\ LockInv' /\ SubsInv'
  BY <1>1 DEF IInv, PcInv, LockInv, SubsInv
<1>3. chan[l] \in Seq(1..MaxEvents) /\ Newest(l) \in Int /\ Ordered(chan[l], Newest(l))
  BY DEF IInv, ChanInv, Newest
<1>4. /\ Head(chan[l]) \in 1..MaxEvents /\ Head(chan[l]) <= Newest(l)
      /\ Tail(chan[l]) \in Seq(1..MaxEvents)
      /\ Len(Tail(chan[l])) = Len(chan[l]) - 1
      /\ Ordered(Tail(chan[l]), Newest(l))
      /\ \A i \in DOMAIN Tail(chan[l]) : Head(chan[l]) < Tail(chan[l])[i]
  BY <1>1, <1>3, OrderedTail
<1>5. Len(Tail(chan[l])) <= Cap
  BY <1>3, <1>4 DEF IInv, ChanInv
<1>6. \A m \in Listeners : Newest(m)' = Newest(m)
  BY <1>1 DEF Newest
<1>7. chan'[l] = Tail(chan[l]) /\ last'[l] = Head(chan[l])
  BY <1>1 DEF IInv, ChanInv
<1>8. \A m \in Listeners \ {l} : chan'[m] = chan[m] /\ last'[m] = last[m]
  BY <1>1 DEF IInv, ChanInv
<1>9. chan' \in [Listeners -> Seq(1..MaxEvents)] /\ last' \in [Listeners -> 0..MaxEvents]
  BY <1>1, <1>4 DEF IInv, ChanInv
<1>10. ChanInv'
  <2>1. \A m \in Listeners \ {l} :
          /\ Len(chan'[m]) <= Cap /\ Ordered(chan'[m], Newest(m)')
          /\ pc'[m] # "gone" => /\ last'[m] <= Newest(m)'
                                /\ \A i \in DOMAIN chan'[m] : last'[m] < chan'[m][i]
    BY <1>1, <1>6, <1>8 DEF IInv, ChanInv
  <2> QED
    BY <1>1, <1>4, <1>5, <1>6, <1>7, <1>9, <2>1 DEF IInv, ChanInv
<1> QED
  BY <1>2, <1>10 DEF IInv

LEMMA LeaveStep ==
  ASSUME IInv, NEW l \in Listeners, Leave(l) PROVE IInv'
<1> USE ConstantsAssumption
<1>1. PcInv'
  BY DEF Leave, At, IInv, PcInv, Actors
<1>2. LockInv'
  BY DEF Leave, At, IInv, PcInv, LockInv, Actors
<1>3. SubsInv'
  BY DEF Leave, At, IInv, PcInv, SubsInv, Actors
<1>4. ChanInv'
  BY DEF Leave, At, IInv, PcInv, ChanInv, Actors, Newest
<1> QED
  BY <1>1, <1>2, <1>3, <1>4 DEF IInv

(* The mutex is free, so that no publisher has this channel still to try.  *)
LEMMA UnsubscribeStep ==
  ASSUME IInv, NEW l \in Listeners, Unsubscribe(l) PROVE IInv'
<1> USE ConstantsAssumption
<1>1. PcInv'
  BY DEF Unsubscribe, At, IInv, PcInv, Actors
<1>2. LockInv'
  BY DEF Unsubscribe, At, IInv, PcInv, LockInv, Actors
<1>3. SubsInv'
  BY DEF Unsubscribe, At, IInv, PcInv, SubsInv, Actors
<1>4. ChanInv'
  BY DEF Unsubscribe, At, IInv, PcInv, ChanInv, Actors, Newest
<1> QED
  BY <1>1, <1>2, <1>3, <1>4 DEF IInv

LEMMA NextIInv == IInv /\ [Next]_vars => IInv'
<1>1. SUFFICES ASSUME IInv, [Next]_vars PROVE IInv'
  OBVIOUS
<1>2. CASE UNCHANGED vars
  BY <1>1, <1>2 DEF vars, IInv, PcInv, LockInv, SubsInv, ChanInv, Newest
<1>3. ASSUME NEW p \in Publishers, PublisherStep(p) PROVE IInv'
  BY <1>1, <1>3, PublishCallStep, PublishLockStep, SendStep, PublishUnlockStep
  DEF PublisherStep
<1>4. ASSUME NEW l \in Listeners, ListenerStep(l) PROVE IInv'
  BY <1>1, <1>4, SubscribeMakeStep, SubscribeRegisterStep, ReceiveStep, LeaveStep,
     UnsubscribeStep DEF ListenerStep
<1> QED
  BY <1>1, <1>2, <1>3, <1>4 DEF Next

LEMMA Invariance == Spec => []IInv
  BY InitIInv, NextIInv, PTL DEF Spec

-----------------------------------------------------------------------------
(* What follows                                                            *)

(* The hub's state is well typed and no buffer exceeds its capacity.       *)
THEOREM TypeCorrect == Spec => []TypeOK
<1>1. IInv => TypeOK
  BY DEF IInv, PcInv, LockInv, SubsInv, ChanInv, TypeOK
<1> QED
  BY <1>1, Invariance, PTL

(* No publisher ever sends on a closed channel (broker.go, the two         *)
(* critical sections), for any number of publishers and connections.       *)
THEOREM NoSendOnClosed == Spec => []NeverSendsOnClosed
<1>1. IInv => NeverSendsOnClosed
  BY DEF IInv, LockInv, SubsInv, NeverSendsOnClosed
<1> QED
  BY <1>1, Invariance, PTL

(* Every listener buffers and receives events in publication order, none   *)
(* of them twice, whatever it misses.                                      *)
THEOREM OrderKept == Spec => []InPublicationOrder
<1>1. IInv => InPublicationOrder
  BY DEF IInv, ChanInv, Ordered, InPublicationOrder
<1> QED
  BY <1>1, Invariance, PTL

-----------------------------------------------------------------------------
(* The hub implements Broadcast                                            *)

(* A channel is empty while it waits to be registered.                     *)
FreshInv == \A l \in Listeners : pc[l] = "register" => chan[l] = <<>>

LEMMA FreshAlways == Spec => []FreshInv
<1>1. Init => FreshInv
  BY DEF Init, FreshInv
<1>2. ASSUME IInv, FreshInv, [Next]_vars PROVE FreshInv'
  <2>1. CASE UNCHANGED vars
    BY <1>2, <2>1 DEF vars, FreshInv
  <2>2. ASSUME NEW p \in Publishers, PublisherStep(p) PROVE FreshInv'
    <3>1. \A l \in Listeners : pc'[l] = pc[l]
      BY <1>2, <2>2, ConstantsAssumption
      DEF PublisherStep, PublishCall, PublishLock, Send, PublishUnlock, At, IInv, PcInv, Actors
    <3>2. \A l \in Listeners \ todo : chan'[l] = chan[l]
      BY <1>2, <2>2
      DEF PublisherStep, PublishCall, PublishLock, Send, PublishUnlock, IInv, ChanInv
    <3>3. \A l \in todo : pc[l] # "register"
      BY <1>2 DEF IInv, LockInv, SubsInv
    <3> QED
      BY <1>2, <3>1, <3>2, <3>3 DEF FreshInv
  <2>3. ASSUME NEW l \in Listeners, ListenerStep(l) PROVE FreshInv'
    BY <1>2, <2>3 DEF ListenerStep, SubscribeMake, SubscribeRegister, Receive, Leave, Unsubscribe,
       At, IInv, PcInv, ChanInv, Actors, FreshInv
  <2> QED
    BY <1>2, <2>1, <2>2, <2>3 DEF Next
<1> QED
  BY <1>1, <1>2, Invariance, PTL DEF Spec

(* Nobody is behind while the mutex is free.                               *)
LEMMA AllUpToDate ==
  ASSUME IInv, mu = Nil PROVE todo = {} /\ \A l \in subs : Promise!UpToDate(l)
  BY DEF IInv, LockInv, SubsInv, Reached, Promise!UpToDate

(* Steps of a publisher: taking the mutex publishes, one turn of the loop  *)
(* offers the event to one listener.                                       *)
LEMMA PublisherPromise ==
  ASSUME IInv, NEW p \in Publishers, PublisherStep(p)
  PROVE  Promise!Next \/ UNCHANGED Promise!view
<1> USE ConstantsAssumption
<1>1. CASE PublishCall(p) \/ PublishUnlock(p)
  BY <1>1 DEF PublishCall, PublishUnlock, Reached, Inbox, Promise!view
<1>2. CASE PublishLock(p)
  <2>1. /\ mu = Nil /\ todo' = subs /\ count' = count + 1 /\ count \in Int
        /\ UNCHANGED <<subs, chan>>
    BY <1>2 DEF PublishLock, Acquire, IInv, ChanInv
  <2>2. UNCHANGED <<Reached, Inbox>>
    BY <2>1, AllUpToDate DEF Reached, Inbox
  <2>3. Promise!Publish
    BY <2>1, <2>2, AllUpToDate DEF Promise!Publish
  <2> QED
    BY <2>3 DEF Promise!Next
<1>3. CASE Send(p)
  <2>1. PICK l \in todo :
          /\ todo' = todo \ {l}
          /\ chan' = IF Len(chan[l]) < Cap THEN [chan EXCEPT ![l] = Append(chan[l], count)]
                                           ELSE chan
    BY <1>3 DEF Send
  <2>2. /\ UNCHANGED <<subs, count>> /\ l \in Listeners /\ l \in subs /\ count \in Int
        /\ chan \in [Listeners -> Seq(1..MaxEvents)]
    BY <1>3 DEF Send, IInv, LockInv, SubsInv, ChanInv
  <2>3. ~Promise!UpToDate(l)
    BY <2>2 DEF Promise!UpToDate, Reached
  <2>4. Reached' = [Reached EXCEPT ![l] = count]
    BY <2>1, <2>2 DEF Reached
  <2>5. Inbox[l] = chan[l]
    BY <2>2 DEF Inbox
  <2>6. Inbox' = IF Len(Inbox[l]) < Cap THEN [Inbox EXCEPT ![l] = Append(@, count)] ELSE Inbox
    <3>1. CASE Len(chan[l]) < Cap
      BY <2>1, <2>2, <2>5, <3>1 DEF Inbox
    <3>2. CASE ~(Len(chan[l]) < Cap)
      BY <2>1, <2>2, <2>5, <3>2 DEF Inbox
    <3> QED
      BY <3>1, <3>2
  <2>7. Promise!Offer(l)
    BY <2>2, <2>3, <2>4, <2>6 DEF Promise!Offer
  <2> QED
    BY <2>2, <2>7 DEF Promise!Next
<1> QED
  BY <1>1, <1>2, <1>3 DEF PublisherStep

(* Steps of a listener: one is open from the moment the channel is in the  *)
(* map to the moment it is out of it.                                      *)
LEMMA ListenerPromise ==
  ASSUME IInv, FreshInv, NEW l \in Listeners, ListenerStep(l)
  PROVE  Promise!Next \/ UNCHANGED Promise!view
<1>1. CASE SubscribeMake(l)
  <2>1. l \notin subs /\ \A k \in Listeners \ {l} : chan'[k] = chan[k]
    BY <1>1 DEF SubscribeMake, At, IInv, SubsInv, ChanInv
  <2>2. UNCHANGED <<subs, todo, count>>
    BY <1>1 DEF SubscribeMake
  <2> QED
    BY <2>1, <2>2 DEF Reached, Inbox, Promise!view
<1>2. CASE SubscribeRegister(l)
  <2>1. /\ mu = Nil /\ subs' = subs \cup {l} /\ l \notin subs /\ chan[l] = <<>>
        /\ UNCHANGED <<chan, todo, count>>
    BY <1>2 DEF SubscribeRegister, At, IInv, SubsInv, FreshInv
  <2>2. Reached' = [Reached EXCEPT ![l] = count] /\ UNCHANGED Inbox
    BY <2>1, AllUpToDate DEF Reached, Inbox
  <2>3. Promise!Open(l)
    BY <2>1, <2>2, AllUpToDate DEF Promise!Open
  <2> QED
    BY <2>3 DEF Promise!Next
<1>3. CASE Receive(l)
  <2>1. /\ l \in subs /\ chan[l] # <<>> /\ chan' = [chan EXCEPT ![l] = Tail(chan[l])]
        /\ UNCHANGED <<subs, todo, count>> /\ chan \in [Listeners -> Seq(1..MaxEvents)]
    BY <1>3 DEF Receive, IInv, SubsInv, ChanInv
  <2>2. Inbox[l] = chan[l] /\ Inbox' = [Inbox EXCEPT ![l] = Tail(@)] /\ UNCHANGED Reached
    BY <2>1 DEF Inbox, Reached
  <2>3. Promise!Take(l)
    BY <2>1, <2>2 DEF Promise!Take
  <2> QED
    BY <2>3 DEF Promise!Next
<1>4. CASE Leave(l)
  BY <1>4 DEF Leave, Reached, Inbox, Promise!view
<1>5. CASE Unsubscribe(l)
  <2>1. /\ mu = Nil /\ subs' = subs \ {l} /\ l \in subs /\ UNCHANGED <<chan, todo, count>>
    BY <1>5 DEF Unsubscribe, At, IInv, SubsInv
  <2>2. Reached' = [Reached EXCEPT ![l] = 0] /\ Inbox' = [Inbox EXCEPT ![l] = <<>>]
    BY <2>1 DEF Reached, Inbox
  <2>3. Promise!Close(l)
    BY <2>1, <2>2, AllUpToDate DEF Promise!Close
  <2> QED
    BY <2>3 DEF Promise!Next
<1> QED
  BY <1>1, <1>2, <1>3, <1>4, <1>5 DEF ListenerStep

(* The hub keeps the promise of Broadcast, for any number of publishers,   *)
(* connections and events and any capacity: an event is dropped only for   *)
(* those whose channel is full when the loop over the map comes to it.     *)
THEOREM BroadcastImplemented == Spec => ImplementsBroadcast
<1>1. Init => Promise!Init
  BY DEF Init, Reached, Inbox, Promise!Init
<1>2. IInv /\ FreshInv /\ [Next]_vars => [Promise!Next]_(Promise!view)
  <2>1. CASE UNCHANGED vars
    BY <2>1 DEF vars, Reached, Inbox, Promise!view
  <2> QED
    BY <2>1, PublisherPromise, ListenerPromise DEF Next
<1> QED
  BY <1>1, <1>2, Invariance, FreshAlways, PTL DEF Spec, ImplementsBroadcast, Promise!Spec

-----------------------------------------------------------------------------
(* The hub of the process implements Hub                                   *)

(* What a step of the process is to the hub.                               *)
LEMMA HubStep ==
  ASSUME ServerNext
  PROVE  [Next]_vars
<1> USE PartsAssumption DEF Tickers, Clients
<1>1. CASE \E p \in Publishers : Locks(p)
  BY <1>1 DEF Locks, Next, PublisherStep
<1>2. CASE Sends
  BY <1>2 DEF Sends, Next, PublisherStep
<1>3. CASE \E l \in Listeners : Listens(l)
  BY <1>3 DEF Listens, Next, ListenerStep
<1>4. CASE \E w \in Passes : PassPublishes(w)
  BY <1>4 DEF PassPublishes, Next, PublisherStep
<1>5. CASE DispatcherStarts \/ DispatcherLeaves
  BY <1>5 DEF DispatcherStarts, DispatcherLeaves, Next, ListenerStep
<1>6. ASSUME NEW r \in Requests, RequestStep(r)
      PROVE  [Next]_vars
  BY <1>6 DEF RequestStep, Accept, RequestPublishes, RequestAnswered, Next, PublisherStep
<1>7. ASSUME NEW l \in Streams, StreamStep(l)
      PROVE  [Next]_vars
  BY <1>7 DEF StreamStep, Accept, StreamSubscribes, StreamLeaves, StreamCloses, Next, ListenerStep
<1>8. ASSUME NEW w \in Tickers, TickerStep(w)
      PROVE  UNCHANGED vars
  BY <1>8 DEF TickerStep, Panic, RunStarts, PassStarts, PassEnds, RunReturns
<1>9. CASE Boot \/ BootFails \/ Listen \/ ListenFails \/ Signal \/ MainStep \/ Deadline
  BY <1>9 DEF Boot, BootFails, Listen, ListenFails, Signal, MainStep, Shutdown, Poll, PollAgain,
              MainReturns, Deadline
<1> QED
  BY <1>1, <1>2, <1>3, <1>4, <1>5, <1>6, <1>7, <1>8, <1>9 DEF ServerNext

(* The process, with its signals, panics and shutdown, is one of the       *)
(* behaviours Hub allows: every theorem about Hub is one about the server. *)
THEOREM ProcessImplementsHub == ServerSpec => Spec
<1>1. ServerInit => Init
  BY DEF ServerInit
<1>2. [ServerNext]_serverVars => [Next]_vars
  BY HubStep DEF serverVars, vars
<1> QED
  BY <1>1, <1>2, PTL DEF ServerSpec, Spec

-----------------------------------------------------------------------------
(* The inductive invariant                                                 *)

(* A connection that has not come to its call, or is over, is outside the  *)
(* hub.                                                                    *)
ConnInv ==
  /\ \A r \in Requests : conn[r] \in {"none", "handling"} => pc[r] = "idle"
  /\ \A l \in Streams : conn[l] \in {"none", "handling"} => pc[l] = "gone"

(* main listens only while it serves; once the poll of Shutdown has found  *)
(* no connection there is none again.                                      *)
MainInv ==
  /\ main = "boot" => listener = "new"
  /\ main \in {"poll", "wait", "closing", "stopped"} => listener = "closed"
  /\ main \in {"closing", "stopped"} => \A x \in Clients : conn[x] = "none"

SInv == ServerTypeOK /\ ConnInv /\ MainInv /\ NoGoroutineMissing

LEMMA InitSInv == ServerInit => SInv
<1> SUFFICES ASSUME ServerInit PROVE SInv
  OBVIOUS
<1> USE PartsAssumption DEF ServerInit
<1>1. ServerTypeOK
  BY DEF ServerTypeOK
<1>2. ConnInv
  BY ConstantsAssumption DEF ConnInv, Clients, Init, Actors
<1>3. MainInv /\ NoGoroutineMissing
  BY DEF MainInv, NoGoroutineMissing
<1> QED
  BY <1>1, <1>2, <1>3 DEF SInv

(* Steps of main, of its listener and of a signal.                         *)
LEMMA MainSInv ==
  ASSUME SInv,
         Boot \/ BootFails \/ Listen \/ ListenFails \/ Signal \/ MainStep \/ Deadline
  PROVE  SInv'
<1> USE DEF SInv
<1>1. UNCHANGED <<pc, conn, env>>
  BY DEF Boot, BootFails, Listen, ListenFails, Signal, MainStep, Shutdown, Poll, PollAgain,
         MainReturns, Deadline, vars
<1>2. ServerTypeOK'
  BY DEF Boot, BootFails, Listen, ListenFails, Signal, MainStep, Shutdown, Poll, PollAgain,
         MainReturns, Deadline, ServerTypeOK
<1>3. ConnInv'
  BY <1>1 DEF ConnInv
<1>4. MainInv'
  BY DEF Boot, BootFails, Listen, ListenFails, Signal, MainStep, Shutdown, Poll, PollAgain,
         MainReturns, Deadline, MainInv, Alive
<1>5. NoGoroutineMissing'
  <2>1. CASE Boot
    BY <1>1, <2>1 DEF Boot, NoGoroutineMissing, Started
  <2>2. CASE BootFails \/ Listen \/ ListenFails \/ Signal \/ MainStep \/ Deadline
    BY <1>1, <2>2 DEF BootFails, Listen, ListenFails, Signal, MainStep, Shutdown, Poll,
         PollAgain, MainReturns, Deadline, NoGoroutineMissing, Started, Alive
  <2> QED
    BY <2>1, <2>2
<1> QED
  BY <1>2, <1>3, <1>4, <1>5

(* Steps of the background goroutines.                                     *)
LEMMA BackgroundSInv ==
  ASSUME SInv, IInv,
         \/ \E w \in Tickers : TickerStep(w)
         \/ \E w \in Passes : PassPublishes(w)
         \/ DispatcherStarts \/ DispatcherLeaves
  PROVE  SInv'
<1> USE PartsAssumption DEF SInv
<1>1. UNCHANGED <<conn, env, listener, cancelled>>
  BY DEF TickerStep, Panic, RunStarts, PassStarts, PassEnds, RunReturns, PassPublishes,
         DispatcherStarts, DispatcherLeaves, process
<1>2. \A x \in Requests \cup Streams : pc'[x] = pc[x]
  BY DEF TickerStep, Panic, RunStarts, PassStarts, PassEnds, RunReturns, PassPublishes,
         DispatcherStarts, DispatcherLeaves, process, vars, PublishCall, SubscribeMake, Leave, At,
         IInv, PcInv, Actors
<1>3. ConnInv'
  BY <1>1, <1>2 DEF ConnInv
<1>4. MainInv'
  BY <1>1 DEF TickerStep, Panic, RunStarts, PassStarts, PassEnds, RunReturns, PassPublishes,
         DispatcherStarts, DispatcherLeaves, process, MainInv
<1>5. /\ ServerTypeOK'
      /\ NoGoroutineMissing'
  <2>1. ASSUME NEW w \in Tickers, TickerStep(w)
        PROVE  ServerTypeOK' /\ NoGoroutineMissing'
    <3>1. CASE Panic(w)
      BY <3>1 DEF Panic, ServerTypeOK, NoGoroutineMissing, Alive
    <3>2. CASE RunStarts(w)
      BY <3>2 DEF RunStarts, GoTo, ServerTypeOK, NoGoroutineMissing, Alive, Started, Background
    <3>3. CASE PassStarts(w)
      BY <3>3 DEF PassStarts, GoTo, ServerTypeOK, NoGoroutineMissing, Alive, Started, Background
    <3>4. CASE PassEnds(w)
      BY <3>4 DEF PassEnds, GoTo, ServerTypeOK, NoGoroutineMissing, Alive, Started, Background
    <3>5. CASE RunReturns(w)
      BY <3>5 DEF RunReturns, GoTo, ServerTypeOK, NoGoroutineMissing, Alive, Started, Background
    <3> QED
      BY <2>1, <3>1, <3>2, <3>3, <3>4, <3>5 DEF TickerStep
  <2>2. ASSUME NEW w \in Passes, PassPublishes(w)
        PROVE  ServerTypeOK' /\ NoGoroutineMissing'
    BY <2>2 DEF PassPublishes, process, ServerTypeOK, NoGoroutineMissing, Alive, Started
  <2>3. CASE DispatcherStarts
    BY <2>3 DEF DispatcherStarts, GoTo, ServerTypeOK, NoGoroutineMissing, Alive, Started, Background
  <2>4. CASE DispatcherLeaves
    BY <2>4 DEF DispatcherLeaves, GoTo, ServerTypeOK, NoGoroutineMissing, Alive, Started, Background
  <2> QED
    BY <2>1, <2>2, <2>3, <2>4
<1> QED
  BY <1>3, <1>4, <1>5

(* Steps of the connections, and those inside the hub.                     *)
LEMMA ConnectionSInv ==
  ASSUME SInv, IInv,
         \/ \E r \in Requests : RequestStep(r)
         \/ \E l \in Streams : StreamStep(l)
         \/ \E p \in Publishers : Locks(p)
         \/ Sends
         \/ \E l \in Listeners : Listens(l)
  PROVE  SInv'
<1> USE PartsAssumption DEF SInv
<1>1. UNCHANGED <<env, main, cancelled, listener, loop>> /\ Alive
  BY DEF RequestStep, StreamStep, Accept, RequestPublishes, RequestAnswered, StreamSubscribes,
         StreamLeaves, StreamCloses, Locks, Sends, Listens, process
<1>2. NoGoroutineMissing'
  BY <1>1 DEF NoGoroutineMissing, Alive, Started
<1>3. ASSUME NEW x \in Clients, Accept(x)
      PROVE  ServerTypeOK' /\ ConnInv' /\ MainInv'
  <2>1. listener = "open" /\ conn' = [conn EXCEPT ![x] = "handling"] /\ pc' = pc
    BY <1>3 DEF Accept, Becomes, vars
  <2> QED
    BY <1>1, <1>3, <2>1 DEF Accept, ServerTypeOK, ConnInv, MainInv, Clients
<1>4. ASSUME NEW r \in Requests, RequestStep(r)
      PROVE  ServerTypeOK' /\ ConnInv' /\ MainInv'
  <2>1. CASE RequestPublishes(r)
    <3>1. /\ conn' = [conn EXCEPT ![r] = "ending"] /\ conn[r] = "handling"
          /\ \A x \in Clients : x # r => pc'[x] = pc[x]
      BY <2>1 DEF RequestPublishes, PublishCall, At, Becomes, IInv, PcInv, Actors, Clients
    <3>2. \A x \in Clients : conn'[x] \in {"none", "handling"} => conn[x] = conn'[x] /\ x # r
      BY <3>1 DEF ServerTypeOK
    <3>3. ServerTypeOK'
      BY <1>1, <3>1 DEF ServerTypeOK, Clients
    <3>4. ConnInv'
      BY <3>1, <3>2 DEF ConnInv, Clients
    <3>5. MainInv'
      BY <1>1, <3>1 DEF MainInv, Clients
    <3> QED
      BY <3>3, <3>4, <3>5
  <2>2. CASE RequestAnswered(r)
    <3>1. /\ conn' = [conn EXCEPT ![r] = "none"] /\ conn[r] # "none"
          /\ pc[r] = "idle" /\ pc' = pc
      BY <2>2 DEF RequestAnswered, Becomes, vars
    <3>2. \A x \in Clients : x # r => conn'[x] = conn[x]
      BY <3>1 DEF ServerTypeOK
    <3>3. ServerTypeOK'
      BY <1>1, <3>1 DEF ServerTypeOK, Clients
    <3>4. ConnInv'
      BY ConstantsAssumption, <3>1, <3>2 DEF ConnInv, Clients
    <3>5. MainInv'
      BY <1>1, <3>1 DEF MainInv, Clients
    <3> QED
      BY <3>3, <3>4, <3>5
  <2> QED
    BY <1>3, <1>4, <2>1, <2>2 DEF RequestStep, Clients
<1>5. ASSUME NEW l \in Streams, StreamStep(l)
      PROVE  ServerTypeOK' /\ ConnInv' /\ MainInv'
  <2>1. CASE StreamSubscribes(l)
    <3>1. /\ conn' = [conn EXCEPT ![l] = "ending"] /\ conn[l] = "handling"
          /\ \A x \in Clients : x # l => pc'[x] = pc[x]
      BY <2>1 DEF StreamSubscribes, SubscribeMake, At, Becomes, IInv, PcInv, Actors, Clients
    <3>2. \A x \in Clients : conn'[x] \in {"none", "handling"} => conn[x] = conn'[x] /\ x # l
      BY <3>1 DEF ServerTypeOK
    <3>3. ServerTypeOK'
      BY <1>1, <3>1 DEF ServerTypeOK, Clients
    <3>4. ConnInv'
      BY <3>1, <3>2 DEF ConnInv, Clients
    <3>5. MainInv'
      BY <1>1, <3>1 DEF MainInv, Clients
    <3> QED
      BY <3>3, <3>4, <3>5
  <2>2. CASE StreamLeaves(l)
    BY <1>1, <2>2 DEF StreamLeaves, Leave, At, process, ServerTypeOK, ConnInv, MainInv,
         IInv, PcInv, Actors
  <2>3. CASE StreamCloses(l)
    <3>1. /\ conn' = [conn EXCEPT ![l] = "none"] /\ conn[l] = "ending"
          /\ pc[l] = "gone" /\ pc' = pc
      BY <2>3 DEF StreamCloses, Becomes, vars
    <3>2. \A x \in Clients : x # l => conn'[x] = conn[x]
      BY <3>1 DEF ServerTypeOK
    <3>3. ServerTypeOK'
      BY <1>1, <3>1 DEF ServerTypeOK, Clients
    <3>4. ConnInv'
      BY ConstantsAssumption, <3>1, <3>2 DEF ConnInv, Clients
    <3>5. MainInv'
      BY <1>1, <3>1 DEF MainInv, Clients
    <3> QED
      BY <3>3, <3>4, <3>5
  <2> QED
    BY <1>3, <1>5, <2>1, <2>2, <2>3 DEF StreamStep, Clients
<1>6. ASSUME (\E p \in Publishers : Locks(p)) \/ Sends \/ (\E l \in Listeners : Listens(l))
      PROVE  ServerTypeOK' /\ ConnInv' /\ MainInv'
  <2>1. conn' = conn
    BY <1>6 DEF Locks, Sends, Listens, process
  <2>2. /\ \A r \in Requests : pc[r] = "idle" => pc'[r] = "idle"
        /\ \A l \in Streams : pc[l] = "gone" => pc'[l] = "gone"
    BY <1>6 DEF Locks, Sends, Listens, PublishLock, Send, PublishUnlock, SubscribeRegister,
         Receive, Unsubscribe, At, IInv, PcInv, Actors
  <2> QED
    BY <1>1, <2>1, <2>2 DEF ServerTypeOK, ConnInv, MainInv
<1> QED
  BY <1>2, <1>4, <1>5, <1>6

LEMMA ServerInvariance == ServerSpec => []SInv
<1>1. SInv /\ IInv /\ [ServerNext]_serverVars => SInv'
  <2>1. ASSUME SInv, UNCHANGED serverVars PROVE SInv'
    BY <2>1 DEF serverVars, SInv, ServerTypeOK, ConnInv, MainInv, NoGoroutineMissing, Started, Alive
  <2> QED
    BY <2>1, MainSInv, BackgroundSInv, ConnectionSInv DEF ServerNext
<1>2. ServerSpec => []IInv
  BY ProcessImplementsHub, Invariance, PTL
<1> QED
  BY <1>1, <1>2, InitSInv, PTL DEF ServerSpec

-----------------------------------------------------------------------------
(* What follows                                                            *)

(* Type correctness of the process.                                        *)
THEOREM ServerTypeCorrect == ServerSpec => []ServerTypeOK
<1>1. SInv => ServerTypeOK
  BY DEF SInv
<1> QED
  BY <1>1, ServerInvariance, PTL

(* However many connections there are when the signal comes, a shutdown    *)
(* that is not forced ends with none of them cut off.                      *)
THEOREM GracefulEnd == ServerSpec => []GracefulIsDrained
<1>1. SInv /\ IInv => GracefulIsDrained
  <2>1. SUFFICES ASSUME SInv, IInv, main \in {"closing", "stopped"}
                 PROVE  /\ \A x \in Clients : conn[x] = "none"
                        /\ \A r \in Requests : pc[r] = "idle" /\ mu # r
                        /\ subs \subseteq {Dispatcher}
    BY DEF GracefulIsDrained
  <2>2. \A x \in Clients : conn[x] = "none"
    BY <2>1 DEF SInv, MainInv
  <2>3. /\ \A r \in Requests : pc[r] = "idle"
        /\ \A l \in Streams : pc[l] = "gone"
    BY <2>1, <2>2 DEF SInv, ConnInv, Clients
  <2>4. \A r \in Requests : mu # r
    BY <2>1, <2>3, PartsAssumption DEF IInv, LockInv
  <2>5. subs \subseteq {Dispatcher}
    BY <2>1, <2>3, PartsAssumption DEF IInv, SubsInv
  <2> QED
    BY <2>2, <2>3, <2>4, <2>5
<1> QED
  BY <1>1, ServerInvariance, ProcessImplementsHub, Invariance, PTL

(* No setting makes a server that lives without one of its goroutines.     *)
THEOREM AllGoroutinesLive == ServerSpec => []NoGoroutineMissing
<1>1. SInv => NoGoroutineMissing
  BY DEF SInv
<1> QED
  BY <1>1, ServerInvariance, PTL

(* A mutex and channels that live in a process that is signalled, panics   *)
(* or drains are as safe as the hub alone.                                 *)
THEOREM ServerNeverSendsOnClosed == ServerSpec => []NeverSendsOnClosed
  BY ProcessImplementsHub, NoSendOnClosed, PTL

(* Every listener of the process, the dispatcher and the streams alike,    *)
(* receives events in publication order, also while it shuts down.         *)
THEOREM ServerKeepsOrder == ServerSpec => []InPublicationOrder
  BY ProcessImplementsHub, OrderKept, PTL

(* So are they promised every event they have room for, while requests     *)
(* come and go, goroutines panic and the process drains.                   *)
THEOREM ServerBroadcasts == ServerSpec => ImplementsBroadcast
  BY ProcessImplementsHub, BroadcastImplemented

-----------------------------------------------------------------------------
(* The process implements Service                                          *)

(* Steps that neither end nor open a connection, nor move main.            *)
Quiet ==
  \/ Listen \/ Signal \/ PollAgain
  \/ \E w \in Tickers : RunStarts(w) \/ PassStarts(w) \/ PassEnds(w) \/ RunReturns(w)
  \/ \E w \in Passes : PassPublishes(w)
  \/ DispatcherStarts \/ DispatcherLeaves
  \/ \E l \in Streams : StreamLeaves(l)
  \/ (\E p \in Publishers : Locks(p)) \/ Sends \/ (\E l \in Listeners : Listens(l))

LEMMA QuietUnseen == Quiet => UNCHANGED <<Phase, conn>>
<1>1. Quiet => conn' = conn /\ (main' = main \/ PollAgain)
  BY DEF Quiet, Listen, Signal, PollAgain, RunStarts, PassStarts, PassEnds, RunReturns,
         PassPublishes, DispatcherStarts, DispatcherLeaves, StreamLeaves, Locks, Sends, Listens,
         process
<1>2. main' = main \/ PollAgain => Phase' = Phase
  BY DEF PollAgain, Phase
<1> QED
  BY <1>1, <1>2

(* Steps of main, and the deaths of the process.                           *)
LEMMA MainSeen ==
  ASSUME SInv,
         \/ Boot \/ Shutdown \/ Poll \/ MainReturns
         \/ BootFails \/ ListenFails \/ Deadline \/ \E w \in Tickers : Panic(w)
  PROVE  [Seen!Next]_<<Phase, {x \in Clients : conn[x] # "none"}>>
<1>1. UNCHANGED conn /\ main \notin {"stopped", "dead"}
  BY DEF Boot, Shutdown, Poll, MainReturns, BootFails, ListenFails, Deadline, Panic, Alive
<1>2. CASE BootFails \/ ListenFails \/ Deadline \/ \E w \in Tickers : Panic(w)
  <2>1. main' = "dead"
    BY <1>2 DEF BootFails, ListenFails, Deadline, Panic
  <2>2. Phase \notin {"stopped", "dead"} /\ Phase' = "dead"
    BY <1>1, <2>1 DEF Phase, SInv, ServerTypeOK
  <2>3. Seen!Die
    BY <1>1, <2>2 DEF Seen!Die, Seen!Alive, Seen!Moves
  <2> QED
    BY <2>3 DEF Seen!Next
<1>3. CASE Boot \/ Shutdown
  <2>1. Seen!Moves("starting", "up") \/ Seen!Moves("up", "draining")
    BY <1>1, <1>3 DEF Boot, Shutdown, Phase, Seen!Moves
  <2> QED
    BY <2>1 DEF Seen!Next
<1>4. CASE Poll
  BY <1>1, <1>4 DEF Poll, Phase
<1>5. CASE MainReturns
  <2>1. main = "closing" /\ main' = "stopped"
    BY <1>5 DEF MainReturns
  <2>2. {x \in Clients : conn[x] # "none"} = {}
    BY <2>1 DEF SInv, MainInv
  <2>3. Seen!Stop
    BY <1>1, <2>1, <2>2 DEF Phase, Seen!Stop, Seen!Moves
  <2> QED
    BY <2>3 DEF Seen!Next
<1> QED
  BY <1>2, <1>3, <1>4, <1>5

(* Steps of a connection: it begins only while main serves.                *)
LEMMA ConnectionSeen ==
  ASSUME SInv, NEW x \in Clients,
         \/ Accept(x)
         \/ x \in Requests /\ (RequestPublishes(x) \/ RequestAnswered(x))
         \/ x \in Streams /\ (StreamSubscribes(x) \/ StreamCloses(x))
  PROVE  [Seen!Next]_<<Phase, {c \in Clients : conn[c] # "none"}>>
<1> DEFINE S == {c \in Clients : conn[c] # "none"}
<1>1. /\ Alive /\ main' = main /\ DOMAIN conn = Clients
      /\ \E to \in {"none", "handling", "ending"} : conn' = [conn EXCEPT ![x] = to]
  BY DEF Accept, RequestPublishes, RequestAnswered, StreamSubscribes, StreamCloses, Becomes, SInv,
         ServerTypeOK
<1>2. UNCHANGED Phase /\ Phase \notin {"stopped", "dead"}
  BY <1>1 DEF Phase, Alive, SInv, ServerTypeOK
<1>3. CASE Accept(x)
  <2>1. x \notin S /\ S' = S \cup {x}
    BY <1>1, <1>3 DEF Accept, Becomes
  <2>2. Phase = "up"
    BY <1>3 DEF Accept, Alive, SInv, MainInv, ServerTypeOK, Phase
  <2>3. Seen!Accept(x)
    BY <1>2, <2>1, <2>2 DEF Seen!Accept
  <2> QED
    BY <2>3 DEF Seen!Next
<1>4. CASE RequestAnswered(x) \/ StreamCloses(x)
  <2>1. x \in S /\ S' = S \ {x}
    BY <1>1, <1>4 DEF RequestAnswered, StreamCloses, Becomes
  <2>2. Seen!Finish(x)
    BY <1>2, <2>1 DEF Seen!Finish, Seen!Alive
  <2> QED
    BY <2>2 DEF Seen!Next
<1>5. CASE RequestPublishes(x) \/ StreamSubscribes(x)
  <2>1. S' = S
    BY <1>1, <1>5 DEF RequestPublishes, StreamSubscribes, Becomes
  <2> QED
    BY <1>2, <2>1
<1> QED
  BY <1>3, <1>4, <1>5

(* Seen from its clients the process implements Service, for any number of *)
(* connections and background passes and in every environment: main.go     *)
(* takes nobody in once it drains and stops only when it serves nobody.    *)
THEOREM ServiceImplemented == ServerSpec => ImplementsService
<1> DEFINE seen == <<Phase, {x \in Clients : conn[x] # "none"}>>
<1>1. ServerInit => Seen!Init
  BY DEF ServerInit, Phase, Seen!Init
<1>2. SInv /\ [ServerNext]_serverVars => [Seen!Next]_seen
  <2>1. SUFFICES ASSUME SInv, ServerNext PROVE [Seen!Next]_seen
    BY DEF serverVars, Phase
  <2>2. CASE Quiet
    BY <2>2, QuietUnseen
  <2>3. CASE \/ Boot \/ Shutdown \/ Poll \/ MainReturns
             \/ BootFails \/ ListenFails \/ Deadline \/ \E w \in Tickers : Panic(w)
    BY <2>1, <2>3, MainSeen
  <2>4. CASE \/ \E r \in Requests : RequestStep(r)
             \/ \E l \in Streams : Accept(l) \/ StreamSubscribes(l) \/ StreamCloses(l)
    BY <2>1, <2>4, ConnectionSeen DEF RequestStep, Clients
  <2> QED
    BY <2>1, <2>2, <2>3, <2>4 DEF ServerNext, Quiet, MainStep, TickerStep, StreamStep
<1> QED
  BY <1>1, <1>2, ServerInvariance, PTL DEF ServerSpec, ImplementsService, Seen!Spec

-----------------------------------------------------------------------------
(* Settings that overflow                                                  *)

Seconds(w) == getEnvInt(env.seconds[w], Fallback[w])

LEMMA Remainder ==
  ASSUME NEW m \in Nat, m > 0, NEW x \in Int
  PROVE  /\ 0 <= x /\ x < m => x % m = x
         /\ m <= x /\ x < m + m => x % m = x - m
  OBVIOUS

(* What time.Duration(n) * time.Second is: the interval asked for if it    *)
(* fits, negative for the products beyond, up to twice the range.          *)
LEMMA IntervalIs ==
  ASSUME NEW w \in Tickers
  PROVE  /\ Seconds(w) * Second \in 0..(Word - 1) => Interval(w) = Seconds(w) * Second
         /\ Seconds(w) * Second \in Word..(2 * Word - 1) => Interval(w) < 0
<1> DEFINE n == Seconds(w) * Second
<1>1. Word \in Nat /\ n \in Int
  BY SettingsAssumption DEF Seconds, getEnvInt
<1>2. Interval(w) = ((n + Word) % (2 * Word)) - Word
  BY DEF Interval, Wrap, Seconds
<1> HIDE DEF n
<1>3. ASSUME n \in 0..(Word - 1) PROVE Interval(w) = n
  <2>1. (n + Word) % (2 * Word) = n + Word
    BY <1>1, <1>3, Remainder
  <2> QED
    BY <1>1, <1>2, <1>3, <2>1
<1>4. ASSUME n \in Word..(2 * Word - 1) PROVE Interval(w) < 0
  <2>1. (n + Word) % (2 * Word) = n - Word
    BY <1>1, <1>4, Remainder
  <2> QED
    BY <1>1, <1>2, <1>4, <2>1
<1> QED
  BY <1>3, <1>4 DEF n

(* No goroutine gets past NewTicker with an interval that is not positive. *)
TickerInv == \A w \in Tickers : loop[w] \in {"select", "pass", "ended"} => Interval(w) > 0

LEMMA TickersTick == ServerSpec => []TickerInv
<1>1. ServerInit => TickerInv
  BY DEF ServerInit, TickerInv, Background
<1>2. ASSUME SInv, TickerInv, [ServerNext]_serverVars PROVE TickerInv'
  <2>1. env' = env /\ \A w \in Tickers : Interval(w)' = Interval(w)
    BY <1>2 DEF ServerNext, serverVars, Boot, BootFails, Listen, ListenFails, TickerStep, Panic,
       RunStarts, PassStarts, PassEnds, RunReturns, PassPublishes, DispatcherStarts,
       DispatcherLeaves, RequestStep, StreamStep, Accept, RequestPublishes, RequestAnswered,
       StreamSubscribes, StreamLeaves, StreamCloses, Locks, Sends, Listens, Signal, MainStep,
       Shutdown, Poll, PollAgain, MainReturns, Deadline, process, Interval
  <2>2. CASE Boot
    BY <2>2 DEF Boot, TickerInv, Background
  <2>3. CASE \E w \in Tickers : TickerStep(w)
    <3>1. PICK w \in Tickers : TickerStep(w)
      BY <2>3
    <3>2. \A v \in Tickers : loop'[v] = loop[v] \/ (v = w /\ Interval(w) > 0)
                                             \/ (v = w /\ loop[w] \in {"select", "pass"})
      BY <1>2, <3>1 DEF TickerStep, Panic, RunStarts, PassStarts, PassEnds, RunReturns, GoTo,
         SInv, ServerTypeOK, Background
    <3> QED
      BY <1>2, <2>1, <3>2 DEF TickerInv
  <2>4. CASE DispatcherStarts \/ DispatcherLeaves
    <3>1. \A w \in Tickers : loop'[w] = loop[w] \/ w = Dispatcher
      BY <1>2, <2>4 DEF DispatcherStarts, DispatcherLeaves, GoTo, SInv, ServerTypeOK, Background
    <3>2. Dispatcher \notin Tickers
      BY PartsAssumption, ConstantsAssumption DEF Tickers, Actors
    <3> QED
      BY <1>2, <2>1, <3>1, <3>2 DEF TickerInv
  <2>5. CASE loop' = loop
    BY <1>2, <2>1, <2>5 DEF TickerInv
  <2> QED
    BY <1>2, <2>2, <2>3, <2>4, <2>5 DEF ServerNext, serverVars, BootFails, Listen, ListenFails,
       PassPublishes, RequestStep, StreamStep, Accept, RequestPublishes, RequestAnswered,
       StreamSubscribes, StreamLeaves, StreamCloses, Locks, Sends, Listens, Signal, MainStep,
       Shutdown, Poll, PollAgain, MainReturns, Deadline, process
<1> QED
  BY <1>1, <1>2, ServerInvariance, PTL DEF ServerSpec

(* config.go asks no range of an interval.  One whose product with         *)
(* time.Second overflows once never makes a pass: a server that was asked  *)
(* to sweep every few centuries dies at start, it does not sweep too often. *)
THEOREM OverflowMakesNoPass ==
  ServerSpec => [](\A w \in Tickers :
                     Seconds(w) * Second \in Word..(2 * Word - 1)
                       => loop[w] \notin {"select", "pass", "ended"})
<1>1. TickerInv => \A w \in Tickers :
                     Seconds(w) * Second \in Word..(2 * Word - 1)
                       => loop[w] \notin {"select", "pass", "ended"}
  <2>1. \A w \in Tickers : Interval(w) \in Int
    BY SettingsAssumption DEF Interval, Wrap, getEnvInt
  <2> QED
    BY <2>1, IntervalIs DEF TickerInv
<1> QED
  BY <1>1, TickersTick, PTL
=============================================================================
