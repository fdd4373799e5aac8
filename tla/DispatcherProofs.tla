-------------------------- MODULE DispatcherProofs --------------------------
(***************************************************************************)
(* Proofs about Dispatcher, for every rate limit, every window and every   *)
(* buffer size.                                                            *)
(***************************************************************************)
EXTENDS Dispatcher, SequenceTheorems, TLAPS

-----------------------------------------------------------------------------
(* The inductive invariant                                                 *)

(* TypeOK, and that the limit is one a configuration may set.              *)
Typed ==
  /\ limit \in Limits /\ now \in Time /\ fresh \in 0..MaxPerTick
  /\ queue \in Seq(EventTypes) /\ Len(queue) <= Cap
  /\ posting \in AlertTypes \cup {Nil}
  /\ windowStart \in Time \cup {ZeroTime}
  /\ windowCount \in Nat
  /\ sent \in Seq(Time)

(* Where an alert is in the history s says when it was sent: the last c    *)
(* belong to the window that started at start and the first of them        *)
(* started it; those before are older than the window, and all but the     *)
(* limit - 1 last of those older by a whole Window.                        *)
Windows(s, start, c) ==
  /\ c <= limit /\ c <= Len(s)
  /\ c = 0 => s = <<>>
  /\ \A i \in DOMAIN s :
       /\ i > Len(s) - c => start <= s[i] /\ s[i] < start + Window
       /\ i = Len(s) - c + 1 => s[i] = start
       /\ i <= Len(s) - c => s[i] < start
       /\ i <= Len(s) - c - limit + 1 => s[i] + Window <= start

(* RollingBound of a history s.                                            *)
Apart(s) == \A i, j \in DOMAIN s : j = i + 2 * limit - 1 => s[j] - s[i] >= Window

Limited ==
  limit > 0 =>
    /\ windowStart <= now
    /\ windowCount = 0 => windowStart + Window <= now
    /\ Windows(sent, windowStart, windowCount)
    /\ \A i \in DOMAIN sent : sent[i] <= now
    /\ Apart(sent)

IInv == Typed /\ Limited

-----------------------------------------------------------------------------
(* The history                                                             *)

(* What one more alert does to a sequence of times.                        *)
LEMMA SentAppend ==
  ASSUME NEW s \in Seq(Time), NEW t \in Time, NEW u, u = Append(s, t)
  PROVE  /\ u \in Seq(Time) /\ Len(s) \in Nat /\ Len(u) = Len(s) + 1
         /\ DOMAIN s = 1..Len(s) /\ DOMAIN u = 1..(Len(s) + 1)
         /\ \A i \in DOMAIN s : u[i] = s[i] /\ s[i] \in Time
         /\ u[Len(s) + 1] = t
<1>1. /\ u \in Seq(Time) /\ Len(u) = Len(s) + 1 /\ u[Len(s) + 1] = t
      /\ \A i \in 1..Len(s) : u[i] = s[i]
  BY AppendProperties
<1>2. Len(s) \in Nat /\ DOMAIN s = 1..Len(s) /\ DOMAIN u = 1..Len(u)
  BY <1>1
<1>3. \A i \in 1..Len(s) : s[i] \in Time
  BY ElementOfSeq
<1> QED
  BY <1>1, <1>2, <1>3

(* An alert sent while the window lasts and has room.                      *)
LEMMA SameWindow ==
  ASSUME limit \in Nat \ {0}, MaxTime \in Nat, Window \in Nat \ {0},
         NEW s \in Seq(Time), NEW start \in Int, NEW c \in Nat, NEW t \in Time,
         NEW u, u = Append(s, t),
         Windows(s, start, c), Apart(s),
         start <= t, t < start + Window, 0 < c, c < limit
  PROVE  Windows(u, start, c + 1) /\ Apart(u)
<1>1. /\ Len(s) \in Nat /\ Len(u) = Len(s) + 1
      /\ DOMAIN s = 1..Len(s) /\ DOMAIN u = 1..(Len(s) + 1)
      /\ \A i \in DOMAIN s : u[i] = s[i] /\ s[i] \in Int
      /\ u[Len(s) + 1] = t /\ t \in Int
  BY SentAppend DEF Time
<1>2. Windows(u, start, c + 1)
  <2>1. c + 1 <= limit /\ c + 1 <= Len(u) /\ c + 1 # 0
    BY <1>1 DEF Windows
  <2>2. ASSUME NEW i \in DOMAIN u
        PROVE  /\ i > Len(u) - (c + 1) => start <= u[i] /\ u[i] < start + Window
               /\ i = Len(u) - (c + 1) + 1 => u[i] = start
               /\ i <= Len(u) - (c + 1) => u[i] < start
               /\ i <= Len(u) - (c + 1) - limit + 1 => u[i] + Window <= start
    <3>1. CASE i \in DOMAIN s
      BY <1>1, <3>1 DEF Windows
    <3>2. CASE i = Len(s) + 1
      BY <1>1, <3>2
    <3> QED
      BY <1>1, <3>1, <3>2
  <2> QED
    BY <2>1, <2>2 DEF Windows
<1>3. ASSUME NEW i \in DOMAIN u, NEW j \in DOMAIN u, j = i + 2 * limit - 1
      PROVE  u[j] - u[i] >= Window
  <2>1. i \in Int /\ j \in Int /\ i < j /\ i \in DOMAIN s
    BY <1>1, <1>3
  <2>2. CASE j \in DOMAIN s
    BY <1>1, <1>3, <2>1, <2>2 DEF Apart
  <2>3. CASE j = Len(s) + 1
    <3>1. i <= Len(s) - c - limit + 1
      BY <1>1, <1>3, <2>1, <2>3
    <3>2. s[i] + Window <= start
      BY <2>1, <3>1 DEF Windows
    <3> QED
      BY <1>1, <2>1, <2>3, <3>2
  <2> QED
    BY <1>1, <2>2, <2>3
<1> QED
  BY <1>2, <1>3 DEF Apart

(* An alert that starts a new window.                                      *)
LEMMA NewWindow ==
  ASSUME limit \in Nat \ {0}, MaxTime \in Nat, Window \in Nat \ {0},
         NEW s \in Seq(Time), NEW start \in Int, NEW c \in Nat, NEW t \in Time,
         NEW u, u = Append(s, t),
         Windows(s, start, c), Apart(s), start + Window <= t
  PROVE  Windows(u, t, 1) /\ Apart(u)
<1>1. /\ Len(s) \in Nat /\ Len(u) = Len(s) + 1
      /\ DOMAIN s = 1..Len(s) /\ DOMAIN u = 1..(Len(s) + 1)
      /\ \A i \in DOMAIN s : u[i] = s[i] /\ s[i] \in Int
      /\ u[Len(s) + 1] = t /\ t \in Int
  BY SentAppend DEF Time
<1>2. \A i \in DOMAIN s : s[i] < t
  BY <1>1 DEF Windows
<1>3. \A i \in DOMAIN s : i <= Len(s) - limit + 1 => s[i] + Window <= t
  <2>1. SUFFICES ASSUME NEW i \in DOMAIN s, i <= Len(s) - limit + 1
                 PROVE  s[i] + Window <= t
    OBVIOUS
  <2>2. c # 0 /\ c <= limit
    BY <1>1, <2>1 DEF Windows
  <2>3. CASE i = Len(s) - c + 1
    BY <1>1, <2>3 DEF Windows
  <2>4. CASE i <= Len(s) - c
    BY <1>1, <2>4 DEF Windows
  <2>5. i = Len(s) - c + 1 \/ i <= Len(s) - c
    <3>1. i \in Int /\ limit \in Int /\ Len(s) \in Int
      BY <1>1
    <3> QED
      BY <2>1, <2>2, <3>1
  <2> QED
    BY <2>3, <2>4, <2>5
<1>4. Windows(u, t, 1)
  <2>1. 1 <= limit /\ 1 <= Len(u)
    BY <1>1
  <2>2. ASSUME NEW i \in DOMAIN u
        PROVE  /\ i > Len(u) - 1 => t <= u[i] /\ u[i] < t + Window
               /\ i = Len(u) - 1 + 1 => u[i] = t
               /\ i <= Len(u) - 1 => u[i] < t
               /\ i <= Len(u) - 1 - limit + 1 => u[i] + Window <= t
    <3>1. CASE i \in DOMAIN s
      BY <1>1, <1>2, <1>3, <3>1
    <3>2. CASE i = Len(s) + 1
      BY <1>1, <3>2
    <3> QED
      BY <1>1, <3>1, <3>2
  <2> QED
    BY <2>1, <2>2 DEF Windows
<1>5. ASSUME NEW i \in DOMAIN u, NEW j \in DOMAIN u, j = i + 2 * limit - 1
      PROVE  u[j] - u[i] >= Window
  <2>1. i \in Int /\ j \in Int /\ i < j /\ i \in DOMAIN s
    BY <1>1, <1>5
  <2>2. CASE j \in DOMAIN s
    BY <1>1, <1>5, <2>1, <2>2 DEF Apart
  <2>3. CASE j = Len(s) + 1
    BY <1>1, <1>3, <1>5, <2>1, <2>3
  <2> QED
    BY <1>1, <2>2, <2>3
<1> QED
  BY <1>4, <1>5 DEF Apart

-----------------------------------------------------------------------------
(* Type correctness                                                        *)

LEMMA QueueTail ==
  ASSUME Typed, queue # <<>>
  PROVE  /\ Tail(queue) \in Seq(EventTypes) /\ Len(Tail(queue)) <= Cap
         /\ Head(queue) \in EventTypes
<1>1. queue \in Seq(EventTypes) /\ Len(queue) \in Nat
  BY DEF Typed
<1> QED
  BY <1>1, HeadTailProperties, ConstantsAssumption DEF Typed

LEMMA InitTyped == Init => Typed
<1> SUFFICES ASSUME Init PROVE Typed
  OBVIOUS
<1>1. <<>> \in Seq(EventTypes) /\ <<>> \in Seq(Time) /\ Len(<<>>) = 0
  BY EmptySeq
<1> QED
  BY <1>1, ConstantsAssumption DEF Init, Typed, Time

LEMMA TypedStep ==
  ASSUME Typed, [Next]_vars
  PROVE  Typed'
<1>1. CASE Tick
  BY <1>1, ConstantsAssumption DEF Tick, Typed, Time
<1>2. CASE Publish
  <2>1. PICK type \in EventTypes :
          IF Len(queue) < Cap THEN queue' = Append(queue, type) ELSE UNCHANGED queue
    BY <1>2 DEF Publish
  <2>2. queue' \in Seq(EventTypes) /\ Len(queue') <= Cap
    <3>1. CASE Len(queue) < Cap
      BY <2>1, <3>1, AppendProperties, ConstantsAssumption DEF Typed
    <3>2. CASE ~(Len(queue) < Cap)
      BY <2>1, <3>2 DEF Typed
    <3> QED
      BY <3>1, <3>2
  <2> QED
    BY <1>2, <2>2, ConstantsAssumption DEF Publish, Typed
<1>3. CASE Ignore
  BY <1>3, QueueTail DEF Ignore, Typed
<1>4. ASSUME NEW type, Forward(type), type \in AlertTypes
      PROVE  posting' \in AlertTypes \cup {Nil} /\ sent' \in Seq(Time)
  <2>1. now \in Time /\ sent \in Seq(Time)
    BY DEF Typed
  <2> QED
    BY <1>4, <2>1, AppendProperties DEF Forward
<1>5. CASE AllowUnlimited
  <2>1. posting' \in AlertTypes \cup {Nil} /\ sent' \in Seq(Time)
    BY <1>4, <1>5 DEF AllowUnlimited
  <2> QED
    BY <1>5, <2>1, QueueTail DEF AllowUnlimited, Typed
<1>6. CASE Allow
  <2>1. posting' \in AlertTypes \cup {Nil} /\ sent' \in Seq(Time)
    BY <1>4, <1>6 DEF Allow
  <2>2. windowStart' \in Time \cup {ZeroTime} /\ windowCount' \in Nat
    BY <1>6 DEF Allow, CountNow, Typed
  <2> QED
    BY <1>6, <2>1, <2>2, QueueTail DEF Allow, Typed
<1>7. CASE Suppress
  BY <1>7, QueueTail DEF Suppress, Typed
<1>8. CASE NotifyReturns
  BY <1>8 DEF NotifyReturns, Typed
<1>9. CASE UNCHANGED vars
  BY <1>9 DEF vars, Typed
<1> QED
  BY <1>1, <1>2, <1>3, <1>5, <1>6, <1>7, <1>8, <1>9 DEF Next, Handle

-----------------------------------------------------------------------------
(* The rate limit                                                          *)

LEMMA LimitedInit == Init => Limited
<1> SUFFICES ASSUME Init, limit > 0 PROVE Limited
  BY DEF Limited
<1>1. /\ windowStart <= now /\ windowStart + Window <= now /\ limit \in Int
      /\ sent = <<>> /\ windowCount = 0
  BY ConstantsAssumption DEF Init, ZeroTime
<1>2. Len(sent) = 0 /\ DOMAIN sent = {}
  BY <1>1
<1> QED
  BY <1>1, <1>2 DEF Limited, Windows, Apart

(* A step that sends nothing and leaves the window alone.                  *)
LEMMA LimitedKept ==
  ASSUME Typed, Limited, limit' = limit, now' \in Int, now <= now',
         UNCHANGED <<windowStart, windowCount, sent>>
  PROVE  Limited'
<1>1. now \in Int /\ windowStart \in Int /\ Window \in Int
  BY ConstantsAssumption DEF Typed, Time, ZeroTime
<1>2. \A i \in DOMAIN sent : sent[i] \in Int
  <2>1. sent \in Seq(Time) /\ DOMAIN sent = 1..Len(sent)
    BY DEF Typed
  <2>2. \A i \in DOMAIN sent : sent[i] \in Time
    BY <2>1, ElementOfSeq
  <2> QED
    BY <2>2 DEF Time
<1>3. SUFFICES ASSUME limit > 0 PROVE Limited'
  BY DEF Limited
<1>4. /\ windowStart' <= now' /\ (windowCount' = 0 => windowStart' + Window <= now')
      /\ \A i \in DOMAIN sent : sent[i] <= now'
  BY <1>1, <1>2, <1>3 DEF Limited
<1>5. Windows(sent, windowStart, windowCount)' /\ Apart(sent)'
  BY <1>3 DEF Limited, Windows, Apart
<1> QED
  BY <1>4, <1>5 DEF Limited

LEMMA LimitedAllow ==
  ASSUME Typed, Limited, Allow
  PROVE  Limited'
<1>1. /\ limit \in Nat \ {0} /\ limit' = limit /\ now \in Time /\ now \in Int /\ now' = now
      /\ sent \in Seq(Time) /\ sent' = Append(sent, now)
      /\ windowStart \in Int /\ windowCount \in Nat
      /\ MaxTime \in Nat /\ Window \in Nat \ {0}
      /\ windowStart <= now /\ Windows(sent, windowStart, windowCount) /\ Apart(sent)
      /\ \A i \in DOMAIN sent : sent[i] <= now
  BY ConstantsAssumption DEF Typed, Limited, Allow, Forward, Time, ZeroTime
<1>2. \A i \in DOMAIN sent' : sent'[i] <= now
  <2>1. PICK u : u = sent'
    OBVIOUS
  <2>2. /\ Len(sent) \in Nat /\ DOMAIN sent = 1..Len(sent) /\ DOMAIN u = 1..(Len(sent) + 1)
        /\ \A i \in DOMAIN sent : u[i] = sent[i]
        /\ u[Len(sent) + 1] = now
    BY <1>1, <2>1, SentAppend
  <2>3. \A i \in DOMAIN u : i \in DOMAIN sent \/ i = Len(sent) + 1
    BY <2>2
  <2> QED
    BY <1>1, <2>1, <2>2, <2>3
<1>3. CASE WindowExpired(windowStart)
  <2>1. windowStart' = now /\ windowCount' = 1 /\ windowStart + Window <= now
    BY <1>1, <1>3 DEF Allow, CountNow, WindowExpired
  <2>2. Windows(sent', now, 1) /\ Apart(sent')
    BY <1>1, <2>1, NewWindow
  <2> QED
    BY <1>1, <1>2, <2>1, <2>2 DEF Limited, Windows, Apart
<1>4. CASE ~WindowExpired(windowStart)
  <2>1. /\ windowStart' = windowStart /\ windowCount' = windowCount + 1
        /\ now < windowStart + Window /\ windowCount < limit
    BY <1>1, <1>4 DEF Allow, CountNow, WindowExpired, UnderLimit
  <2>2. CASE windowCount = 0
    (* Nothing was ever sent: the window is the zero time's, long expired. *)
    BY <1>1, <2>1, <2>2 DEF Limited
  <2>3. CASE windowCount > 0
    <3>1. Windows(sent', windowStart, windowCount + 1) /\ Apart(sent')
      BY <1>1, <2>1, <2>3, SameWindow
    <3> QED
      BY <1>1, <1>2, <2>1, <3>1 DEF Limited, Windows, Apart
  <2> QED
    BY <1>1, <2>2, <2>3
<1> QED
  BY <1>3, <1>4

LEMMA LimitedStep ==
  ASSUME Typed, Limited, [Next]_vars
  PROVE  Limited'
<1>1. CASE Allow
  BY <1>1, LimitedAllow
<1>2. CASE AllowUnlimited
  <2>1. limit \in Int /\ limit <= 0 /\ limit' = limit
    BY <1>2, ConstantsAssumption DEF AllowUnlimited, Typed
  <2> QED
    BY <2>1 DEF Limited
<1>3. CASE Tick \/ Publish \/ Ignore \/ Suppress \/ NotifyReturns \/ UNCHANGED vars
  <2>1. now \in Int
    BY ConstantsAssumption DEF Typed, Time
  <2>2. /\ limit' = limit /\ now' \in Int /\ now <= now'
        /\ UNCHANGED <<windowStart, windowCount, sent>>
    BY <1>3, <2>1 DEF Tick, Publish, Ignore, Suppress, NotifyReturns, vars
  <2> QED
    BY <2>2, LimitedKept
<1> QED
  BY <1>1, <1>2, <1>3 DEF Next, Handle

-----------------------------------------------------------------------------
(* The theorems                                                            *)

LEMMA Invariant == Spec => []IInv
<1>1. Init => IInv
  BY InitTyped, LimitedInit DEF IInv
<1>2. IInv /\ [Next]_vars => IInv'
  BY TypedStep, LimitedStep DEF IInv
<1> QED
  BY <1>1, <1>2, PTL DEF Spec

(* Type correctness: the channel of the dispatcher never holds more than   *)
(* its buffer, whatever the pace of publishers and of the webhook.         *)
THEOREM TypeCorrect == Spec => []TypeOK
<1>1. IInv => TypeOK
  BY DEF IInv, Typed, TypeOK
<1> QED
  BY <1>1, Invariant, PTL

(* For every limit and every window, 2 limit alerts never share a rolling  *)
(* window.                                                                 *)
THEOREM RateIsBounded == Spec => []RollingBound
<1>1. IInv => RollingBound
  BY DEF IInv, Limited, RollingBound, Apart
<1> QED
  BY <1>1, Invariant, PTL

(* The two fields of the dispatcher always describe what was sent.         *)
THEOREM CountIsExact == Spec => []WindowCountIsExact
<1>1. ASSUME Typed, Limited, limit > 0
      PROVE  /\ windowCount <= limit
             /\ \A i \in DOMAIN sent : sent[i] >= windowStart <=> i > Len(sent) - windowCount
  <2>1. /\ windowStart \in Int /\ windowCount \in Nat /\ Len(sent) \in Nat
        /\ DOMAIN sent = 1..Len(sent) /\ sent \in Seq(Time)
    BY <1>1, ConstantsAssumption DEF Typed, Time, ZeroTime
  <2>2. \A i \in DOMAIN sent : sent[i] \in Time
    BY <2>1, ElementOfSeq
  <2>3. \A i \in DOMAIN sent : sent[i] \in Int
    BY <2>2 DEF Time
  <2> QED
    BY <1>1, <2>1, <2>3 DEF Limited, Windows
<1>2. IInv => WindowCountIsExact
  BY <1>1 DEF IInv, WindowCountIsExact
<1> QED
  BY <1>2, Invariant, PTL

(* No alert is suppressed on account of an older window.                   *)
THEOREM NoNeedlessSuppression == Spec => SuppressedOnlyWhenFull
<1>1. ASSUME IInv, [Next]_vars, AlertSuppressed
      PROVE  FullNow
  <2>1. /\ limit \in Int /\ windowStart \in Int /\ windowCount \in Nat /\ now \in Int
        /\ Window \in Nat \ {0}
        /\ Len(sent) \in Nat /\ DOMAIN sent = 1..Len(sent) /\ sent \in Seq(Time)
    <3>1. Typed
      BY <1>1 DEF IInv
    <3>2. sent \in Seq(Time)
      BY <3>1 DEF Typed
    <3>3. Len(sent) \in Nat /\ DOMAIN sent = 1..Len(sent)
      BY <3>2
    <3>4. /\ limit \in Int /\ windowStart \in Int /\ windowCount \in Nat /\ now \in Int
          /\ Window \in Nat \ {0}
      BY <3>1, ConstantsAssumption DEF Typed, Time, ZeroTime
    <3> QED
      BY <3>2, <3>3, <3>4
  <2>2. /\ queue' = Tail(queue) /\ Tail(queue) # queue
        /\ Len(Tail(queue)) = Len(queue) - 1 /\ Len(queue) \in Nat
    <3>1. queue \in Seq(EventTypes) /\ queue # <<>> /\ queue' = Tail(queue)
      BY <1>1 DEF IInv, Typed, AlertSuppressed
    <3>2. Len(Tail(queue)) = Len(queue) - 1 /\ Len(queue) \in Nat
      BY <3>1, HeadTailProperties
    <3>3. Tail(queue) # queue
      BY <3>2
    <3> QED
      BY <3>1, <3>2, <3>3
  <2>3. Suppress
    <3>1. ~Tick /\ ~NotifyReturns /\ ~UNCHANGED vars
      BY <2>2 DEF Tick, NotifyReturns, vars
    <3>2. ~Ignore
      BY <1>1 DEF Ignore, AlertSuppressed
    <3>3. ~Publish
      <4>1. SUFFICES ASSUME Publish PROVE FALSE
        OBVIOUS
      <4>2. PICK type \in EventTypes :
              IF Len(queue) < Cap THEN queue' = Append(queue, type) ELSE UNCHANGED queue
        BY <4>1 DEF Publish
      <4>3. queue \in Seq(EventTypes)
        BY <1>1 DEF IInv, Typed
      <4>4. Len(Append(queue, type)) = Len(queue) + 1
        BY <4>3, AppendProperties
      <4> QED
        BY <2>2, <4>2, <4>4
    <3>4. ~Allow /\ ~AllowUnlimited
      <4>1. ASSUME NEW type, Forward(type) PROVE FALSE
        <5>1. sent' = Append(sent, now) /\ now \in Time /\ sent' = sent
          BY <1>1, <4>1 DEF Forward, IInv, Typed, AlertSuppressed
        <5>2. Len(Append(sent, now)) = Len(sent) + 1
          BY <2>1, <5>1, AppendProperties
        <5> QED
          BY <2>1, <5>1, <5>2
      <4> QED
        BY <4>1 DEF Allow, AllowUnlimited
    <3> QED
      BY <1>1, <3>1, <3>2, <3>3, <3>4 DEF Next, Handle
  <2>4. limit > 0 /\ now - windowStart < Window /\ windowCount >= limit
    <3>1. limit > 0 /\ ~(CountNow < limit)
      BY <2>3 DEF Suppress, UnderLimit
    <3>2. ~WindowExpired(windowStart)
      BY <2>1, <3>1 DEF CountNow
    <3> QED
      BY <2>1, <3>1, <3>2 DEF CountNow, WindowExpired
  <2>5. windowCount = limit /\ Windows(sent, windowStart, windowCount)
    BY <1>1, <2>1, <2>4 DEF IInv, Limited, Windows
  <2>6. Len(sent) >= limit /\ Len(sent) - limit + 1 \in DOMAIN sent
    BY <2>1, <2>4, <2>5 DEF Windows
  <2>7. sent[Len(sent) - limit + 1] = windowStart
    BY <2>1, <2>5, <2>6 DEF Windows
  <2> QED
    BY <2>4, <2>6, <2>7 DEF FullNow
<1>2. IInv /\ [Next]_vars => [AlertSuppressed => FullNow]_vars
  BY <1>1
<1> QED
  BY <1>2, Invariant, PTL DEF Spec, SuppressedOnlyWhenFull
=============================================================================
