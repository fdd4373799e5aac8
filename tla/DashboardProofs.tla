--------------------------- MODULE DashboardProofs ---------------------------
(***************************************************************************)
(* Proofs about Dashboard, for every number of writers and submitted keys, *)
(* every channel capacity and any number of faults: the page is stale only *)
(* for one of the reasons named, and shows the gate exactly to those who   *)
(* need it.                                                                *)
(***************************************************************************)
EXTENDS Dashboard, SequenceTheorems, TLAPS

WriterRecs == [pc : {"idle", "wrote", "read"}, wrote : Versions, read : Versions]
LoadRecs == [pc : {"idle", "asked", "answered", "body"}, key : Keys \cup {Nil},
             answer : Versions \cup {Nil, 401, 500}]

-----------------------------------------------------------------------------
(* The inductive invariant                                                 *)

(* What a writer is about to publish is a version of an existing run.      *)
WriterOK(q) == /\ q.pc # "idle" => ver # 0
               /\ q.pc = "read" => q.read # 0

(* A load is sent with a key; once its body is awaited it was let in.      *)
LoadOK(q) == /\ q.pc # "idle" => q.key \in Keys
             /\ q.pc = "body" => q.answer \in Versions
             /\ q.pc = "answered" => q.answer \in Versions \cup {401, 500}

ServerInv ==
  /\ ver \in Versions
  /\ writer \in [Writers -> WriterRecs] /\ \A w \in Writers : WriterOK(writer[w])
PageInv ==
  /\ shown \in Versions /\ faults \in 0..MaxFaults
  /\ reasons \subseteq {"unpublished", "dropped", "unheard", "cut", "overtaken", "stale load"}
StreamInv ==
  /\ stream \in {"none", "opening", "open", "refused"} /\ token \in Keys \cup {Nil}
  /\ chan \in Seq(1..MaxVersion) /\ (stream # "open" => chan = <<>>)
LoadInv == load \in [Loads -> LoadRecs] /\ \A l \in Loads : LoadOK(load[l])
FlagInv == {secured, unauthorized, overlap, failed} \subseteq BOOLEAN /\ key \in Keys

(* The news of the last change is shown, accounted for, or still coming.   *)
Brings(q) == q.pc # "idle" /\ q.wrote = ver /\ (q.pc = "read" => q.read = ver)
NewsInv ==
  \/ shown = ver \/ reasons # {} \/ Contains(chan, ver)
  \/ \E w \in Writers : Brings(writer[w])

(* One load at a time, with the key of the page: what it was answered is   *)
(* what the key deserves, and only one that was let in opens a stream.     *)
Alone == ~overlap /\ ~failed
Busy(l) == load[l].pc # "idle"
GateOK ==
  /\ \A l, m \in Loads : Busy(l) /\ Busy(m) => l = m
  /\ \A l \in Loads :
       /\ Busy(l) => load[l].key = key
       /\ load[l].pc = "answered" => (load[l].answer = 401 <=> ~Admits(key))
       /\ load[l].pc = "body" => Admits(key) /\ ~unauthorized
  /\ stream # "refused" /\ (stream # "none" => Admits(token))
  /\ (\A l \in Loads : ~Busy(l)) =>
       /\ unauthorized <=> ~Admits(key)
       /\ ~unauthorized => stream # "none"
GateInv == Alone => GateOK

IInv == ServerInv /\ PageInv /\ StreamInv /\ LoadInv /\ FlagInv /\ NewsInv /\ GateInv

LEMMA IdleTypes == IdleWriter \in WriterRecs /\ IdleWriter.pc = "idle"
                   /\ IdleLoad \in LoadRecs /\ LoadOK(IdleLoad) /\ IdleLoad.pc = "idle"
  BY ConstantsAssumption DEF IdleWriter, IdleLoad, WriterRecs, LoadRecs, LoadOK, Versions

LEMMA InitIInv == Init => IInv
<1> SUFFICES ASSUME Init PROVE IInv
  OBVIOUS
<1> USE DEF Init
<1>1. ServerInv
  BY ConstantsAssumption DEF ServerInv, IdleWriter, WriterRecs, WriterOK, Versions
<1>2. PageInv /\ StreamInv
  <2>1. 0 \in Versions /\ 0 \in 0..MaxFaults
    BY ConstantsAssumption DEF Versions
  <2>2. PageInv
    BY <2>1 DEF PageInv
  <2> QED
    BY <2>2, EmptySeq DEF StreamInv
<1>3. LoadInv
  <2>1. Asking(key) \in LoadRecs /\ LoadOK(Asking(key))
    BY DEF LoadRecs, LoadOK, Asking
  <2>2. load \in [Loads -> LoadRecs]
    <3>1. load = [l \in Loads |-> IF l = Mount THEN Asking(key) ELSE IdleLoad]
      OBVIOUS
    <3> QED
      BY <2>1, <3>1, IdleTypes
  <2>3. \A l \in Loads : load[l] = Asking(key) \/ load[l] = IdleLoad
    OBVIOUS
  <2> QED
    BY <2>1, <2>2, <2>3, IdleTypes DEF LoadInv
<1>4. FlagInv
  <2>1. secured \in BOOLEAN /\ key \in Keys
    OBVIOUS
  <2>2. unauthorized \in BOOLEAN /\ overlap \in BOOLEAN /\ failed \in BOOLEAN
    BY Zenon
  <2> QED
    BY <2>1, <2>2, Zenon DEF FlagInv
<1>5. NewsInv
  BY DEF NewsInv
<1>6. GateOK
  <2>1. Mount \in Loads /\ load[Mount].pc = "asked" /\ load[Mount].key = key
    BY DEF Loads, Asking
  <2>2. \A l \in Loads : l # Mount => load[l].pc = "idle"
    BY DEF IdleLoad
  <2> QED
    BY <2>1, <2>2 DEF GateOK, Busy
<1> QED
  BY <1>1, <1>2, <1>3, <1>4, <1>5, <1>6 DEF IInv, GateInv

-----------------------------------------------------------------------------
(* Channels                                                                *)

LEMMA AppendContains ==
  ASSUME NEW S, NEW q \in Seq(S), NEW e \in S
  PROVE  /\ Append(q, e) \in Seq(S) /\ Contains(Append(q, e), e)
         /\ \A x : Contains(q, x) => Contains(Append(q, e), x)
<1>1. /\ Append(q, e) \in Seq(S) /\ Len(Append(q, e)) = Len(q) + 1 /\ Len(q) \in Nat
      /\ \A i \in 1..Len(q) : Append(q, e)[i] = q[i]
      /\ Append(q, e)[Len(q) + 1] = e
  BY AppendProperties, LenProperties
<1> QED
  BY <1>1 DEF Contains

LEMMA TailContains ==
  ASSUME NEW S, NEW q \in Seq(S), q # <<>>
  PROVE  /\ Tail(q) \in Seq(S) /\ Head(q) \in S
         /\ \A x : Contains(q, x) => Head(q) = x \/ Contains(Tail(q), x)
<1>1. /\ Tail(q) \in Seq(S) /\ Head(q) \in S /\ Len(Tail(q)) = Len(q) - 1 /\ Len(q) \in Nat
      /\ \A i \in 1..Len(Tail(q)) : Tail(q)[i] = q[i + 1]
  BY HeadTailProperties, LenProperties
<1>2. ASSUME NEW x, NEW i \in 1..Len(q), q[i] = x, Head(q) # x PROVE Contains(Tail(q), x)
  <2>1. i # 1
    BY <1>2
  <2>2. i - 1 \in 1..Len(Tail(q)) /\ Tail(q)[i - 1] = q[(i - 1) + 1] /\ (i - 1) + 1 = i
    BY <1>1, <2>1
  <2> QED
    BY <1>2, <2>2 DEF Contains
<1> QED
  BY <1>1, <1>2 DEF Contains

LEMMA NothingInEmpty == \A x : ~Contains(<<>>, x)
  BY EmptySeq DEF Contains

-----------------------------------------------------------------------------
(* The types                                                               *)

LEMMA ServerNext ==
  ASSUME IInv, [Next]_vars PROVE ServerInv'
<1>1. ServerInv
  BY DEF IInv
<1>2. CASE UNCHANGED <<ver, writer>>
  BY <1>1, <1>2 DEF ServerInv, WriterOK
<1>3. ASSUME NEW w \in Writers, NEW q \in WriterRecs, writer' = [writer EXCEPT ![w] = q],
             ver' \in Versions, ver' # 0 \/ ver' = ver, WriterOK(q)'
      PROVE  ServerInv'
  BY <1>1, <1>3 DEF ServerInv, WriterOK
<1>4. ver \in Int /\ MaxVersion \in Int /\ Versions = 0..MaxVersion
  BY <1>1, ConstantsAssumption DEF ServerInv, Versions
<1>5. ASSUME NEW w \in Writers, Write(w) PROVE ServerInv'
  <2>1. PICK q : q = IF ver = 0 THEN [pc |-> "read", wrote |-> 1, read |-> 1]
                     ELSE [pc |-> "wrote", wrote |-> ver + 1, read |-> 0]
    OBVIOUS
  <2>2. ver' = ver + 1 /\ ver' \in Versions /\ ver' # 0
    BY <1>1, <1>4, <1>5 DEF Write, ServerInv
  <2>3. q \in WriterRecs /\ (q.pc = "read" => q.read # 0)
    BY <1>4, <2>1, <2>2 DEF WriterRecs
  <2>4. writer' = [writer EXCEPT ![w] = q]
    BY <1>5, <2>1 DEF Write
  <2> QED
    BY <1>3, <2>2, <2>3, <2>4 DEF WriterOK
<1>6. ASSUME NEW w \in Writers, ReadLatest(w) PROVE ServerInv'
  <2>1. PICK q : q = [pc |-> "read", wrote |-> writer[w].wrote, read |-> ver]
    OBVIOUS
  <2>2. ver # 0 /\ writer[w] \in WriterRecs /\ ver' = ver /\ ver \in Versions
    BY <1>1, <1>6 DEF ReadLatest, ServerInv, WriterOK
  <2>3. q \in WriterRecs /\ q.read = ver
    BY <2>1, <2>2 DEF WriterRecs
  <2>4. writer' = [writer EXCEPT ![w] = q]
    BY <1>6, <2>1 DEF ReadLatest
  <2> QED
    BY <1>3, <2>2, <2>3, <2>4 DEF WriterOK
<1>7. ASSUME NEW w \in Writers, GiveUp(w) \/ Publish(w) PROVE ServerInv'
  BY <1>1, <1>3, <1>7, IdleTypes DEF GiveUp, Publish, ServerInv, WriterOK
<1> QED
  BY <1>2, <1>5, <1>6, <1>7
  DEF Next, vars, WriterStep, LoadStep, Open, Cut, Deliver, Serve, FetchThrows, Headers, Body,
      SubmitKey, server

LEMMA PageNext ==
  ASSUME IInv, [Next]_vars PROVE PageInv'
<1>1. PageInv /\ ServerInv /\ StreamInv /\ LoadInv
  BY DEF IInv
<1>2. CASE UNCHANGED <<shown, faults, reasons>>
  BY <1>1, <1>2 DEF PageInv
<1>3. Fault => faults' \in 0..MaxFaults
  <2>1. faults \in 0..MaxFaults /\ MaxFaults \in Nat
    BY <1>1, ConstantsAssumption DEF PageInv
  <2> QED
    BY <2>1 DEF Fault
<1>4. faults' \in 0..MaxFaults
  <2>1. UNCHANGED faults \/ Fault
    BY DEF Next, vars, WriterStep, Write, ReadLatest, GiveUp, Publish, LoadStep, Open, Cut,
           Deliver, Serve, FetchThrows, Headers, Body, SubmitKey
  <2> QED
    BY <1>1, <1>3, <2>1 DEF PageInv
<1>5. ASSUME NEW v \in Versions, NEW reason \in {"overtaken", "stale load"}, NEW lost,
             Upsert(v, reason, lost)
      PROVE  PageInv'
  BY <1>1, <1>4, <1>5 DEF Upsert, PageInv
<1>6. CASE Deliver
  <2>1. Head(chan) \in 1..MaxVersion
    BY <1>1, <1>6, TailContains DEF Deliver, StreamInv
  <2>2. Head(chan) \in Versions
    BY <2>1, ConstantsAssumption DEF Versions
  <2> QED
    BY <1>5, <1>6, <2>2 DEF Deliver
<1>7. ASSUME NEW l \in Loads, Body(l) PROVE PageInv'
  <2>1. load[l].answer \in Versions /\ shown \in Versions
    BY <1>1, <1>7 DEF Body, LoadInv, LoadOK, PageInv
  <2> QED
    BY <1>5, <1>7, <2>1 DEF Body
<1>8. \/ /\ UNCHANGED shown
         /\ reasons' \subseteq reasons \cup {"unpublished", "dropped", "unheard", "cut"}
      \/ Deliver
      \/ \E l \in Loads : Body(l)
  BY DEF Next, vars, WriterStep, Write, ReadLatest, GiveUp, Publish, LoadStep, Open, Cut,
         Serve, FetchThrows, Headers, SubmitKey, Because
<1> QED
  BY <1>1, <1>4, <1>6, <1>7, <1>8 DEF PageInv

LEMMA StreamNext ==
  ASSUME IInv, [Next]_vars PROVE StreamInv'
<1>1. StreamInv /\ ServerInv /\ FlagInv
  BY DEF IInv
<1>2. CASE UNCHANGED <<stream, token, chan>>
  BY <1>1, <1>2 DEF StreamInv
<1>3. CASE Connect
  BY <1>1, <1>3, EmptySeq DEF Connect, StreamInv, FlagInv
<1>4. ASSUME NEW w \in Writers, Publish(w) PROVE StreamInv'
  <2>1. writer[w].read \in 1..MaxVersion
    BY <1>1, <1>4, ConstantsAssumption DEF Publish, ServerInv, WriterOK, WriterRecs, Versions
  <2>2. Append(chan, writer[w].read) \in Seq(1..MaxVersion)
    BY <1>1, <2>1, AppendContains DEF StreamInv
  <2> QED
    BY <1>1, <1>4, <2>2 DEF Publish, StreamInv
<1>5. CASE Open
  BY <1>1, <1>5 DEF Open, StreamInv
<1>6. CASE Cut
  BY <1>1, <1>6, EmptySeq DEF Cut, StreamInv
<1>7. CASE Deliver
  <2>1. Tail(chan) \in Seq(1..MaxVersion)
    BY <1>1, <1>7, TailContains DEF Deliver, StreamInv
  <2> QED
    BY <1>1, <1>7, <2>1 DEF Deliver, StreamInv
<1>8. ASSUME NEW l \in Loads, Headers(l) \/ Body(l) PROVE StreamInv'
  BY <1>2, <1>3, <1>8 DEF Headers, Body
<1> QED
  BY <1>2, <1>4, <1>5, <1>6, <1>7, <1>8
  DEF Next, vars, WriterStep, Write, ReadLatest, GiveUp, LoadStep, Serve, FetchThrows, SubmitKey

LEMMA LoadNext ==
  ASSUME IInv, [Next]_vars PROVE LoadInv'
<1>1. LoadInv /\ ServerInv /\ FlagInv
  BY DEF IInv
<1>2. CASE UNCHANGED load
  BY <1>1, <1>2 DEF LoadInv
<1>3. ASSUME NEW l \in Loads, NEW q \in LoadRecs, LoadOK(q), load' = [load EXCEPT ![l] = q]
      PROVE  LoadInv'
  BY <1>1, <1>3 DEF LoadInv
<1>4. ASSUME NEW l \in Loads, Serve(l) PROVE LoadInv'
  <2>1. load[l].key \in Keys
    BY <1>1, <1>4 DEF Serve, LoadInv, LoadOK
  <2>2. ASSUME NEW a \in Versions \cup {401, 500}
        PROVE  Answered(load[l], a) \in LoadRecs /\ LoadOK(Answered(load[l], a))
    BY <2>1 DEF Answered, LoadRecs, LoadOK
  <2>3. ver \in Versions
    BY <1>1 DEF ServerInv
  <2>4. PICK a \in Versions \cup {401, 500} : load' = [load EXCEPT ![l] = Answered(load[l], a)]
    BY <1>4, <2>3 DEF Serve
  <2> QED
    BY <1>3, <2>2, <2>4
<1>5. ASSUME NEW l \in Loads, load' = [load EXCEPT ![l] = IdleLoad] PROVE LoadInv'
  BY <1>3, <1>5, IdleTypes
<1>6. ASSUME NEW l \in Loads, Headers(l) PROVE LoadInv'
  <2>1. CASE load[l].answer \in {401, 500}
    BY <1>5, <1>6, <2>1 DEF Headers
  <2>2. CASE load[l].answer \notin {401, 500}
    <3>1. PICK q : q = [load[l] EXCEPT !.pc = "body"]
      OBVIOUS
    <3>2. load[l] \in LoadRecs /\ LoadOK(load[l]) /\ load[l].pc = "answered"
      BY <1>1, <1>6 DEF LoadInv, Headers
    <3>3. q \in LoadRecs /\ q.pc = "body" /\ q.key = load[l].key /\ q.answer = load[l].answer
      BY <3>1, <3>2 DEF LoadRecs
    <3>4. LoadOK(q)
      BY <2>2, <3>2, <3>3 DEF LoadOK
    <3>5. load' = [load EXCEPT ![l] = q]
      BY <1>6, <2>2, <3>1 DEF Headers
    <3> QED
      BY <1>3, <3>3, <3>4, <3>5
  <2> QED
    BY <2>1, <2>2
<1>7. ASSUME NEW l \in Loads, SubmitKey(l) PROVE LoadInv'
  <2>1. PICK k \in Keys : load' = [load EXCEPT ![l] = Asking(k)]
    BY <1>7 DEF SubmitKey
  <2>2. Asking(k) \in LoadRecs /\ LoadOK(Asking(k))
    BY DEF Asking, LoadRecs, LoadOK
  <2> QED
    BY <1>3, <2>1, <2>2
<1> QED
  BY <1>2, <1>4, <1>5, <1>6, <1>7
  DEF Next, vars, WriterStep, Write, ReadLatest, GiveUp, Publish, LoadStep, Open, Cut, Deliver,
      FetchThrows, Body

LEMMA FlagNext ==
  ASSUME IInv, [Next]_vars PROVE FlagInv'
<1>1. secured \in BOOLEAN /\ unauthorized \in BOOLEAN /\ overlap \in BOOLEAN /\ failed \in BOOLEAN
      /\ key \in Keys
  BY DEF IInv, FlagInv
<1>2. secured' = secured /\ unauthorized' \in {unauthorized, TRUE, FALSE} /\ failed' \in {failed, TRUE}
  BY DEF Next, vars, WriterStep, Write, ReadLatest, GiveUp, Publish, LoadStep, Open, Cut, Deliver,
      Serve, FetchThrows, Headers, Body, SubmitKey, server, browser
<1>3. overlap' \in BOOLEAN
  BY <1>1
  DEF Next, vars, WriterStep, Write, ReadLatest, GiveUp, Publish, LoadStep, Open, Cut, Deliver,
      Serve, FetchThrows, Headers, Body, SubmitKey, server, browser
<1>4. key' \in Keys
  BY <1>1
  DEF Next, vars, WriterStep, Write, ReadLatest, GiveUp, Publish, LoadStep, Open, Cut, Deliver,
      Serve, FetchThrows, Headers, Body, SubmitKey, server, browser
<1> QED
  BY <1>1, <1>2, <1>3, <1>4 DEF FlagInv

-----------------------------------------------------------------------------
(* The news                                                                *)

LEMMA Coming ==
  ASSUME NewsInv, UNCHANGED <<ver, writer>>,
         shown = ver => shown' = ver \/ reasons' # {},
         reasons # {} => shown' = ver \/ reasons' # {},
         Contains(chan, ver) => shown' = ver \/ reasons' # {} \/ Contains(chan', ver)
  PROVE  NewsInv'
  BY DEF NewsInv, Brings

LEMMA NewsNext ==
  ASSUME IInv, [Next]_vars PROVE NewsInv'
<1>1. NewsInv /\ ServerInv /\ StreamInv
  BY DEF IInv
<1>2. CASE UNCHANGED <<ver, writer, shown, reasons, chan>>
  BY <1>1, <1>2 DEF NewsInv, Brings
<1>3. ASSUME NEW w \in Writers, Write(w) PROVE NewsInv'
  <2>1. PICK q : q = IF ver = 0 THEN [pc |-> "read", wrote |-> 1, read |-> 1]
                     ELSE [pc |-> "wrote", wrote |-> ver + 1, read |-> 0]
    OBVIOUS
  <2>2. writer' = [writer EXCEPT ![w] = q] /\ ver' = ver + 1
    BY <1>3, <2>1 DEF Write
  <2>3. writer'[w] = q
    BY <1>1, <2>2 DEF ServerInv
  <2>4. q.pc # "idle" /\ q.wrote = ver' /\ (q.pc = "read" => q.read = ver')
    BY <2>1, <2>2
  <2> QED
    BY <2>3, <2>4 DEF NewsInv, Brings
<1>4. ASSUME NEW w \in Writers, ReadLatest(w) PROVE NewsInv'
  <2>1. PICK q : q = [pc |-> "read", wrote |-> writer[w].wrote, read |-> ver]
    OBVIOUS
  <2>2. /\ writer' = [writer EXCEPT ![w] = q] /\ UNCHANGED <<ver, shown, reasons, chan>>
        /\ q.pc = "read" /\ q.wrote = writer[w].wrote /\ q.read = ver
    BY <1>4, <2>1 DEF ReadLatest
  <2>3. \A x \in Writers : Brings(writer[x]) => Brings(writer[x])'
    BY <1>1, <2>2 DEF ServerInv, Brings
  <2> QED
    BY <1>1, <2>2, <2>3 DEF NewsInv
<1>5. ASSUME NEW w \in Writers, writer' = [writer EXCEPT ![w] = IdleWriter], ver' = ver,
             shown' = shown, reasons \subseteq reasons',
             Contains(chan, ver) => Contains(chan', ver),
             Brings(writer[w]) => reasons' # {} \/ Contains(chan', ver)
      PROVE  NewsInv'
  <2>1. \A x \in Writers : x # w /\ Brings(writer[x]) => Brings(writer[x])'
    BY <1>1, <1>5 DEF ServerInv, Brings
  <2> QED
    BY <1>1, <1>5, <2>1 DEF NewsInv
<1>6. ASSUME NEW w \in Writers, GiveUp(w) PROVE NewsInv'
  <2>1. Brings(writer[w]) => reasons' # {}
    BY <1>6 DEF GiveUp, Because, Brings
  <2>2. reasons \subseteq reasons' /\ UNCHANGED <<ver, shown, chan>>
    BY <1>6 DEF GiveUp, Because
  <2> QED
    BY <1>5, <1>6, <2>1, <2>2 DEF GiveUp
<1>7. ASSUME NEW w \in Writers, Publish(w) PROVE NewsInv'
  <2>1. writer[w].read \in 1..MaxVersion
    BY <1>1, <1>7, ConstantsAssumption DEF Publish, ServerInv, WriterOK, WriterRecs, Versions
  <2>2. /\ Contains(Append(chan, writer[w].read), writer[w].read)
        /\ Contains(chan, ver) => Contains(Append(chan, writer[w].read), ver)
    <3>1. chan \in Seq(1..MaxVersion)
      BY <1>1 DEF StreamInv
    <3>2. \A v \in 1..MaxVersion :
            /\ Contains(Append(chan, v), v)
            /\ \A x : Contains(chan, x) => Contains(Append(chan, v), x)
      BY <3>1, AppendContains, Zenon
    <3> QED
      BY <2>1, <3>2, Zenon
  <2>3. Brings(writer[w]) => writer[w].read = ver
    BY <1>7 DEF Publish, Brings
  <2>4. \/ chan' = Append(chan, writer[w].read) /\ reasons' = reasons
        \/ chan' = chan /\ Because("dropped", writer[w].read = ver)
        \/ chan' = chan /\ Because("unheard", writer[w].read = ver)
    BY <1>7 DEF Publish
  <2>5. Brings(writer[w]) => reasons' # {} \/ Contains(chan', ver)
    BY <2>2, <2>3, <2>4 DEF Because
  <2>6. reasons \subseteq reasons' /\ (Contains(chan, ver) => Contains(chan', ver))
    BY <2>2, <2>4 DEF Because
  <2> QED
    BY <1>5, <1>7, <2>5, <2>6 DEF Publish
<1>8. CASE Cut
  <2>1. Because("cut", Contains(chan, ver)) /\ UNCHANGED <<ver, writer, shown>>
    BY <1>8 DEF Cut, server
  <2> QED
    BY <1>1, <2>1, Coming DEF Because
<1>9. ASSUME NEW v, NEW reason, NEW lost, Upsert(v, reason, lost), UNCHANGED <<ver, writer>>,
             Contains(chan, ver) => v = ver \/ Contains(chan', ver) \/ Contains(lost, ver)
      PROVE  NewsInv'
  <2>1. CASE v = ver
    BY <1>9, <2>1 DEF Upsert, NewsInv
  <2>2. CASE v # ver
    BY <1>1, <1>9, <2>2, Coming DEF Upsert
  <2> QED
    BY <2>1, <2>2
<1>10. CASE Deliver
  <2>1. Contains(chan, ver) => Head(chan) = ver \/ Contains(chan', ver)
    BY <1>1, <1>10, TailContains DEF Deliver, StreamInv
  <2> QED
    BY <1>9, <1>10, <2>1 DEF Deliver, server
<1>11. ASSUME NEW l \in Loads, Headers(l) PROVE NewsInv'
  <2>1. CASE UNCHANGED <<chan, reasons>>
    BY <1>2, <1>11, <2>1 DEF Headers, server
  <2>2. CASE Because("cut", Contains(chan, ver))
    BY <1>1, <1>11, <2>2, Coming DEF Headers, server, Because
  <2> QED
    BY <1>11, <2>1, <2>2 DEF Headers
<1>12. ASSUME NEW l \in Loads, Body(l) PROVE NewsInv'
  <2>1. CASE unauthorized
    BY <1>9, <1>12, <2>1 DEF Body, server
  <2>2. CASE ~unauthorized
    BY <1>9, <1>12, <2>2 DEF Body, server
  <2> QED
    BY <2>1, <2>2
<1> QED
  BY <1>2, <1>3, <1>4, <1>6, <1>7, <1>8, <1>10, <1>11, <1>12
  DEF Next, vars, WriterStep, LoadStep, Open, Serve, FetchThrows, SubmitKey, server

-----------------------------------------------------------------------------
(* The gate                                                                *)

(* One load comes to its end, or a step further.                           *)
LEMMA LoadMoves ==
  ASSUME LoadInv, NEW l \in Loads, NEW q, load' = [load EXCEPT ![l] = q]
  PROVE  load'[l] = q /\ \A m \in Loads : m # l => load'[m] = load[m]
  BY DEF LoadInv

LEMMA GateNext ==
  ASSUME IInv, [Next]_vars PROVE GateInv'
<1> SUFFICES ASSUME Alone' PROVE GateOK'
  BY DEF GateInv
<1>1. LoadInv /\ FlagInv /\ StreamInv /\ ServerInv
  BY DEF IInv
<1>2. secured' = secured
  BY DEF Next, vars, WriterStep, Write, ReadLatest, GiveUp, Publish, LoadStep, Open, Cut, Deliver,
      Serve, FetchThrows, Headers, Body, SubmitKey, server
<1>3. Alone
  <2>1. ~overlap' => ~overlap
    BY DEF Next, vars, WriterStep, Write, ReadLatest, GiveUp, Publish, LoadStep, Open, Cut, Deliver,
      Serve, FetchThrows, Headers, Body, SubmitKey, browser
  <2>2. ~failed' => ~failed
    BY DEF Next, vars, WriterStep, Write, ReadLatest, GiveUp, Publish, LoadStep, Open, Cut, Deliver,
      Serve, FetchThrows, Headers, Body, SubmitKey, browser
  <2> QED
    BY <2>1, <2>2, Zenon DEF Alone
<1>4. GateOK
  BY <1>3 DEF IInv, GateInv
<1>5. CASE UNCHANGED <<load, key, unauthorized, stream, token>>
  BY <1>2, <1>4, <1>5 DEF GateOK, Busy, Admits
<1>6. CASE Open
  <2>1. Admits(token)
    BY <1>4, <1>6 DEF Open, GateOK
  <2>2. stream' = "open" /\ stream = "opening" /\ UNCHANGED <<load, key, unauthorized, token>>
    BY <1>6, <2>1 DEF Open, browser
  <2> QED
    BY <1>2, <1>4, <2>2 DEF GateOK, Busy, Admits
<1>7. CASE Cut
  <2>1. stream = "open" /\ stream' = "opening" /\ UNCHANGED <<load, key, unauthorized, token>>
    BY <1>7 DEF Cut, browser
  <2> QED
    BY <1>2, <1>4, <2>1 DEF GateOK, Busy, Admits
<1>8. ASSUME NEW l \in Loads, Serve(l) PROVE GateOK'
  <2>1. PICK a : /\ load' = [load EXCEPT ![l] = Answered(load[l], a)]
                 /\ a = 401 <=> ~Admits(load[l].key)
    <3>1. ver # 401
      BY <1>1, ConstantsAssumption DEF ServerInv, Versions
    <3> QED
      BY <1>8, <3>1 DEF Serve
  <2>2. PICK q : q = Answered(load[l], a)
    OBVIOUS
  <2>3. q.pc = "answered" /\ q.key = load[l].key /\ q.answer = a
    BY <2>2 DEF Answered
  <2>4. load'[l] = q /\ \A m \in Loads : m # l => load'[m] = load[m]
    <3>1. load' = [load EXCEPT ![l] = q]
      BY <2>1, <2>2, Zenon
    <3> QED
      BY <1>1, <3>1, LoadMoves, Zenon
  <2>5. Busy(l) /\ load[l].key = key
    BY <1>4, <1>8 DEF Serve, GateOK, Busy
  <2>6. UNCHANGED <<key, unauthorized, stream, token>>
    BY <1>8 DEF Serve, browser
  <2> QED
    BY <1>2, <1>4, <2>1, <2>3, <2>4, <2>5, <2>6 DEF GateOK, Busy, Admits
<1>9. ASSUME NEW l \in Loads, FetchThrows(l) PROVE FALSE
  BY <1>9, Zenon DEF FetchThrows, Alone
<1>10. ASSUME NEW l \in Loads, Headers(l) PROVE GateOK'
  <2>1. /\ Busy(l) /\ load[l].key = key /\ load[l].pc = "answered"
        /\ load[l].answer = 401 <=> ~Admits(key)
        /\ \A m \in Loads : Busy(m) => m = l
    BY <1>4, <1>10 DEF Headers, GateOK, Busy
  <2>2. key' = key
    BY <1>10 DEF Headers
  <2>3. CASE load[l].answer = 401
    <3>1. /\ load'[l] = IdleLoad /\ \A m \in Loads : m # l => load'[m] = load[m]
      BY <1>1, <1>10, <2>3, LoadMoves DEF Headers
    <3>2. unauthorized' = TRUE /\ UNCHANGED <<stream, token>>
      BY <1>10, <2>3 DEF Headers
    <3>3. \A m \in Loads : load'[m].pc = "idle"
      BY <2>1, <3>1, IdleTypes DEF Busy
    <3> QED
      BY <1>2, <1>4, <2>1, <2>2, <2>3, <3>2, <3>3 DEF GateOK, Busy, Admits
  <2>4. CASE load[l].answer = 500
    <3>1. /\ load'[l] = IdleLoad /\ \A m \in Loads : m # l => load'[m] = load[m]
      BY <1>1, <1>10, <2>4, LoadMoves DEF Headers
    <3>2. unauthorized' = FALSE /\ stream' = "opening" /\ token' = key /\ Admits(key)
      BY <1>10, <2>1, <2>4 DEF Headers, Connect
    <3>3. \A m \in Loads : load'[m].pc = "idle"
      BY <2>1, <3>1, IdleTypes DEF Busy
    <3> QED
      BY <1>2, <2>2, <3>2, <3>3 DEF GateOK, Busy, Admits
  <2>5. CASE load[l].answer \notin {401, 500}
    <3>1. PICK q : q = [load[l] EXCEPT !.pc = "body"]
      OBVIOUS
    <3>2. q.pc = "body" /\ q.key = load[l].key
      BY <1>1, <3>1 DEF LoadInv, LoadRecs
    <3>3. load'[l] = q /\ \A m \in Loads : m # l => load'[m] = load[m]
      BY <1>1, <1>10, <2>5, <3>1, LoadMoves DEF Headers
    <3>4. unauthorized' = FALSE /\ UNCHANGED <<stream, token>> /\ Admits(key)
      BY <1>10, <2>1, <2>5 DEF Headers
    <3> QED
      BY <1>2, <1>4, <2>1, <2>2, <3>2, <3>3, <3>4 DEF GateOK, Busy, Admits
  <2> QED
    BY <2>3, <2>4, <2>5
<1>11. ASSUME NEW l \in Loads, Body(l) PROVE GateOK'
  <2>1. /\ Admits(key) /\ ~unauthorized /\ \A m \in Loads : Busy(m) => m = l
    BY <1>4, <1>11 DEF Body, GateOK, Busy
  <2>2. /\ load'[l] = IdleLoad /\ \A m \in Loads : m # l => load'[m] = load[m]
    BY <1>1, <1>11, LoadMoves DEF Body
  <2>3. \A m \in Loads : load'[m].pc = "idle"
    BY <2>1, <2>2, IdleTypes DEF Busy
  <2>4. stream' = "opening" /\ token' = key /\ UNCHANGED <<key, unauthorized>>
    BY <1>11, <2>1 DEF Body, Connect, browser
  <2> QED
    BY <1>2, <2>1, <2>3, <2>4 DEF GateOK, Busy, Admits
<1>12. ASSUME NEW l \in Loads, SubmitKey(l) PROVE GateOK'
  <2>1. PICK k \in Keys : key' = k /\ load' = [load EXCEPT ![l] = Asking(k)]
    BY <1>12 DEF SubmitKey
  <2>2. \A m \in Loads : ~Busy(m)
    <3>1. overlap' = (overlap \/ \E m \in Loads : load[m] # IdleLoad)
      BY <1>12 DEF SubmitKey
    <3>2. \A m \in Loads : load[m] = IdleLoad
      BY <3>1, Zenon DEF Alone
    <3> QED
      BY <3>2, IdleTypes DEF Busy
  <2>3. PICK q : q = Asking(k)
    OBVIOUS
  <2>4. q.pc = "asked" /\ q.key = k
    BY <2>3 DEF Asking
  <2>5. load'[l] = q /\ \A m \in Loads : m # l => load'[m] = load[m]
    BY <1>1, <2>1, <2>3, LoadMoves
  <2>6. UNCHANGED <<stream, token>>
    BY <1>12 DEF SubmitKey
  <2> QED
    BY <1>2, <1>4, <2>1, <2>2, <2>4, <2>5, <2>6 DEF GateOK, Busy, Admits
<1> QED
  BY <1>5, <1>6, <1>7, <1>8, <1>9, <1>10, <1>11, <1>12
  DEF Next, vars, WriterStep, Write, ReadLatest, GiveUp, Publish, LoadStep, Deliver, browser

-----------------------------------------------------------------------------
(* The theorems                                                            *)

LEMMA IInvAlways == Spec => []IInv
<1>1. IInv /\ [Next]_vars => IInv'
  BY ServerNext, PageNext, StreamNext, LoadNext, FlagNext, NewsNext, GateNext DEF IInv
<1> QED
  BY <1>1, InitIInv, PTL DEF Spec

(* Every variable keeps its type, and no event waits for a stream that is  *)
(* not open.                                                               *)
THEOREM TypeCorrect == Spec => []TypeOK
<1>1. IInv => TypeOK
  BY DEF IInv, ServerInv, PageInv, StreamInv, LoadInv, FlagInv, WriterRecs, LoadRecs, TypeOK
<1> QED
  BY <1>1, IInvAlways, PTL

(* The dashboard at rest shows the run as it is, or one of the six things  *)
(* that can keep the news from it has happened.                            *)
THEOREM StaleOnlyForAReason == Spec => []StaleHasAReason
<1>1. IInv => StaleHasAReason
  <2> SUFFICES ASSUME IInv, Calm, shown # ver PROVE reasons # {}
    BY DEF StaleHasAReason
  <2>1. ~Contains(chan, ver)
    BY NothingInEmpty DEF Calm
  <2>2. \A w \in Writers : ~Brings(writer[w])
    BY IdleTypes DEF Calm, Brings
  <2> QED
    BY <2>1, <2>2 DEF IInv, NewsInv
<1> QED
  BY <1>1, IInvAlways, PTL

(* With one key at a time and no fetch that throws, the gate is shown      *)
(* exactly to those without the right key, and everybody else gets their   *)
(* stream: a 401 ends a load, anything else connects.                      *)
THEOREM GateOrStreamAlways == Spec => []GateOrStream
<1>1. IInv => GateOrStream
  <2> SUFFICES ASSUME IInv, Calm, Alone
               PROVE  /\ unauthorized <=> ~Admits(key)
                      /\ ~unauthorized => stream \in {"opening", "open"}
    BY Zenon DEF GateOrStream, Alone
  <2>1. \A l \in Loads : ~Busy(l)
    BY IdleTypes DEF Calm, Busy
  <2> QED
    BY <2>1 DEF IInv, GateInv, GateOK, StreamInv
<1> QED
  BY <1>1, IInvAlways, PTL
=============================================================================
