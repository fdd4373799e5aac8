--------------------------- MODULE TaskRunsProofs ---------------------------
(***************************************************************************)
(* Proofs about TaskRuns, for every number of runs, calls and subscribers, *)
(* every TTL, every retention window and every channel capacity.           *)
(***************************************************************************)
EXTENDS TaskRuns, SequenceTheorems, TLAPS

-----------------------------------------------------------------------------
(* The inductive invariant                                                 *)

(* A row is no row, a running row without finish time, or a settled row.   *)
RowOK(row) ==
  \/ row = NoRow
  \/ /\ row.started \in Int /\ row.beat \in Int
     /\ \/ row.status = "running" /\ row.finished = Nil /\ row.dur = Nil
        \/ row.status \in Settled /\ row.finished \in Int /\ row.dur \in Int

(* What a handler knows at each of its steps, m being the minted ids.      *)
CallOK(r, m) ==
  r.pc # "idle" =>
    /\ r.id \in RunIds /\ r.at \in Int /\ r.op \in Ops \cup {"start"}
    /\ r.pc \in {"create", "respond"} => r.op = "start"
    /\ r.op = "start" => r.id \in ClientIds \cup m
    /\ r.pc \in {"find", "finish"} => r.op \in {"success", "failed"}
    /\ r.pc = "finish" => r.started \in Int

(* A pass has captured its time, and knows the run it is about to Get.     *)
SweepOK(w) ==
  /\ w.pc # "idle" => w.at \in Int
  /\ w.pc = "get" => w.cur \in RunIds

(* Only an id a client chose, or one that was minted, has a row.           *)
RunsInv ==
  /\ runs \in [RunIds -> Row]
  /\ \A id \in RunIds : RowOK(runs[id]) /\ (id \in Listed => id \in ClientIds \cup minted)
CallInv == call \in [Calls -> CallRecs] /\ \A c \in Calls : CallOK(call[c], minted)
SweepInv == sweep \in SweepRecs /\ SweepOK(sweep)
ChanInv == chan \in [Subs -> Seq(Events)] /\ \A s \in Subs : Len(chan[s]) <= Cap
IdInv ==
  /\ minted \in SUBSET (RunIds \ ClientIds)
  /\ told \in SUBSET minted /\ early \in SUBSET minted
RestInv ==
  /\ now \in Time /\ faults \in 0..MaxFaults
  /\ cutoff = Nil \/ (cutoff \in Int /\ cutoff + Retain <= now)

IInv == RunsInv /\ CallInv /\ SweepInv /\ ChanInv /\ IdInv /\ RestInv

-----------------------------------------------------------------------------
(* Rows, calls and channels                                                *)

LEMMA NoRowType == NoRow \in Row /\ RowOK(NoRow)
  BY DEF NoRow, Row, RowOK, NilOr, Statuses

LEMMA NewRowType ==
  ASSUME NEW at \in Int, NEW ttl \in NilOr(Int)
  PROVE  NewRow(at, ttl) \in Row /\ RowOK(NewRow(at, ttl))
  BY DEF NewRow, NoRow, Row, RowOK, NilOr, Statuses

(* A duration in milliseconds is a number again.                           *)
LEMMA MillisType == ASSUME NEW d \in Int PROVE Millis(d) \in Int
  BY ConstantsAssumption DEF Millis

(* Settling a present row gives a well-formed settled row, whatever it was. *)
LEMMA SettleType ==
  ASSUME NEW row \in Row, RowOK(row), row.status # "absent",
         NEW status \in Settled, NEW at \in Int, NEW dur \in Int
  PROVE  /\ Settle(row, status, at, dur) \in Row
         /\ RowOK(Settle(row, status, at, dur))
<1>1. SUFFICES ASSUME NEW q, q = Settle(row, status, at, dur)
               PROVE  q \in Row /\ RowOK(q)
  OBVIOUS
<1>2. row.started \in Int /\ row.beat \in Int
  BY DEF RowOK, NoRow
<1>3. q \in Row
  BY <1>1 DEF Settle, Row, NilOr, Statuses
<1>4. /\ q.status = status /\ q.finished = at /\ q.dur = dur
      /\ q.started = row.started /\ q.beat = row.beat
  BY <1>1 DEF Settle, Row
<1> QED
  BY <1>2, <1>3, <1>4 DEF RowOK

LEMMA BeatType ==
  ASSUME NEW row \in Row, RowOK(row), row.status = "running", NEW at \in Int
  PROVE  [row EXCEPT !.beat = at] \in Row /\ RowOK([row EXCEPT !.beat = at])
  BY DEF NoRow, Row, RowOK, NilOr, Settled

LEMMA IdleCallType == IdleCall \in CallRecs /\ \A m : CallOK(IdleCall, m)
  BY NoRowType DEF IdleCall, CallRecs, CallOK, NilOr

LEMMA IdleSweepType == IdleSweep \in SweepRecs /\ SweepOK(IdleSweep)
  BY DEF IdleSweep, SweepRecs, SweepOK, NilOr

(* Writing one row, or one call record, disturbs no other.                 *)
LEMMA WriteRow ==
  ASSUME RunsInv, NEW id \in RunIds, NEW row \in Row, RowOK(row),
         id \in ClientIds \cup minted, runs' = [runs EXCEPT ![id] = row], UNCHANGED minted
  PROVE  RunsInv'
  BY DEF RunsInv, Listed

LEMMA GotoCall ==
  ASSUME CallInv, NEW c \in Calls, NEW r \in CallRecs, minted \subseteq minted',
         CallOK(r, minted'), Goto(c, r)
  PROVE  CallInv'
<1>1. call' \in [Calls -> CallRecs]
  BY DEF Goto, CallInv
<1>2. ASSUME NEW d \in Calls PROVE CallOK(call'[d], minted')
  <2>1. CASE d = c
    BY <2>1 DEF Goto, CallInv
  <2>2. CASE d # c
    <3>1. call'[d] = call[d] /\ CallOK(call[d], minted)
      BY <2>2 DEF Goto, CallInv
    <3> QED
      BY <3>1 DEF CallOK
  <2> QED
    BY <2>1, <2>2
<1> QED
  BY <1>1, <1>2 DEF CallInv

(* Publishing keeps every channel a bounded sequence of events.            *)
LEMMA PublishType ==
  ASSUME NEW evt \in Events, Publish(evt), ChanInv
  PROVE  ChanInv'
  BY ConstantsAssumption DEF Publish, ChanInv

LEMMA InitIInv == Init => IInv
  BY ConstantsAssumption, NoRowType, IdleCallType
  DEF Init, IInv, RunsInv, Listed, NoRow, CallInv, SweepInv, ChanInv, IdInv, RestInv,
      IdleSweep, SweepRecs, SweepOK, NilOr, Time

-----------------------------------------------------------------------------
(* Every step preserves it                                                 *)

LEMMA StartCallStep ==
  ASSUME IInv, NEW c \in Calls, StartCall(c) PROVE IInv'
<1> USE DEF IInv
<1>1. PICK id \in RunIds, ttl \in TTLs :
        /\ minted' = minted \cup ({id} \ ClientIds)
        /\ Goto(c, [IdleCall EXCEPT !.pc = "create", !.op = "start", !.id = id,
                                    !.at = now, !.ttl = ttl])
  BY DEF StartCall
<1>2. now \in Int /\ ttl \in NilOr(Int)
  BY ConstantsAssumption DEF RestInv, Time, NilOr
<1>3. PICK r : r = [IdleCall EXCEPT !.pc = "create", !.op = "start", !.id = id,
                                    !.at = now, !.ttl = ttl]
  OBVIOUS
<1>4. r \in CallRecs
  BY <1>2, <1>3, NoRowType DEF IdleCall, CallRecs, NilOr
<1>5. CallOK(r, minted')
  BY <1>1, <1>2, <1>3 DEF IdleCall, CallOK
<1>6. CallInv'
  BY <1>1, <1>3, <1>4, <1>5, GotoCall
<1> QED
  BY <1>1, <1>6 DEF StartCall, RunsInv, Listed, SweepInv, ChanInv, IdInv, RestInv

LEMMA CreateStep ==
  ASSUME IInv, NEW c \in Calls, Create(c) PROVE IInv'
<1> USE DEF IInv
<1> DEFINE id == call[c].id
           row == NewRow(call[c].at, call[c].ttl)
<1>1. /\ call[c] \in CallRecs /\ CallOK(call[c], minted) /\ call[c].pc = "create"
      /\ id \in RunIds /\ call[c].at \in Int /\ call[c].ttl \in NilOr(Int)
      /\ id \in ClientIds \cup minted
  BY DEF Create, CallInv, CallOK, CallRecs
<1>2. row \in Row /\ RowOK(row)
  BY <1>1, NewRowType
<1>3. RunsInv'
  <2>1. CASE runs' = [runs EXCEPT ![id] = row]
    BY <1>1, <1>2, <2>1, WriteRow DEF Create
  <2>2. CASE UNCHANGED runs
    BY <2>2 DEF RunsInv, Listed, Create
  <2> QED
    BY <2>1, <2>2 DEF Create
<1>4. CallInv'
  <2>1. PICK r : r = [call[c] EXCEPT !.pc = "publish", !.row = row]
    OBVIOUS
  <2>2. r \in CallRecs
    BY <1>1, <1>2, <2>1 DEF CallRecs
  <2>3. CallOK(r, minted')
    <3>1. r.pc = "publish" /\ r.id = id /\ r.at = call[c].at /\ r.op = call[c].op
      BY <1>1, <2>1 DEF CallRecs
    <3> QED
      BY <1>1, <3>1 DEF Create, CallOK
  <2>4. Goto(c, r) \/ Goto(c, IdleCall)
    BY <2>1 DEF Create
  <2> QED
    BY <2>2, <2>3, <2>4, GotoCall, IdleCallType DEF Create
<1> QED
  BY <1>3, <1>4 DEF Create, SweepInv, ChanInv, IdInv, RestInv

LEMMA RespondStartStep ==
  ASSUME IInv, NEW c \in Calls, RespondStart(c) PROVE IInv'
<1> USE DEF IInv
<1>1. CallInv'
  BY GotoCall, IdleCallType DEF RespondStart
<1>2. IdInv'
  BY DEF RespondStart, CallInv, CallOK, IdInv
<1> QED
  BY <1>1, <1>2 DEF RespondStart, RunsInv, Listed, SweepInv, ChanInv, RestInv

LEMMA ReportCallStep ==
  ASSUME IInv, NEW c \in Calls, ReportCall(c) PROVE IInv'
<1> USE DEF IInv
<1>1. PICK op \in Ops, id \in ClientIds \cup told \cup Listed :
        /\ Goto(c, [IdleCall EXCEPT !.pc = IF op = "heartbeat" THEN "beat" ELSE "find",
                                    !.op = op, !.id = id, !.at = now])
        /\ early' = early \cup ({id} \ (ClientIds \cup told))
  BY DEF ReportCall
<1>2. id \in RunIds /\ id \in ClientIds \cup minted /\ now \in Int
  BY ConstantsAssumption DEF IdInv, RunsInv, Listed, RestInv, Time
<1>3. PICK r : r = [IdleCall EXCEPT !.pc = IF op = "heartbeat" THEN "beat" ELSE "find",
                                    !.op = op, !.id = id, !.at = now]
  OBVIOUS
<1>4. r \in CallRecs
  BY <1>2, <1>3, NoRowType DEF IdleCall, CallRecs, NilOr, Ops
<1>5. CallOK(r, minted')
  BY <1>2, <1>3 DEF IdleCall, CallOK, Ops
<1>6. CallInv'
  BY <1>1, <1>3, <1>4, <1>5, GotoCall DEF ReportCall
<1> QED
  BY <1>1, <1>2, <1>6 DEF ReportCall, RunsInv, Listed, SweepInv, ChanInv, IdInv, RestInv

(* The middle steps of a report change only the pc and one local of the call. *)
LEMMA HeartbeatStep ==
  ASSUME IInv, NEW c \in Calls, Heartbeat(c) PROVE IInv'
<1> USE DEF IInv
<1> DEFINE id == call[c].id
<1>1. /\ call[c] \in CallRecs /\ CallOK(call[c], minted) /\ call[c].pc = "beat"
      /\ id \in RunIds /\ call[c].at \in Int
  BY DEF Heartbeat, CallInv, CallOK
<1>2. RunsInv'
  <2>1. CASE runs[id].status = "running"
    <3>1. PICK row : row = [runs[id] EXCEPT !.beat = call[c].at]
      OBVIOUS
    <3>2. row \in Row /\ RowOK(row)
      BY <1>1, <2>1, <3>1, BeatType DEF RunsInv
    <3> QED
      BY <1>1, <2>1, <3>1, <3>2, WriteRow DEF Heartbeat, RunsInv, Listed
  <2>2. CASE runs[id].status # "running"
    BY <2>2 DEF Heartbeat, RunsInv, Listed
  <2> QED
    BY <2>1, <2>2
<1>3. CallInv'
  <2>1. PICK r : r = [call[c] EXCEPT !.pc = "read"]
    OBVIOUS
  <2>2. r \in CallRecs /\ r.pc = "read" /\ r.id = id /\ r.at = call[c].at /\ r.op = call[c].op
    BY <1>1, <2>1 DEF CallRecs
  <2>3. CallOK(r, minted')
    BY <1>1, <2>2 DEF Heartbeat, CallOK
  <2>4. Goto(c, r) \/ Goto(c, IdleCall)
    BY <2>1 DEF Heartbeat
  <2> QED
    BY <2>2, <2>3, <2>4, GotoCall, IdleCallType DEF Heartbeat
<1> QED
  BY <1>2, <1>3 DEF Heartbeat, SweepInv, ChanInv, IdInv, RestInv

LEMMA FinishFindStep ==
  ASSUME IInv, NEW c \in Calls, FinishFind(c) PROVE IInv'
<1> USE DEF IInv
<1> DEFINE row == runs[call[c].id]
<1>1. /\ call[c] \in CallRecs /\ CallOK(call[c], minted) /\ call[c].pc = "find"
      /\ row \in Row /\ RowOK(row)
  BY DEF FinishFind, CallInv, CallOK, RunsInv
<1>2. CASE row.status = "absent"
  BY <1>2, GotoCall, IdleCallType DEF FinishFind, RunsInv, Listed, SweepInv, ChanInv, IdInv, RestInv
<1>3. CASE row.status # "absent"
  <2>1. PICK r : r = [call[c] EXCEPT !.pc = "finish", !.started = row.started]
    OBVIOUS
  <2>2. row.started \in Int
    BY <1>1, <1>3 DEF RowOK, NoRow
  <2>3. /\ r \in CallRecs /\ r.pc = "finish" /\ r.id = call[c].id /\ r.at = call[c].at
        /\ r.op = call[c].op /\ r.started = row.started
    BY <1>1, <2>1, <2>2 DEF CallRecs, NilOr
  <2>4. CallOK(r, minted')
    BY <1>1, <2>2, <2>3 DEF FinishFind, CallOK
  <2>5. CallInv'
    BY <1>3, <2>1, <2>3, <2>4, GotoCall DEF FinishFind
  <2> QED
    BY <2>5 DEF FinishFind, RunsInv, Listed, SweepInv, ChanInv, IdInv, RestInv
<1> QED
  BY <1>2, <1>3

LEMMA FinishUpdateStep ==
  ASSUME IInv, NEW c \in Calls, FinishUpdate(c) PROVE IInv'
<1> USE DEF IInv
<1> DEFINE q == call[c]
           row == runs[q.id]
<1>1. /\ q \in CallRecs /\ CallOK(q, minted) /\ q.pc = "finish" /\ q.id \in RunIds
      /\ q.at \in Int /\ q.started \in Int /\ q.op \in {"success", "failed"}
      /\ row \in Row /\ RowOK(row)
  BY DEF FinishUpdate, CallInv, CallOK, RunsInv
<1>2. CASE row.status = "absent"
  BY <1>2, GotoCall, IdleCallType DEF FinishUpdate, RunsInv, Listed, SweepInv, ChanInv, IdInv, RestInv
<1>3. CASE row.status # "absent"
  <2>1. PICK new : new = Settle(row, q.op, q.at, Millis(q.at - q.started))
    OBVIOUS
  <2>2. new \in Row /\ RowOK(new)
    BY <1>1, <1>3, <2>1, SettleType, MillisType DEF Settled
  <2>3. RunsInv'
    BY <1>1, <1>3, <2>1, <2>2, WriteRow DEF FinishUpdate, RunsInv, Listed
  <2>4. PICK r : r = [call[c] EXCEPT !.pc = "read"]
    OBVIOUS
  <2>5. r \in CallRecs /\ r.pc = "read" /\ r.id = q.id /\ r.at = q.at /\ r.op = q.op
    BY <1>1, <2>4 DEF CallRecs
  <2>6. CallOK(r, minted')
    BY <1>1, <2>5 DEF FinishUpdate, CallOK
  <2>7. CallInv'
    BY <1>3, <2>4, <2>5, <2>6, GotoCall DEF FinishUpdate
  <2> QED
    BY <2>3, <2>7 DEF FinishUpdate, SweepInv, ChanInv, IdInv, RestInv
<1> QED
  BY <1>2, <1>3

LEMMA ReadLatestStep ==
  ASSUME IInv, NEW c \in Calls, ReadLatest(c) PROVE IInv'
<1> USE DEF IInv
<1> DEFINE row == runs[call[c].id]
<1>1. /\ call[c] \in CallRecs /\ CallOK(call[c], minted) /\ call[c].pc = "read"
      /\ row \in Row
  BY DEF ReadLatest, CallInv, CallOK, RunsInv
<1>2. PICK r : r = [call[c] EXCEPT !.pc = "publish", !.row = row]
  OBVIOUS
<1>3. /\ r \in CallRecs /\ r.pc = "publish" /\ r.id = call[c].id /\ r.at = call[c].at
      /\ r.op = call[c].op
  BY <1>1, <1>2 DEF CallRecs
<1>4. CallOK(r, minted')
  BY <1>1, <1>3 DEF ReadLatest, CallOK
<1>5. Goto(c, r) \/ Goto(c, IdleCall)
  BY <1>2 DEF ReadLatest
<1>6. CallInv'
  BY <1>3, <1>4, <1>5, GotoCall, IdleCallType DEF ReadLatest
<1> QED
  BY <1>6 DEF ReadLatest, RunsInv, Listed, SweepInv, ChanInv, IdInv, RestInv

LEMMA PublishCallStep ==
  ASSUME IInv, NEW c \in Calls, PublishCall(c) PROVE IInv'
<1> USE DEF IInv
<1>1. /\ call[c] \in CallRecs /\ CallOK(call[c], minted) /\ call[c].pc = "publish"
      /\ call[c].id \in RunIds /\ call[c].row \in Row /\ call[c].op \in Ops \cup {"start"}
  BY DEF PublishCall, CallInv, CallOK, CallRecs
<1>2. Event(EventType[call[c].op], call[c].id, call[c].row) \in Events
  BY <1>1 DEF Event, Events, EventType, Ops
<1>3. ChanInv'
  BY <1>2, PublishType DEF PublishCall
<1>4. PICK r : r = [call[c] EXCEPT !.pc = "respond"]
  OBVIOUS
<1>5. /\ r \in CallRecs /\ r.pc = "respond" /\ r.id = call[c].id /\ r.at = call[c].at
      /\ r.op = call[c].op
  BY <1>1, <1>4 DEF CallRecs
<1>6. CallOK(r, minted') \/ call[c].op # "start"
  BY <1>1, <1>5 DEF PublishCall, CallOK
<1>7. (call[c].op = "start" /\ Goto(c, r)) \/ Goto(c, IdleCall)
  BY <1>4 DEF PublishCall
<1>8. CallInv'
  BY <1>5, <1>6, <1>7, GotoCall, IdleCallType DEF PublishCall
<1> QED
  BY <1>3, <1>8 DEF PublishCall, RunsInv, Listed, SweepInv, IdInv, RestInv

LEMMA SweepMarkStep ==
  ASSUME IInv, SweepMark PROVE IInv'
<1> USE DEF IInv
<1>1. PICK k \in sweep.cands :
        \/ /\ Marks(runs[k.id])
           /\ runs' = [runs EXCEPT ![k.id] =
                  Settle(runs[k.id], "timeout", sweep.at, Millis(sweep.at - k.ref))]
           /\ sweep' = [sweep EXCEPT !.cands = sweep.cands \ {k}, !.pc = "get", !.cur = k.id]
        \/ /\ sweep' = [sweep EXCEPT !.cands = sweep.cands \ {k}]
           /\ UNCHANGED runs
  BY DEF SweepMark
<1>2. /\ k.id \in RunIds /\ k.ref \in Int /\ sweep.at \in Int /\ sweep \in SweepRecs
      /\ sweep.pc = "mark"
  BY DEF SweepMark, SweepInv, SweepRecs, SweepOK
<1>3. RunsInv'
  <2>1. CASE UNCHANGED runs
    BY <2>1 DEF SweepMark, RunsInv, Listed
  <2>2. CASE /\ Marks(runs[k.id])
             /\ runs' = [runs EXCEPT ![k.id] =
                    Settle(runs[k.id], "timeout", sweep.at, Millis(sweep.at - k.ref))]
    <3>1. PICK new : new = Settle(runs[k.id], "timeout", sweep.at, Millis(sweep.at - k.ref))
      OBVIOUS
    <3>2. new \in Row /\ RowOK(new)
      BY <1>2, <2>2, <3>1, SettleType, MillisType DEF Marks, Settled, RunsInv
    <3> QED
      BY <1>2, <2>2, <3>1, <3>2, WriteRow DEF SweepMark, Marks, RunsInv, Listed
  <2> QED
    BY <1>1, <2>1, <2>2
<1>4. SweepInv'
  BY <1>1, <1>2 DEF SweepInv, SweepRecs, SweepOK, NilOr
<1> QED
  BY <1>3, <1>4 DEF SweepMark, CallInv, ChanInv, IdInv, RestInv

LEMMA SweepPublishStep ==
  ASSUME IInv, SweepPublish PROVE IInv'
<1> USE DEF IInv
<1>1. /\ Head(sweep.done) \in [id : RunIds, row : Row]
      /\ Tail(sweep.done) \in Seq([id : RunIds, row : Row])
  BY HeadTailProperties DEF SweepPublish, SweepInv, SweepRecs
<1>2. Event("task.timeout", Head(sweep.done).id, Head(sweep.done).row) \in Events
  BY <1>1 DEF Event, Events
<1>3. ChanInv'
  BY <1>2, PublishType DEF SweepPublish
<1>4. SweepInv'
  BY <1>1 DEF SweepPublish, SweepInv, SweepRecs, SweepOK
<1> QED
  BY <1>3, <1>4 DEF SweepPublish, RunsInv, Listed, CallInv, IdInv, RestInv

(* The steps of a pass that touch neither the table nor the channels.      *)
LEMMA SweepOtherStep ==
  ASSUME IInv, SweepStart \/ SweepSelect \/ SweepGet \/ SweepEnd \/ SweepDbError
  PROVE  IInv'
<1> USE DEF IInv
<1>1. SweepInv'
  <2>1. CASE SweepStart
    <3>1. now \in Int
      BY ConstantsAssumption DEF RestInv, Time
    <3>2. sweep' = [IdleSweep EXCEPT !.pc = "select", !.at = now]
      BY <2>1 DEF SweepStart
    <3> QED
      BY <3>1, <3>2, IdleSweepType DEF IdleSweep, SweepInv, SweepRecs, SweepOK, NilOr
  <2>2. CASE SweepSelect
    <3> DEFINE ks == {[id |-> id, ref |-> runs[id].beat] :
                        id \in {i \in RunIds : /\ runs[i].status = "running" /\ runs[i].ttl # Nil
                                              /\ Expired(runs[i], sweep.at)}}
    <3>1. ks \in SUBSET [id : RunIds, ref : Int]
      BY DEF RunsInv, RowOK, NoRow
    <3>2. sweep' = [sweep EXCEPT !.pc = "mark", !.cands = ks]
      BY <2>2 DEF SweepSelect
    <3> HIDE DEF ks
    <3> QED
      BY <2>2, <3>1, <3>2 DEF SweepSelect, SweepInv, SweepRecs, SweepOK
  <2>3. CASE SweepGet
    <3>1. [id |-> sweep.cur, row |-> runs[sweep.cur]] \in [id : RunIds, row : Row]
      BY <2>3 DEF SweepGet, SweepInv, SweepOK, RunsInv
    <3>2. CASE sweep' = IdleSweep
      BY <3>2, IdleSweepType DEF SweepInv
    <3>3. CASE sweep' = [sweep EXCEPT !.pc = "mark", !.cur = Nil,
                           !.done = Append(sweep.done, [id |-> sweep.cur, row |-> runs[sweep.cur]])]
      <4>1. Append(sweep.done, [id |-> sweep.cur, row |-> runs[sweep.cur]])
              \in Seq([id : RunIds, row : Row])
        BY <3>1, AppendProperties DEF SweepInv, SweepRecs
      <4> QED
        BY <2>3, <3>3, <4>1 DEF SweepGet, SweepInv, SweepRecs, SweepOK, NilOr
    <3> QED
      BY <2>3, <3>2, <3>3 DEF SweepGet
  <2>4. CASE SweepEnd \/ SweepDbError
    BY <2>4, IdleSweepType DEF SweepEnd, SweepDbError, SweepInv
  <2> QED
    BY <2>1, <2>2, <2>3, <2>4
<1>2. RestInv'
  BY ConstantsAssumption
  DEF SweepStart, SweepSelect, SweepGet, SweepEnd, SweepDbError, RestInv
<1> QED
  BY <1>1, <1>2 DEF SweepStart, SweepSelect, SweepGet, SweepEnd, SweepDbError,
                    RunsInv, Listed, CallInv, ChanInv, IdInv

LEMMA DeleteStep ==
  ASSUME IInv, DeleteOlderThan PROVE IInv'
<1> USE DEF IInv
<1>1. RunsInv'
  BY NoRowType DEF DeleteOlderThan, RunsInv, Listed, NoRow
<1> QED
  BY <1>1 DEF DeleteOlderThan, CallInv, SweepInv, ChanInv, IdInv, RestInv, NilOr

LEMMA StepIInv == IInv /\ [Next]_vars => IInv'
<1> SUFFICES ASSUME IInv, [Next]_vars PROVE IInv'
  OBVIOUS
<1> USE DEF IInv
<1>1. ASSUME Tick PROVE IInv'
  BY <1>1, ConstantsAssumption
  DEF Tick, Time, RunsInv, Listed, CallInv, SweepInv, ChanInv, IdInv, RestInv
<1>2. ASSUME NEW c \in Calls, CallStep(c) PROVE IInv'
  <2>1. CASE CallDbError(c)
    <3>1. CallInv'
      BY <2>1, GotoCall, IdleCallType DEF CallDbError
    <3> QED
      BY <2>1, <3>1, ConstantsAssumption
      DEF CallDbError, RunsInv, Listed, SweepInv, ChanInv, IdInv, RestInv
  <2> QED
    BY <1>2, <2>1, StartCallStep, CreateStep, RespondStartStep, ReportCallStep, HeartbeatStep,
       FinishFindStep, FinishUpdateStep, ReadLatestStep, PublishCallStep
    DEF CallStep
<1>3. ASSUME SweepStep \/ SweepDbError PROVE IInv'
  BY <1>3, SweepMarkStep, SweepPublishStep, SweepOtherStep DEF SweepStep
<1>4. ASSUME CleanStart \/ DeleteOlderThan \/ CleanDbError PROVE IInv'
  <2>1. CASE CleanStart \/ CleanDbError
    BY <2>1, ConstantsAssumption
    DEF CleanStart, CleanDbError, Time, RunsInv, Listed, CallInv, SweepInv, ChanInv, IdInv, RestInv, NilOr
  <2> QED
    BY <1>4, <2>1, DeleteStep
<1>5. ASSUME NEW s \in Subs, Deliver(s) PROVE IInv'
  <2>1. Tail(chan[s]) \in Seq(Events) /\ Len(Tail(chan[s])) <= Cap
    BY <1>5, HeadTailProperties, ConstantsAssumption DEF Deliver, ChanInv
  <2>2. ChanInv'
    BY <1>5, <2>1 DEF Deliver, ChanInv
  <2> QED
    BY <1>5, <2>2 DEF Deliver, RunsInv, Listed, CallInv, SweepInv, IdInv, RestInv
<1>6. ASSUME Crash PROVE IInv'
  BY <1>6, ConstantsAssumption, IdleCallType
  DEF Crash, IdleSweep, SweepRecs, SweepOK, RunsInv, Listed, CallInv, SweepInv, ChanInv, IdInv,
      RestInv, NilOr
<1>7. ASSUME UNCHANGED vars PROVE IInv'
  BY <1>7 DEF vars, RunsInv, Listed, CallInv, SweepInv, ChanInv, IdInv, RestInv
<1> QED
  BY <1>1, <1>2, <1>3, <1>4, <1>5, <1>6, <1>7 DEF Next

LEMMA IInvAlways == Spec => []IInv
  BY InitIInv, StepIInv, PTL DEF Spec

-----------------------------------------------------------------------------
(* Theorems                                                                *)

(* The state is well typed and no channel outgrows its capacity.           *)
THEOREM TypeCorrect == Spec => []TypeOK
<1>1. IInv => TypeOK
  BY DEF IInv, TypeOK, RunsInv, CallInv, SweepInv, ChanInv, IdInv, RestInv, NilOr
<1> QED
  BY <1>1, IInvAlways, PTL

(* Exactly the settled rows of task_runs carry a finish time and duration. *)
THEOREM RowsStamped == Spec => []FinishedRowsAreStamped
<1>1. ASSUME IInv, NEW id \in RunIds
      PROVE  IF runs[id].status \in Settled
               THEN runs[id].finished # Nil /\ runs[id].dur # Nil
               ELSE runs[id].finished = Nil /\ runs[id].dur = Nil
  <2>1. RowOK(runs[id])
    BY <1>1 DEF IInv, RunsInv
  <2>2. CASE runs[id] = NoRow
    BY <2>2 DEF NoRow, Settled
  <2>3. CASE runs[id] # NoRow
    BY <2>1, <2>3, ConstantsAssumption DEF RowOK, Settled
  <2> QED
    BY <2>2, <2>3
<1>2. IInv => FinishedRowsAreStamped
  BY <1>1 DEF FinishedRowsAreStamped
<1> QED
  BY <1>2, IInvAlways, PTL

(* What a step that writes at most the row of id does to the status seen by  *)
(* the abstract specification.                                             *)
LEMMA StatusOfWrite ==
  ASSUME RunsInv, NEW id \in RunIds, NEW row, runs' = [runs EXCEPT ![id] = row]
  PROVE  [i \in RunIds |-> runs[i].status]' =
           [[i \in RunIds |-> runs[i].status] EXCEPT ![id] = row.status]
  BY DEF RunsInv

(* The fields by which each way of writing a row is seen.                  *)
LEMMA WrittenStatus ==
  ASSUME NEW row \in Row, NEW status, NEW at, NEW dur, NEW ttl
  PROVE  /\ NewRow(at, ttl).status = "running"
         /\ Settle(row, status, at, dur).status = status
         /\ [row EXCEPT !.beat = at].status = row.status
<1>1. NewRow(at, ttl).status = "running"
  BY DEF NewRow, NoRow
<1>2. Settle(row, status, at, dur).status = status
  <2>1. SUFFICES ASSUME NEW q, q = Settle(row, status, at, dur) PROVE q.status = status
    OBVIOUS
  <2> QED
    BY <2>1 DEF Settle, Row
<1>3. [row EXCEPT !.beat = at].status = row.status
  <2>1. SUFFICES ASSUME NEW q, q = [row EXCEPT !.beat = at] PROVE q.status = row.status
    OBVIOUS
  <2> QED
    BY <2>1 DEF Row
<1> QED
  BY <1>1, <1>2, <1>3

(* The five actions that write task_runs.                                  *)
LEMMA Writers ==
  ASSUME [Next]_vars, ~ UNCHANGED runs
  PROVE  \/ \E c \in Calls : Create(c) \/ Heartbeat(c) \/ FinishUpdate(c)
         \/ SweepMark \/ DeleteOlderThan
  BY DEF Next, vars, Tick, CallStep, StartCall, RespondStart, ReportCall, FinishFind,
     ReadLatest, PublishCall, CallDbError, SweepStep, SweepStart, SweepSelect, SweepGet,
     SweepPublish, SweepEnd, SweepDbError, CleanStart, CleanDbError, Deliver, Crash

LEMMA LifecycleStep ==
  ASSUME IInv, [Next]_vars
  PROVE  [Lifecycle!Next]_([id \in RunIds |-> runs[id].status])
<1> DEFINE status == [id \in RunIds |-> runs[id].status]
<1> SUFFICES Lifecycle!Next \/ status' = status
  OBVIOUS
<1>1. ASSUME UNCHANGED runs PROVE status' = status
  BY <1>1
<1>2. ASSUME NEW c \in Calls, Create(c) PROVE Lifecycle!Next \/ status' = status
  <2>1. call[c].id \in RunIds
    BY <1>2 DEF Create, IInv, CallInv, CallOK
  <2>2. CASE UNCHANGED runs
    BY <1>1, <2>2
  <2>3. CASE runs[call[c].id].status = "absent"
    <3>1. PICK row : row = NewRow(call[c].at, call[c].ttl) /\ runs' = [runs EXCEPT ![call[c].id] = row]
      BY <1>2, <2>3 DEF Create
    <3>2. row.status = "running"
      BY <3>1 DEF NewRow, NoRow
    <3>3. status' = [status EXCEPT ![call[c].id] = row.status]
      BY <2>1, <3>1, StatusOfWrite DEF IInv
    <3>4. Lifecycle!Begin(call[c].id)
      BY <2>1, <2>3, <3>2, <3>3 DEF Lifecycle!Begin
    <3> QED
      BY <2>1, <3>4 DEF Lifecycle!Next, Lifecycle!Begin
  <2> QED
    BY <1>2, <2>2, <2>3 DEF Create
<1>3. ASSUME NEW c \in Calls, Heartbeat(c) PROVE Lifecycle!Next \/ status' = status
  <2>1. call[c].id \in RunIds
    BY <1>3 DEF Heartbeat, IInv, CallInv, CallOK
  <2>2. CASE UNCHANGED runs
    BY <1>1, <2>2
  <2>3. CASE runs' = [runs EXCEPT ![call[c].id] = [runs[call[c].id] EXCEPT !.beat = call[c].at]]
    <3>1. PICK row : /\ row = [runs[call[c].id] EXCEPT !.beat = call[c].at]
                     /\ runs' = [runs EXCEPT ![call[c].id] = row]
      BY <2>3
    <3>2. row.status = runs[call[c].id].status
      BY <2>1, <3>1, WrittenStatus DEF IInv, RunsInv
    <3> QED
      BY <2>1, <3>1, <3>2, StatusOfWrite DEF IInv
  <2> QED
    BY <1>3, <2>2, <2>3 DEF Heartbeat
<1>4. ASSUME NEW c \in Calls, FinishUpdate(c) PROVE Lifecycle!Next \/ status' = status
  <2> DEFINE q == call[c]
  <2>1. q.id \in RunIds /\ q.op \in {"success", "failed"}
    BY <1>4 DEF FinishUpdate, IInv, CallInv, CallOK
  <2>2. CASE UNCHANGED runs
    BY <1>1, <2>2
  <2>3. CASE runs[q.id].status # "absent"
    <3>1. PICK row : /\ row = Settle(runs[q.id], q.op, q.at, Millis(q.at - q.started))
                     /\ runs' = [runs EXCEPT ![q.id] = row]
      BY <1>4, <2>3 DEF FinishUpdate
    <3>2. row.status = q.op
      BY <2>1, <3>1, WrittenStatus DEF IInv, RunsInv
    <3>3. status' = [status EXCEPT ![q.id] = row.status]
      BY <2>1, <3>1, StatusOfWrite DEF IInv
    <3>4. Lifecycle!Report(q.id)
      BY <2>1, <2>3, <3>2, <3>3 DEF Lifecycle!Report
    <3> QED
      BY <2>1, <3>4 DEF Lifecycle!Next, Lifecycle!Report
  <2> QED
    BY <1>4, <2>2, <2>3 DEF FinishUpdate
<1>5. ASSUME SweepMark PROVE Lifecycle!Next \/ status' = status
  <2>1. CASE UNCHANGED runs
    BY <1>1, <2>1
  <2>2. ASSUME NEW k \in sweep.cands, Marks(runs[k.id]),
               runs' = [runs EXCEPT ![k.id] =
                  Settle(runs[k.id], "timeout", sweep.at, Millis(sweep.at - k.ref))]
        PROVE  Lifecycle!Next
    <3>1. PICK id \in RunIds : id = k.id
      BY <2>2 DEF IInv, SweepInv, SweepRecs
    <3>2. PICK row : /\ row = Settle(runs[id], "timeout", sweep.at, Millis(sweep.at - k.ref))
                     /\ runs' = [runs EXCEPT ![id] = row]
      BY <2>2, <3>1
    <3>3. row.status = "timeout" /\ runs[id].status = "running"
      BY <2>2, <3>1, <3>2, WrittenStatus DEF Marks, IInv, RunsInv
    <3>4. status' = [status EXCEPT ![id] = row.status]
      BY <3>2, StatusOfWrite DEF IInv
    <3>5. Lifecycle!Expire(id)
      BY <3>3, <3>4 DEF Lifecycle!Expire
    <3> QED
      BY <3>5 DEF Lifecycle!Next, Lifecycle!Begin, Lifecycle!Report, Lifecycle!Expire
  <2> QED
    BY <1>5, <2>1, <2>2 DEF SweepMark
<1>6. ASSUME DeleteOlderThan PROVE Lifecycle!Next \/ status' = status
  <2> DEFINE ids == {id \in RunIds : Purgeable(runs[id], cutoff)}
  <2>1. \A id \in ids : runs[id].status \in Settled
    BY ConstantsAssumption DEF Purgeable, IInv, RunsInv, RowOK, NoRow
  <2>2. status' = [id \in RunIds |-> IF id \in ids THEN "absent" ELSE status[id]]
    BY <1>6 DEF DeleteOlderThan, NoRow
  <2>3. ids \in SUBSET {id \in RunIds : status[id] \in Lifecycle!Settled}
    BY <2>1 DEF Settled, Lifecycle!Settled
  <2>4. Lifecycle!Forget
    BY <2>2, <2>3 DEF Lifecycle!Forget
  <2> QED
    BY <2>4 DEF Lifecycle!Next
<1> QED
  BY <1>1, <1>2, <1>3, <1>4, <1>5, <1>6, Writers

(* The status column implements RunLifecycle: every statement of every     *)
(* handler and background pass is a legal status change or none at all.    *)
THEOREM LifecycleImplemented == Spec => ImplementsLifecycle
<1>1. Init => Lifecycle!Init
  BY DEF Init, NoRow, Lifecycle!Init
<1> QED
  BY <1>1, LifecycleStep, IInvAlways, PTL DEF Spec, ImplementsLifecycle, Lifecycle!Spec

(* A row the cleaner removes was finished for longer than the window.      *)
THEOREM PurgeOnlyOld == Spec => PurgedOnlyWhenOld
<1>1. ASSUME IInv, [Next]_vars, NEW id \in RunIds,
             runs[id].status # "absent", runs'[id].status = "absent"
      PROVE  runs[id].finished # Nil /\ runs[id].finished + Retain < now
  <2>1. CASE DeleteOlderThan
    <3>1. Purgeable(runs[id], cutoff) /\ cutoff \in Int /\ cutoff + Retain <= now
      BY <1>1, <2>1 DEF DeleteOlderThan, IInv, RestInv
    <3>2. runs[id].finished \in Int /\ now \in Int /\ Retain \in Int
      BY <1>1, <3>1, ConstantsAssumption
      DEF Purgeable, IInv, RunsInv, RowOK, NoRow, RestInv, Time
    <3> QED
      BY <3>1, <3>2 DEF Purgeable
  <2>2. CASE ~DeleteOlderThan
    <3>1. ASSUME NEW k \in RunIds, NEW row, runs' = [runs EXCEPT ![k] = row],
                 row.status # "absent"
          PROVE  FALSE
      BY <1>1, <3>1 DEF IInv, RunsInv
    <3>2. ASSUME NEW c \in Calls, Create(c) PROVE FALSE
      <4>1. PICK row : row = NewRow(call[c].at, call[c].ttl)
        OBVIOUS
      <4>2. row.status = "running"
        BY <4>1 DEF NewRow, NoRow
      <4> QED
        BY <1>1, <3>1, <3>2, <4>1, <4>2 DEF Create, IInv, CallInv, CallOK
    <3>3. ASSUME NEW c \in Calls, Heartbeat(c) PROVE FALSE
      <4>1. PICK row : row = [runs[call[c].id] EXCEPT !.beat = call[c].at]
        OBVIOUS
      <4>2. call[c].id \in RunIds
        BY <1>1, <3>3 DEF Heartbeat, IInv, CallInv, CallOK
      <4>3. row.status = runs[call[c].id].status
        BY <1>1, <4>1, <4>2, WrittenStatus DEF IInv, RunsInv
      <4> QED
        BY <1>1, <3>1, <3>3, <4>1, <4>2, <4>3 DEF Heartbeat
    <3>4. ASSUME NEW c \in Calls, FinishUpdate(c) PROVE FALSE
      <4> DEFINE q == call[c]
      <4>1. PICK row : row = Settle(runs[q.id], q.op, q.at, Millis(q.at - q.started))
        OBVIOUS
      <4>2. q.id \in RunIds /\ q.op \in {"success", "failed"}
        BY <1>1, <3>4 DEF FinishUpdate, IInv, CallInv, CallOK
      <4>3. row.status = q.op
        BY <1>1, <4>1, <4>2, WrittenStatus DEF IInv, RunsInv
      <4> QED
        BY <1>1, <3>1, <3>4, <4>1, <4>2, <4>3 DEF FinishUpdate
    <3>5. ASSUME SweepMark PROVE FALSE
      <4>1. PICK k \in sweep.cands :
              runs' = [runs EXCEPT ![k.id] =
                 Settle(runs[k.id], "timeout", sweep.at, Millis(sweep.at - k.ref))]
        BY <1>1, <3>5 DEF SweepMark
      <4>2. PICK row : row = Settle(runs[k.id], "timeout", sweep.at, Millis(sweep.at - k.ref))
        OBVIOUS
      <4>3. k.id \in RunIds
        BY <1>1 DEF IInv, SweepInv, SweepRecs
      <4>4. row.status = "timeout"
        BY <1>1, <4>2, <4>3, WrittenStatus DEF IInv, RunsInv
      <4> QED
        BY <3>1, <4>1, <4>2, <4>3, <4>4
    <3> QED
      BY <1>1, <2>2, <3>2, <3>3, <3>4, <3>5, Writers
  <2> QED
    BY <2>1, <2>2
<1>2. IInv /\ [Next]_vars =>
        [\A id \in RunIds : runs[id].status # "absent" /\ runs'[id].status = "absent"
           => runs[id].finished # Nil /\ runs[id].finished + Retain < now]_vars
  BY <1>1
<1> QED
  BY <1>2, IInvAlways, PTL DEF Spec, PurgedOnlyWhenOld
=============================================================================
