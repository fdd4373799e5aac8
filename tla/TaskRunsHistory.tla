-------------------------- MODULE TaskRunsHistory ---------------------------
(***************************************************************************)
(* More proofs about TaskRuns: those of its properties that need to know   *)
(* where an id, a stamp or a row in flight comes from.  A handler, a sweep *)
(* and an event each carry a copy of something the table has had; what     *)
(* makes the copies good is that a row keeps its start and its TTL as long *)
(* as it is there, and that a server-minted id names one row only.         *)
(***************************************************************************)
EXTENDS TaskRunsProofs

Present(id) == runs[id].status # "absent"

-----------------------------------------------------------------------------
(* The inductive invariant                                                 *)

Reporting(q) ==
  q.pc \in {"beat", "find", "finish", "read"} \/ (q.pc = "publish" /\ q.op # "start")

(* A report on a server-minted run was made once the row was there, so      *)
(* after its start; what it has read of the row still holds.               *)
ReportOK(q) ==
  Reporting(q) =>
    /\ q.op \in Ops /\ q.at <= now /\ (q.pc = "beat" => q.op = "heartbeat")
    /\ q.id \in ClientIds \cup told \cup early
    /\ q.id \notin ClientIds /\ Present(q.id) => runs[q.id].started <= q.at
    /\ NeverReused(q.id) /\ q.pc = "finish" =>
         /\ Present(q.id) => runs[q.id].started = q.started
         /\ Retain = 0 => Present(q.id)
    /\ NeverReused(q.id) /\ q.pc = "read" /\ q.op # "heartbeat" =>
         /\ Present(q.id) => runs[q.id].status \in Settled
         /\ Retain = 0 => Present(q.id)
    /\ NeverReused(q.id) /\ q.pc = "publish" /\ q.op # "heartbeat" => q.row.status \in Settled

(* An id no statement has put into the table yet.                          *)
Fresh(id) ==
  /\ ~Present(id)
  /\ \A k \in sweep.cands : k.id # id
  /\ sweep.pc = "get" => sweep.cur # id

(* While Start works on a server-minted id no other call starts it, and    *)
(* nobody knows it before its row is there.                                *)
StartOK(c) ==
  call[c].pc # "idle" /\ call[c].op = "start" =>
    /\ call[c].pc = "create" => call[c].at <= now
    /\ call[c].id \notin ClientIds =>
         /\ call[c].id \notin told
         /\ \A d \in Calls : d # c /\ call[d].pc # "idle" /\ call[d].op = "start"
                               => call[d].id # call[c].id
         /\ call[c].pc = "create" => Fresh(call[c].id) /\ call[c].id \notin early

(* The candidates of a pass are as overdue as the pass took them to be.    *)
CandOK(k) ==
  /\ k.id \in ClientIds \cup minted
  /\ k.id \notin ClientIds /\ Present(k.id) => runs[k.id].started <= k.ref
  /\ NeverReused(k.id) =>
       /\ Retain = 0 => Present(k.id)
       /\ Present(k.id) =>
            /\ runs[k.id].ttl # Nil
            /\ Fits(runs[k.id].ttl) => sweep.at - k.ref > runs[k.id].ttl

CurOK(id) ==
  /\ id \in ClientIds \cup minted
  /\ NeverReused(id) => /\ Retain = 0 => Present(id)
                        /\ Present(id) => runs[id].status \in Settled

PassInv ==
  /\ sweep.pc # "idle" => sweep.at <= now
  /\ \A k \in sweep.cands : CandOK(k)
  /\ sweep.pc = "get" => CurOK(sweep.cur)
  /\ \A i \in DOMAIN sweep.done :
       NeverReused(sweep.done[i].id) => sweep.done[i].row.status \in Settled

Agrees(id) ==
  NeverReused(id) =>
    /\ runs[id].status \in {"success", "failed"} =>
         runs[id].dur = Millis(runs[id].finished - runs[id].started)
    /\ runs[id].status = "timeout" =>
         /\ runs[id].ttl # Nil
         /\ Fits(runs[id].ttl) => runs[id].dur >= Millis(runs[id].ttl)

InOrder(id) ==
  /\ Present(id) => runs[id].started <= runs[id].beat /\ runs[id].beat <= now
  /\ runs[id].status \in {"success", "failed"} =>
       runs[id].started <= runs[id].finished /\ runs[id].finished <= now
  /\ runs[id].status = "timeout" /\ Fits(runs[id].ttl) =>
       runs[id].finished - runs[id].started > runs[id].ttl

RowInv ==
  \A id \in RunIds :
    /\ Agrees(id)
    /\ id \notin ClientIds => InOrder(id) /\ (Present(id) => id \in minted)

(* An event on a server-minted run is a start nobody will repeat, a report *)
(* by somebody who was answered or came early, or a timeout.               *)
EventOK(e) ==
  /\ NeverReused(e.id) /\ e.type \in {"task.succeeded", "task.failed", "task.timeout"}
       => e.row.status \in Settled
  /\ e.id \notin ClientIds /\ e.type # "task.timeout" /\ e.type # "task.started"
       => e.id \in told \cup early
  /\ e.id \notin ClientIds /\ e.type = "task.started" =>
       /\ e.id \in minted
       /\ \A c \in Calls :
            call[c].pc \in {"create", "publish"} /\ call[c].op = "start" => call[c].id # e.id

StartFirst(q, known) ==
  \A i, j \in DOMAIN q :
    i < j /\ q[i].id = q[j].id /\ q[i].id \notin ClientIds \cup known /\ q[j].type = "task.started"
      => q[i].type = "task.timeout"

EventInv ==
  \A s \in Subs : StartFirst(chan[s], early) /\ \A i \in DOMAIN chan[s] : EventOK(chan[s][i])

ReportInv == \A c \in Calls : ReportOK(call[c])
StartInv == \A c \in Calls : StartOK(c)
CutoffInv == Retain = 0 => cutoff = Nil

Hist == ReportInv /\ StartInv /\ PassInv /\ RowInv /\ EventInv /\ CutoffInv

LEMMA InitHist == Init => Hist
<1> SUFFICES ASSUME Init PROVE Hist
  OBVIOUS
<1>1. ReportInv /\ StartInv
  BY DEF Init, IdleCall, ReportInv, ReportOK, Reporting, StartInv, StartOK
<1>2. PassInv
  BY EmptySeq DEF Init, IdleSweep, PassInv
<1>3. RowInv
  BY DEF Init, NoRow, RowInv, Agrees, InOrder, Present, Settled
<1>4. EventInv
  BY EmptySeq DEF Init, EventInv, StartFirst
<1> QED
  BY <1>1, <1>2, <1>3, <1>4 DEF Hist, CutoffInv, Init

-----------------------------------------------------------------------------
(* Call records                                                            *)

OthersWait(c) == \A d \in Calls \ {c} : call'[d] = call[d]

LEMMA Moved ==
  ASSUME IInv, NEW c \in Calls, NEW q, Goto(c, q)
  PROVE  call'[c] = q /\ OthersWait(c)
  BY DEF IInv, CallInv, Goto, OthersWait

LEMMA IdleFields == IdleCall.pc = "idle"
  BY DEF IdleCall

(* A call that goes on keeps what it was asked to do.                      *)
LEMMA NextStep ==
  ASSUME IInv, NEW c \in Calls, NEW pc, Goto(c, [call[c] EXCEPT !.pc = pc])
  PROVE  /\ call'[c].pc = pc /\ call'[c].op = call[c].op
         /\ call'[c].id = call[c].id /\ call'[c].at = call[c].at
<1>1. PICK q : q = [call[c] EXCEPT !.pc = pc]
  OBVIOUS
<1>2. call[c] \in CallRecs
  BY DEF IInv, CallInv
<1>3. q.pc = pc /\ q.op = call[c].op /\ q.id = call[c].id /\ q.at = call[c].at
  BY <1>1, <1>2 DEF CallRecs
<1> QED
  BY <1>1, <1>3, Moved

LEMMA NextStepWithRow ==
  ASSUME IInv, NEW c \in Calls, NEW row, Goto(c, [call[c] EXCEPT !.pc = "publish", !.row = row])
  PROVE  /\ call'[c].pc = "publish" /\ call'[c].row = row /\ call'[c].op = call[c].op
         /\ call'[c].id = call[c].id /\ call'[c].at = call[c].at
<1>1. PICK q : q = [call[c] EXCEPT !.pc = "publish", !.row = row]
  OBVIOUS
<1>2. call[c] \in CallRecs
  BY DEF IInv, CallInv
<1>3. /\ q.pc = "publish" /\ q.row = row /\ q.op = call[c].op
      /\ q.id = call[c].id /\ q.at = call[c].at
  BY <1>1, <1>2 DEF CallRecs
<1> QED
  BY <1>1, <1>3, Moved

LEMMA NextStepWithStart ==
  ASSUME IInv, NEW c \in Calls, NEW at, Goto(c, [call[c] EXCEPT !.pc = "finish", !.started = at])
  PROVE  /\ call'[c].pc = "finish" /\ call'[c].started = at /\ call'[c].op = call[c].op
         /\ call'[c].id = call[c].id /\ call'[c].at = call[c].at
<1>1. PICK q : q = [call[c] EXCEPT !.pc = "finish", !.started = at]
  OBVIOUS
<1>2. call[c] \in CallRecs
  BY DEF IInv, CallInv
<1>3. /\ q.pc = "finish" /\ q.started = at /\ q.op = call[c].op
      /\ q.id = call[c].id /\ q.at = call[c].at
  BY <1>1, <1>2 DEF CallRecs
<1> QED
  BY <1>1, <1>3, Moved

-----------------------------------------------------------------------------
(* What a step does to one row, field by field                             *)

LEMMA PresentRow ==
  ASSUME IInv, NEW id \in RunIds
  PROVE  /\ runs[id] \in Row /\ runs[id].ttl \in NilOr(Int)
         /\ Present(id) => runs[id].started \in Int /\ runs[id].beat \in Int
         /\ runs[id].status \in Settled => /\ Present(id)
                                           /\ runs[id].finished \in Int /\ runs[id].dur \in Int
<1>1. runs[id] \in Row /\ RowOK(runs[id])
  BY DEF IInv, RunsInv
<1>2. CASE runs[id] = NoRow
  BY <1>1, <1>2 DEF NoRow, Row, Present, Settled
<1>3. CASE runs[id] # NoRow
  BY <1>1, <1>3 DEF RowOK, Row, Present, Settled
<1> QED
  BY <1>2, <1>3

KeepsIdentity(id) == runs'[id].started = runs[id].started /\ runs'[id].ttl = runs[id].ttl

Created(c, id) ==
  /\ call[c].pc = "create" /\ call[c].op = "start" /\ call[c].id = id /\ ~Present(id)
  /\ runs'[id].status = "running" /\ call'[c].pc = "publish"
  /\ runs'[id].started = call[c].at /\ runs'[id].beat = call[c].at

Heard(c, id) ==
  /\ call[c].pc = "beat" /\ call[c].id = id
  /\ runs[id].status = "running" /\ runs'[id].status = "running"
  /\ KeepsIdentity(id) /\ runs'[id].beat = call[c].at

Stamped(id, status, at, dur) ==
  /\ Present(id) /\ KeepsIdentity(id) /\ runs'[id].beat = runs[id].beat
  /\ runs'[id].status = status /\ runs'[id].finished = at /\ runs'[id].dur = dur

Reported(c, id) ==
  /\ call[c].pc = "finish" /\ call[c].id = id /\ call[c].op \in {"success", "failed"}
  /\ Stamped(id, call[c].op, call[c].at, Millis(call[c].at - call[c].started))

TimedOut(k, id) ==
  /\ sweep.pc = "mark" /\ k.id = id /\ runs[id].status = "running"
  /\ Stamped(id, "timeout", sweep.at, Millis(sweep.at - k.ref))

Removed(id) == Retain # 0 /\ runs'[id] = NoRow

Evolves(id) ==
  \/ runs'[id] = runs[id]
  \/ \E c \in Calls : Created(c, id) \/ Heard(c, id) \/ Reported(c, id)
  \/ \E k \in sweep.cands : TimedOut(k, id)
  \/ Removed(id)

(* A written row, seen by its fields.                                      *)
LEMMA SettledRow ==
  ASSUME IInv, NEW i \in RunIds, NEW status, NEW at, NEW dur,
         runs[i].status # "absent", runs' = [runs EXCEPT ![i] = Settle(runs[i], status, at, dur)]
  PROVE  Stamped(i, status, at, dur) /\ \A id \in RunIds \ {i} : runs'[id] = runs[id]
<1>1. runs \in [RunIds -> Row]
  BY DEF IInv, RunsInv
<1>2. PICK row : row = Settle(runs[i], status, at, dur)
  OBVIOUS
<1>3. runs'[i] = row /\ \A id \in RunIds \ {i} : runs'[id] = runs[id]
  BY <1>1, <1>2
<1>4. runs[i] \in Row
  BY <1>1
<1>5. /\ row.status = status /\ row.finished = at /\ row.dur = dur
      /\ row.started = runs[i].started /\ row.beat = runs[i].beat /\ row.ttl = runs[i].ttl
  BY <1>2, <1>4 DEF Settle, Row
<1> QED
  BY <1>3, <1>5 DEF Stamped, KeepsIdentity, Present

LEMMA CreatedRow ==
  ASSUME IInv, NEW c \in Calls, Create(c), NEW id \in RunIds
  PROVE  runs'[id] = runs[id] \/ Created(c, id)
<1>1. call[c].id \in RunIds /\ call[c].op = "start" /\ runs \in [RunIds -> Row]
  BY DEF Create, IInv, RunsInv, CallInv, CallOK
<1>2. PICK row : row = NewRow(call[c].at, call[c].ttl)
  OBVIOUS
<1>3. row.status = "running" /\ row.started = call[c].at /\ row.beat = call[c].at
  BY <1>2 DEF NewRow, NoRow
<1>4. CASE UNCHANGED runs
  BY <1>4
<1>5. CASE runs[call[c].id].status = "absent"
  <2>1. runs' = [runs EXCEPT ![call[c].id] = row]
    BY <1>2, <1>5 DEF Create
  <2>2. CASE id = call[c].id
    <3>1. runs'[id] = row
      BY <1>1, <2>1, <2>2
    <3>2. Goto(c, [call[c] EXCEPT !.pc = "publish", !.row = row])
      BY <1>2, <1>5 DEF Create
    <3>3. call'[c].pc = "publish"
      BY <3>2, NextStepWithRow
    <3> QED
      BY <1>1, <1>3, <1>5, <2>2, <3>1, <3>3 DEF Create, Created, Present
  <2>3. CASE id # call[c].id
    BY <1>1, <2>1, <2>3
  <2> QED
    BY <2>2, <2>3
<1> QED
  BY <1>4, <1>5 DEF Create

LEMMA HeardRow ==
  ASSUME IInv, NEW c \in Calls, Heartbeat(c), NEW id \in RunIds
  PROVE  runs'[id] = runs[id] \/ Heard(c, id)
<1>1. call[c].id \in RunIds /\ runs \in [RunIds -> Row]
  BY DEF Heartbeat, IInv, RunsInv, CallInv, CallOK
<1>2. PICK row : row = [runs[call[c].id] EXCEPT !.beat = call[c].at]
  OBVIOUS
<1>3. runs[call[c].id] \in Row
  BY <1>1
<1>4. /\ row.status = runs[call[c].id].status /\ row.beat = call[c].at
      /\ row.started = runs[call[c].id].started /\ row.ttl = runs[call[c].id].ttl
  BY <1>2, <1>3 DEF Row
<1>5. CASE UNCHANGED runs
  BY <1>5
<1>6. CASE runs[call[c].id].status = "running"
  <2>1. runs' = [runs EXCEPT ![call[c].id] = row]
    BY <1>2, <1>6 DEF Heartbeat
  <2>2. CASE id = call[c].id
    <3>1. runs'[id] = row
      BY <1>1, <2>1, <2>2
    <3> QED
      BY <1>4, <1>6, <2>2, <3>1 DEF Heartbeat, Heard, KeepsIdentity
  <2>3. CASE id # call[c].id
    BY <1>1, <2>1, <2>3
  <2> QED
    BY <2>2, <2>3
<1> QED
  BY <1>5, <1>6 DEF Heartbeat

LEMMA ReportedRow ==
  ASSUME IInv, NEW c \in Calls, FinishUpdate(c), NEW id \in RunIds
  PROVE  runs'[id] = runs[id] \/ Reported(c, id)
<1>1. call[c].id \in RunIds /\ call[c].op \in {"success", "failed"} /\ call[c].pc = "finish"
  BY DEF FinishUpdate, IInv, CallInv, CallOK
<1>2. CASE UNCHANGED runs
  BY <1>2
<1>3. CASE runs[call[c].id].status # "absent"
  <2>1. runs' = [runs EXCEPT ![call[c].id] =
           Settle(runs[call[c].id], call[c].op, call[c].at, Millis(call[c].at - call[c].started))]
    BY <1>3 DEF FinishUpdate
  <2>2. /\ Stamped(call[c].id, call[c].op, call[c].at, Millis(call[c].at - call[c].started))
        /\ \A i \in RunIds \ {call[c].id} : runs'[i] = runs[i]
    BY <1>1, <1>3, <2>1, SettledRow
  <2> QED
    BY <1>1, <2>2 DEF Reported
<1> QED
  BY <1>2, <1>3 DEF FinishUpdate

LEMMA TimedOutRow ==
  ASSUME IInv, SweepMark, NEW id \in RunIds
  PROVE  runs'[id] = runs[id] \/ \E k \in sweep.cands : TimedOut(k, id)
<1>1. CASE UNCHANGED runs
  BY <1>1
<1>2. ASSUME NEW k \in sweep.cands, Marks(runs[k.id]),
             runs' = [runs EXCEPT ![k.id] =
                        Settle(runs[k.id], "timeout", sweep.at, Millis(sweep.at - k.ref))]
      PROVE  runs'[id] = runs[id] \/ TimedOut(k, id)
  <2>1. k.id \in RunIds /\ runs[k.id].status = "running"
    BY <1>2 DEF IInv, SweepInv, SweepRecs, Marks
  <2>2. /\ Stamped(k.id, "timeout", sweep.at, Millis(sweep.at - k.ref))
        /\ \A i \in RunIds \ {k.id} : runs'[i] = runs[i]
    BY <1>2, <2>1, SettledRow
  <2> QED
    BY <2>1, <2>2 DEF SweepMark, TimedOut
<1> QED
  BY <1>1, <1>2 DEF SweepMark

LEMMA RowsEvolve ==
  ASSUME IInv, CutoffInv, [Next]_vars, NEW id \in RunIds
  PROVE  Evolves(id)
<1>1. CASE UNCHANGED runs
  BY <1>1 DEF Evolves
<1>2. ASSUME NEW c \in Calls, Create(c) \/ Heartbeat(c) \/ FinishUpdate(c) PROVE Evolves(id)
  BY <1>2, CreatedRow, HeardRow, ReportedRow DEF Evolves
<1>3. CASE SweepMark
  BY <1>3, TimedOutRow DEF Evolves
<1>4. CASE DeleteOlderThan
  BY <1>4 DEF DeleteOlderThan, CutoffInv, Evolves, Removed
<1> QED
  BY <1>1, <1>2, <1>3, <1>4, Writers

After(id) == runs'[id].status # "absent"

(* What an id that is there keeps, and one that is not and is not being    *)
(* created.                                                                *)
Kept(id) ==
  /\ After(id) =>
       /\ Present(id) /\ KeepsIdentity(id)
       /\ runs[id].status \in Settled => runs'[id].status \in Settled
  /\ Retain = 0 /\ Present(id) => After(id)

Creating(id) ==
  \E c \in Calls : call[c].pc = "create" /\ call[c].op = "start" /\ call[c].id = id

(* What calls and passes have come to rely on.                             *)
LEMMA StillThere ==
  ASSUME IInv, CutoffInv, [Next]_vars, NEW id \in RunIds, Present(id) \/ ~Creating(id)
  PROVE  Kept(id)
<1>1. CASE runs'[id] = runs[id]
  BY <1>1 DEF Kept, After, Present, KeepsIdentity
<1>2. ASSUME NEW c \in Calls, Heard(c, id) \/ Reported(c, id) PROVE Kept(id)
  BY <1>2 DEF Heard, Reported, Stamped, Kept, After, Present, Settled
<1>3. ASSUME NEW k \in sweep.cands, TimedOut(k, id) PROVE Kept(id)
  BY <1>3 DEF TimedOut, Stamped, Kept, After, Present, Settled
<1>4. CASE Removed(id)
  BY <1>4 DEF Removed, Kept, After, Present, NoRow
<1>5. ASSUME NEW c \in Calls PROVE ~Created(c, id)
  BY DEF Created, Creating
<1> QED
  BY <1>1, <1>2, <1>3, <1>4, <1>5, RowsEvolve DEF Evolves

(* Time goes on; ids once drawn, told or reported on early stay so, and    *)
(* only a run that is listed is reported on early.                         *)
LEMMA Onward ==
  ASSUME IInv, [Next]_vars
  PROVE  /\ now \in Int /\ now' \in Int /\ now <= now'
         /\ minted \subseteq minted' /\ told \subseteq told'
         /\ early \subseteq early' /\ early' \subseteq early \cup Listed
<1>1. now \in Int
  BY ConstantsAssumption DEF IInv, RestInv, Time
<1>2. UNCHANGED now \/ now' = now + 1
  BY DEF Next, vars, Tick, CallStep, StartCall, Create, RespondStart, ReportCall, Heartbeat,
     FinishFind, FinishUpdate, ReadLatest, PublishCall, CallDbError, SweepStep, SweepStart,
     SweepSelect, SweepMark, SweepGet, SweepPublish, SweepEnd, SweepDbError, CleanStart,
     DeleteOlderThan, CleanDbError, Deliver, Crash
<1>3. UNCHANGED minted \/ \E c \in Calls : StartCall(c)
  BY DEF Next, vars, Tick, CallStep, Create, RespondStart, ReportCall, Heartbeat,
     FinishFind, FinishUpdate, ReadLatest, PublishCall, CallDbError, SweepStep, SweepStart,
     SweepSelect, SweepMark, SweepGet, SweepPublish, SweepEnd, SweepDbError, CleanStart,
     DeleteOlderThan, CleanDbError, Deliver, Crash
<1>4. UNCHANGED told \/ \E c \in Calls : RespondStart(c)
  BY DEF Next, vars, Tick, CallStep, StartCall, Create, ReportCall, Heartbeat,
     FinishFind, FinishUpdate, ReadLatest, PublishCall, CallDbError, SweepStep, SweepStart,
     SweepSelect, SweepMark, SweepGet, SweepPublish, SweepEnd, SweepDbError, CleanStart,
     DeleteOlderThan, CleanDbError, Deliver, Crash
<1>5. now' \in Int /\ now <= now'
  BY <1>1, <1>2
<1>6. minted \subseteq minted'
  BY <1>3 DEF StartCall
<1>7. told \subseteq told'
  BY <1>4 DEF RespondStart
<1>8. UNCHANGED early \/ \E c \in Calls : ReportCall(c)
  BY DEF Next, vars, Tick, CallStep, StartCall, Create, RespondStart, Heartbeat,
     FinishFind, FinishUpdate, ReadLatest, PublishCall, CallDbError, SweepStep, SweepStart,
     SweepSelect, SweepMark, SweepGet, SweepPublish, SweepEnd, SweepDbError, CleanStart,
     DeleteOlderThan, CleanDbError, Deliver, Crash
<1>9. early \subseteq early' /\ early' \subseteq early \cup Listed
  BY <1>8 DEF ReportCall
<1> QED
  BY <1>1, <1>5, <1>6, <1>7, <1>9

-----------------------------------------------------------------------------
(* What a step does to a call, the sweep, the told ids and a channel       *)

Starts(c) ==
  /\ call'[c].pc = "create" /\ call'[c].op = "start" /\ call'[c].at = now
  /\ call'[c].id \in RunIds /\ (call'[c].id \in ClientIds \/ call'[c].id \notin minted)
  /\ OthersWait(c) /\ UNCHANGED <<now, runs, told, early, sweep, chan>>

Reports(c) ==
  /\ call'[c].pc \in {"beat", "find"} /\ call'[c].op \in Ops /\ call'[c].at = now
  /\ call'[c].id \in ClientIds \cup told \cup Listed
  /\ call'[c].id \in ClientIds \cup told \cup early'
  /\ call'[c].pc = "beat" => call'[c].op = "heartbeat"

Advances(c) ==
  /\ call'[c].op = call[c].op /\ call'[c].id = call[c].id /\ call'[c].at = call[c].at
  /\ \/ call[c].pc = "create" /\ call'[c].pc = "publish"
     \/ call[c].pc = "beat" /\ call'[c].pc = "read"
     \/ /\ call[c].pc = "find" /\ call'[c].pc = "finish"
        /\ call'[c].started = runs[call[c].id].started
        /\ Present(call[c].id) /\ UNCHANGED runs
     \/ /\ call[c].pc = "finish" /\ call'[c].pc = "read"
        /\ runs'[call[c].id].status = call[c].op
     \/ /\ call[c].pc = "read" /\ call'[c].pc = "publish"
        /\ call'[c].row = runs[call[c].id] /\ Present(call[c].id)
     \/ call[c].pc = "publish" /\ call[c].op = "start" /\ call'[c].pc = "respond"

CallEvolves(c) ==
  \/ call'[c] = call[c] \/ call'[c].pc = "idle"
  \/ Starts(c) \/ Reports(c) \/ Advances(c)

LEMMA StartCallEvolves ==
  ASSUME IInv, NEW c \in Calls, StartCall(c) PROVE Starts(c)
<1>1. PICK id \in RunIds, ttl \in TTLs :
        /\ id \in ClientIds \/ id \notin minted
        /\ Goto(c, [IdleCall EXCEPT !.pc = "create", !.op = "start", !.id = id,
                                    !.at = now, !.ttl = ttl])
  BY DEF StartCall
<1>2. PICK q : q = [IdleCall EXCEPT !.pc = "create", !.op = "start", !.id = id,
                                    !.at = now, !.ttl = ttl]
  OBVIOUS
<1>3. q.pc = "create" /\ q.op = "start" /\ q.id = id /\ q.at = now
  BY <1>2 DEF IdleCall
<1>4. call'[c] = q /\ OthersWait(c)
  BY <1>1, <1>2, Moved
<1> QED
  BY <1>1, <1>3, <1>4 DEF StartCall, Starts

LEMMA ReportCallEvolves ==
  ASSUME IInv, NEW c \in Calls, ReportCall(c) PROVE Reports(c)
<1>1. PICK op \in Ops, id \in ClientIds \cup told \cup Listed :
        /\ Goto(c, [IdleCall EXCEPT !.pc = IF op = "heartbeat" THEN "beat" ELSE "find",
                                    !.op = op, !.id = id, !.at = now])
        /\ early' = early \cup ({id} \ (ClientIds \cup told))
  BY DEF ReportCall
<1>2. PICK q : q = [IdleCall EXCEPT !.pc = IF op = "heartbeat" THEN "beat" ELSE "find",
                                    !.op = op, !.id = id, !.at = now]
  OBVIOUS
<1>3. /\ q.pc = IF op = "heartbeat" THEN "beat" ELSE "find"
      /\ q.op = op /\ q.id = id /\ q.at = now
  BY <1>2 DEF IdleCall
<1>4. call'[c] = q
  BY <1>1, <1>2, Moved
<1> QED
  BY <1>1, <1>3, <1>4 DEF Reports

LEMMA GivesUp ==
  ASSUME IInv, NEW c \in Calls, Goto(c, IdleCall) PROVE CallEvolves(c)
  BY Moved, IdleFields DEF CallEvolves

LEMMA OwnStepEvolves ==
  ASSUME IInv, NEW c \in Calls, CallStep(c)
  PROVE  CallEvolves(c) /\ OthersWait(c)
<1>0. OthersWait(c)
  BY Moved DEF CallStep, StartCall, Create, RespondStart, ReportCall, Heartbeat, FinishFind,
     FinishUpdate, ReadLatest, PublishCall, CallDbError, Goto, OthersWait, IInv, CallInv
<1> SUFFICES CallEvolves(c)
  BY <1>0
<1>1. CASE StartCall(c) \/ ReportCall(c)
  BY <1>1, StartCallEvolves, ReportCallEvolves DEF CallEvolves
<1>2. CASE Create(c)
  <2>1. CASE runs[call[c].id].status = "absent"
    <3>1. Goto(c, [call[c] EXCEPT !.pc = "publish", !.row = NewRow(call[c].at, call[c].ttl)])
      BY <1>2, <2>1 DEF Create
    <3> QED
      BY <1>2, <3>1, NextStepWithRow DEF Create, CallEvolves, Advances
  <2>2. CASE runs[call[c].id].status # "absent"
    BY <1>2, <2>2, GivesUp DEF Create
  <2> QED
    BY <2>1, <2>2
<1>3. CASE RespondStart(c) \/ CallDbError(c)
  BY <1>3, GivesUp DEF RespondStart, CallDbError
<1>4. CASE Heartbeat(c)
  <2>1. CASE runs[call[c].id].status = "running"
    <3>1. Goto(c, [call[c] EXCEPT !.pc = "read"])
      BY <1>4, <2>1 DEF Heartbeat
    <3> QED
      BY <1>4, <3>1, NextStep DEF Heartbeat, CallEvolves, Advances
  <2>2. CASE runs[call[c].id].status # "running"
    BY <1>4, <2>2, GivesUp DEF Heartbeat
  <2> QED
    BY <2>1, <2>2
<1>5. CASE FinishFind(c)
  <2>1. CASE runs[call[c].id].status = "absent"
    BY <1>5, <2>1, GivesUp DEF FinishFind
  <2>2. CASE runs[call[c].id].status # "absent"
    <3>1. Goto(c, [call[c] EXCEPT !.pc = "finish", !.started = runs[call[c].id].started])
      BY <1>5, <2>2 DEF FinishFind
    <3> QED
      BY <1>5, <2>2, <3>1, NextStepWithStart DEF FinishFind, CallEvolves, Advances, Present
  <2> QED
    BY <2>1, <2>2
<1>6. CASE FinishUpdate(c)
  <2>1. CASE runs[call[c].id].status = "absent"
    BY <1>6, <2>1, GivesUp DEF FinishUpdate
  <2>2. CASE runs[call[c].id].status # "absent"
    <3>1. Goto(c, [call[c] EXCEPT !.pc = "read"])
      BY <1>6, <2>2 DEF FinishUpdate
    <3>2. call[c].id \in RunIds
      BY <1>6 DEF FinishUpdate, IInv, CallInv, CallOK
    <3>3. Stamped(call[c].id, call[c].op, call[c].at, Millis(call[c].at - call[c].started))
      BY <1>6, <2>2, <3>2, SettledRow DEF FinishUpdate
    <3> QED
      BY <1>6, <3>1, <3>3, NextStep DEF FinishUpdate, CallEvolves, Advances, Stamped
  <2> QED
    BY <2>1, <2>2
<1>7. CASE ReadLatest(c)
  <2>1. CASE runs[call[c].id].status = "absent"
    BY <1>7, <2>1, GivesUp DEF ReadLatest
  <2>2. CASE runs[call[c].id].status # "absent"
    <3>1. Goto(c, [call[c] EXCEPT !.pc = "publish", !.row = runs[call[c].id]])
      BY <1>7, <2>2 DEF ReadLatest
    <3> QED
      BY <1>7, <2>2, <3>1, NextStepWithRow DEF ReadLatest, CallEvolves, Advances, Present
  <2> QED
    BY <2>1, <2>2
<1>8. CASE PublishCall(c)
  <2>1. CASE call[c].op = "start"
    <3>1. Goto(c, [call[c] EXCEPT !.pc = "respond"])
      BY <1>8, <2>1 DEF PublishCall
    <3> QED
      BY <1>8, <2>1, <3>1, NextStep DEF PublishCall, CallEvolves, Advances
  <2>2. CASE call[c].op # "start"
    BY <1>8, <2>2, GivesUp DEF PublishCall
  <2> QED
    BY <2>1, <2>2
<1> QED
  BY <1>1, <1>2, <1>3, <1>4, <1>5, <1>6, <1>7, <1>8 DEF CallStep

(* The steps that leave every call alone, and the crash.                   *)
LEMMA CallsEvolve ==
  ASSUME IInv, [Next]_vars
  PROVE  \A c \in Calls : CallEvolves(c)
<1>1. CASE UNCHANGED call
  BY <1>1 DEF CallEvolves
<1>2. ASSUME NEW c \in Calls, CallStep(c) PROVE \A d \in Calls : CallEvolves(d)
  BY <1>2, OwnStepEvolves DEF OthersWait, CallEvolves
<1>3. CASE Crash
  BY <1>3, IdleFields DEF Crash, CallEvolves
<1>4. UNCHANGED call \/ Crash \/ \E c \in Calls : CallStep(c)
  BY DEF Next, vars, Tick, SweepStep, SweepStart, SweepSelect, SweepMark, SweepGet, SweepPublish,
     SweepEnd, SweepDbError, CleanStart, DeleteOlderThan, CleanDbError, Deliver
<1> QED
  BY <1>1, <1>2, <1>3, <1>4

Answers(c) ==
  /\ call[c].pc = "respond" /\ call'[c].pc = "idle" /\ OthersWait(c)
  /\ told' = told \cup ({call[c].id} \ ClientIds)

LEMMA ToldEvolves ==
  ASSUME IInv, [Next]_vars
  PROVE  UNCHANGED told \/ \E c \in Calls : Answers(c)
<1>1. UNCHANGED told \/ \E c \in Calls : RespondStart(c)
  BY DEF Next, vars, Tick, CallStep, StartCall, Create, ReportCall, Heartbeat,
     FinishFind, FinishUpdate, ReadLatest, PublishCall, CallDbError, SweepStep, SweepStart,
     SweepSelect, SweepMark, SweepGet, SweepPublish, SweepEnd, SweepDbError, CleanStart,
     DeleteOlderThan, CleanDbError, Deliver, Crash
<1>2. ASSUME NEW c \in Calls, RespondStart(c) PROVE Answers(c)
  BY <1>2, Moved, IdleFields DEF RespondStart, Answers
<1> QED
  BY <1>1, <1>2

Selects ==
  /\ sweep'.pc = "mark" /\ sweep'.at = sweep.at /\ sweep'.done = sweep.done /\ UNCHANGED runs
  /\ \A k \in sweep'.cands :
       /\ k.id \in RunIds /\ runs[k.id].status = "running" /\ runs[k.id].ttl # Nil
       /\ k.ref = runs[k.id].beat /\ Expired(runs[k.id], sweep.at)

Goes ==
  /\ sweep'.at = sweep.at /\ sweep'.cands \subseteq sweep.cands
  /\ \/ sweep'.pc = "mark" /\ sweep'.done = sweep.done
     \/ /\ sweep'.pc = "get" /\ sweep'.done = sweep.done
        /\ \E k \in sweep.cands : sweep'.cur = k.id /\ TimedOut(k, k.id)
     \/ /\ sweep'.pc = "mark" /\ sweep.pc = "get" /\ Present(sweep.cur)
        /\ sweep'.done = Append(sweep.done, [id |-> sweep.cur, row |-> runs[sweep.cur]])
     \/ sweep'.pc = "mark" /\ sweep.done # <<>> /\ sweep'.done = Tail(sweep.done)

SweepEvolves ==
  \/ UNCHANGED sweep \/ sweep' = IdleSweep
  \/ sweep'.at = now /\ sweep'.cands = {} /\ sweep'.done = <<>> /\ sweep'.pc = "select"
  \/ sweep.pc # "idle" /\ (Selects \/ Goes)

LEMMA SweepStepEvolves ==
  ASSUME IInv, SweepStep PROVE SweepEvolves
<1>1. sweep \in SweepRecs
  BY DEF IInv, SweepInv
<1> SUFFICES ASSUME NEW q, q = sweep', ~SweepEvolves PROVE FALSE
  OBVIOUS
<1>2. CASE SweepStart
  <2>1. q.pc = "select" /\ q.at = now /\ q.cands = {} /\ q.done = <<>>
    BY <1>2 DEF SweepStart, IdleSweep
  <2> QED
    BY <2>1 DEF SweepEvolves
<1>3. CASE SweepSelect
  <2>1. PICK overdue :
          /\ overdue = {id \in RunIds : /\ runs[id].status = "running" /\ runs[id].ttl # Nil
                                        /\ Expired(runs[id], sweep.at)}
          /\ q = [sweep EXCEPT !.pc = "mark",
                    !.cands = {[id |-> id, ref |-> runs[id].beat] : id \in overdue}]
    BY <1>3 DEF SweepSelect
  <2>2. /\ q.pc = "mark" /\ q.at = sweep.at /\ q.done = sweep.done
        /\ q.cands = {[id |-> id, ref |-> runs[id].beat] : id \in overdue}
    BY <1>1, <2>1 DEF SweepRecs
  <2>3. ASSUME NEW k \in q.cands
        PROVE  /\ k.id \in RunIds /\ runs[k.id].status = "running" /\ runs[k.id].ttl # Nil
               /\ k.ref = runs[k.id].beat /\ Expired(runs[k.id], sweep.at)
    <3>1. PICK id \in overdue : k = [id |-> id, ref |-> runs[id].beat]
      BY <2>2, <2>3
    <3>2. k.id = id /\ k.ref = runs[id].beat
      BY <3>1
    <3> QED
      BY <2>1, <3>1, <3>2
  <2> QED
    BY <1>3, <2>2, <2>3 DEF SweepSelect, SweepEvolves, Selects
<1>4. CASE SweepMark
  <2>1. PICK k \in sweep.cands :
          \/ /\ Marks(runs[k.id])
             /\ runs' = [runs EXCEPT ![k.id] =
                           Settle(runs[k.id], "timeout", sweep.at, Millis(sweep.at - k.ref))]
             /\ q = [[sweep EXCEPT !.cands = sweep.cands \ {k}] EXCEPT !.pc = "get", !.cur = k.id]
          \/ q = [sweep EXCEPT !.cands = sweep.cands \ {k}]
    BY <1>4 DEF SweepMark
  <2>2. PICK rest : rest = [sweep EXCEPT !.cands = sweep.cands \ {k}]
    OBVIOUS
  <2>3. /\ rest.pc = "mark" /\ rest.at = sweep.at /\ rest.done = sweep.done
        /\ rest.cands \subseteq sweep.cands /\ rest \in SweepRecs
    BY <1>1, <1>4, <2>2 DEF SweepRecs, SweepMark
  <2>4. CASE q = rest
    BY <1>4, <2>3, <2>4 DEF SweepMark, SweepEvolves, Goes
  <2>5. CASE /\ Marks(runs[k.id])
             /\ runs' = [runs EXCEPT ![k.id] =
                           Settle(runs[k.id], "timeout", sweep.at, Millis(sweep.at - k.ref))]
             /\ q = [rest EXCEPT !.pc = "get", !.cur = k.id]
    <3>1. /\ q.pc = "get" /\ q.cur = k.id /\ q.at = rest.at /\ q.done = rest.done
          /\ q.cands = rest.cands
      BY <2>3, <2>5 DEF SweepRecs
    <3>2. k.id \in RunIds /\ runs[k.id].status = "running"
      BY <1>1, <2>5 DEF SweepRecs, Marks
    <3>3. Stamped(k.id, "timeout", sweep.at, Millis(sweep.at - k.ref))
      BY <2>5, <3>2, SettledRow
    <3>4. TimedOut(k, k.id)
      BY <1>4, <3>2, <3>3 DEF SweepMark, TimedOut
    <3> QED
      BY <1>4, <2>3, <3>1, <3>4 DEF SweepMark, SweepEvolves, Goes
  <2> QED
    BY <2>1, <2>2, <2>4, <2>5
<1>5. CASE SweepGet
  <2>1. CASE runs[sweep.cur].status = "absent"
    BY <1>5, <2>1 DEF SweepGet, SweepEvolves
  <2>2. CASE runs[sweep.cur].status # "absent"
    <3>1. q = [sweep EXCEPT !.pc = "mark", !.cur = Nil,
                !.done = Append(sweep.done, [id |-> sweep.cur, row |-> runs[sweep.cur]])]
      BY <1>5, <2>2 DEF SweepGet
    <3>2. /\ q.pc = "mark" /\ q.at = sweep.at /\ q.cands = sweep.cands
          /\ q.done = Append(sweep.done, [id |-> sweep.cur, row |-> runs[sweep.cur]])
      BY <1>1, <3>1 DEF SweepRecs
    <3> QED
      BY <1>5, <2>2, <3>2 DEF SweepGet, SweepEvolves, Goes, Present
  <2> QED
    BY <2>1, <2>2
<1>6. CASE SweepPublish
  <2>1. q = [sweep EXCEPT !.done = Tail(sweep.done)] /\ sweep.pc = "mark" /\ sweep.done # <<>>
    BY <1>6 DEF SweepPublish
  <2>2. q.pc = "mark" /\ q.at = sweep.at /\ q.cands = sweep.cands /\ q.done = Tail(sweep.done)
    BY <1>1, <2>1 DEF SweepRecs
  <2> QED
    BY <2>1, <2>2 DEF SweepEvolves, Goes
<1>7. CASE SweepEnd
  BY <1>7 DEF SweepEnd, SweepEvolves
<1> QED
  BY <1>2, <1>3, <1>4, <1>5, <1>6, <1>7 DEF SweepStep

LEMMA SweepAlwaysEvolves ==
  ASSUME IInv, [Next]_vars PROVE SweepEvolves
<1>1. UNCHANGED sweep \/ sweep' = IdleSweep \/ SweepStep
  BY DEF Next, vars, Tick, CallStep, StartCall, Create, RespondStart, ReportCall, Heartbeat,
     FinishFind, FinishUpdate, ReadLatest, PublishCall, CallDbError, SweepDbError, CleanStart,
     DeleteOlderThan, CleanDbError, Deliver, Crash
<1> QED
  BY <1>1, SweepStepEvolves DEF SweepEvolves

(* A call publishes; the last pass announces its first timeout.            *)
Announces(c, s) ==
  /\ call[c].pc = "publish" /\ OthersWait(c)
  /\ call'[c].pc \in {"idle", "respond"}
  /\ chan'[s] = Append(chan[s], Event(EventType[call[c].op], call[c].id, call[c].row))

AnnouncesTimeout(s) ==
  /\ sweep.done # <<>>
  /\ chan'[s] = Append(chan[s], Event("task.timeout", Head(sweep.done).id, Head(sweep.done).row))

ChanEvolves(s) ==
  \/ chan'[s] = chan[s] \/ chan'[s] = <<>>
  \/ chan[s] # <<>> /\ chan'[s] = Tail(chan[s])
  \/ \E c \in Calls : Announces(c, s)
  \/ AnnouncesTimeout(s)

LEMMA ChannelsEvolve ==
  ASSUME IInv, [Next]_vars, NEW s \in Subs PROVE ChanEvolves(s)
<1>1. CASE UNCHANGED chan
  BY <1>1 DEF ChanEvolves
<1>2. ASSUME NEW c \in Calls, PublishCall(c) PROVE ChanEvolves(s)
  <2>1. call'[c].pc \in {"idle", "respond"} /\ OthersWait(c)
    <3>1. CASE call[c].op = "start"
      <4>1. Goto(c, [call[c] EXCEPT !.pc = "respond"])
        BY <1>2, <3>1 DEF PublishCall
      <4> QED
        BY <4>1, NextStep, Moved
    <3>2. CASE call[c].op # "start"
      <4>1. Goto(c, IdleCall)
        BY <1>2, <3>2 DEF PublishCall
      <4> QED
        BY <4>1, Moved, IdleFields
    <3> QED
      BY <3>1, <3>2
  <2>2. \/ chan'[s] = chan[s]
        \/ chan'[s] = Append(chan[s], Event(EventType[call[c].op], call[c].id, call[c].row))
    BY <1>2 DEF PublishCall, Publish
  <2> QED
    BY <1>2, <2>1, <2>2 DEF PublishCall, ChanEvolves, Announces
<1>3. CASE SweepPublish
  BY <1>3 DEF SweepPublish, Publish, ChanEvolves, AnnouncesTimeout
<1>4. ASSUME NEW t \in Subs, Deliver(t) PROVE ChanEvolves(s)
  BY <1>4 DEF Deliver, ChanEvolves, IInv, ChanInv
<1>5. CASE Crash
  BY <1>5 DEF Crash, ChanEvolves
<1>6. UNCHANGED chan \/ (\E c \in Calls : PublishCall(c)) \/ SweepPublish \/ Crash
        \/ \E t \in Subs : Deliver(t)
  BY DEF Next, vars, Tick, CallStep, StartCall, Create, RespondStart, ReportCall, Heartbeat,
     FinishFind, FinishUpdate, ReadLatest, CallDbError, SweepStep, SweepStart, SweepSelect,
     SweepMark, SweepGet, SweepEnd, SweepDbError, CleanStart, DeleteOlderThan, CleanDbError
<1> QED
  BY <1>1, <1>2, <1>3, <1>4, <1>5, <1>6

-----------------------------------------------------------------------------
(* Every step preserves Hist                                               *)

(* Every id in the hands of a call is one a client chose or one drawn.     *)
LEMMA CallIds ==
  ASSUME IInv, ReportInv, NEW c \in Calls, call[c].pc # "idle"
  PROVE  /\ call[c].id \in RunIds /\ call[c].at \in Int /\ call[c].id \in ClientIds \cup minted
         /\ call[c].op # "start" =>
              Reporting(call[c]) /\ call[c].id \in ClientIds \cup told \cup early
<1>1. /\ CallOK(call[c], minted) /\ call[c] \in CallRecs
      /\ told \subseteq minted /\ early \subseteq minted
  BY DEF IInv, CallInv, IdInv
<1>2. call[c].op # "start" => Reporting(call[c])
  BY <1>1 DEF CallOK, CallRecs, Reporting
<1>3. Reporting(call[c]) => call[c].id \in ClientIds \cup told \cup early
  BY DEF ReportInv, ReportOK
<1> QED
  BY <1>1, <1>2, <1>3 DEF CallOK

(* A run somebody reports on is not being created: the report can rely on  *)
(* its row.                                                                *)
LEMMA ReportedIdKept ==
  ASSUME IInv, Hist, [Next]_vars, NEW c \in Calls, Reporting(call[c]),
         call[c].id \notin ClientIds \/ Present(call[c].id)
  PROVE  Kept(call[c].id)
<1>1. call[c].id \in ClientIds \cup told \cup early /\ call[c].pc # "idle"
  BY DEF Hist, ReportInv, ReportOK, Reporting
<1>2. call[c].id \in RunIds
  BY <1>1, CallIds DEF Hist
<1>3. CASE Present(call[c].id)
  BY <1>2, <1>3, StillThere DEF Hist
<1>4. CASE call[c].id \notin ClientIds
  <2>1. ~Creating(call[c].id)
    BY <1>1, <1>4 DEF Creating, Hist, StartInv, StartOK
  <2> QED
    BY <1>2, <2>1, StillThere DEF Hist
<1> QED
  BY <1>3, <1>4

LEMMA ReportNext ==
  ASSUME IInv, Hist, [Next]_vars, NEW c \in Calls PROVE ReportOK(call[c])'
<1> DEFINE q == call'[c]
           id == call[c].id
<1>1. now \in Int /\ now' \in Int /\ now <= now' /\ told \subseteq told' /\ early \subseteq early'
  BY Onward
<1>2. ReportOK(call[c]) /\ CallOK(call[c], minted) /\ CallEvolves(c)
  BY CallsEvolve DEF Hist, ReportInv, IInv, CallInv
<1>3. CASE q.pc = "idle"
  BY <1>3 DEF ReportOK, Reporting
<1>4. CASE Starts(c)
  BY <1>4 DEF Starts, ReportOK, Reporting
<1>5. CASE Reports(c)
  <2>1. q.id \notin ClientIds /\ After(q.id) => runs'[q.id].started <= q.at
    <3> SUFFICES ASSUME q.id \notin ClientIds, After(q.id) PROVE runs'[q.id].started <= now
      BY <1>5 DEF Reports
    <3>1. q.id \in told \cup Listed /\ q.id \in RunIds
      BY <1>5 DEF Reports, Listed, IInv, IdInv
    <3>2. Present(q.id) \/ ~Creating(q.id)
      BY <3>1 DEF Creating, Listed, Present, Hist, StartInv, StartOK
    <3>3. Kept(q.id)
      BY <3>1, <3>2, StillThere DEF Hist
    <3>4. Present(q.id) /\ runs'[q.id].started = runs[q.id].started
      BY <3>3 DEF Kept, After, KeepsIdentity, Present
    <3>5. runs[q.id].started <= runs[q.id].beat /\ runs[q.id].beat <= now
      BY <3>1, <3>4 DEF Hist, RowInv, InOrder
    <3>6. runs[q.id].started \in Int /\ runs[q.id].beat \in Int
      BY <3>1, <3>4, PresentRow
    <3> QED
      BY <1>1, <3>4, <3>5, <3>6
  <2> QED
    BY <1>1, <1>5, <2>1 DEF Reports, ReportOK, Reporting, After, Present
<1>6. ASSUME q = call[c] \/ Advances(c), Reporting(q)
      PROVE  ReportOK(call[c])'
  <2>1. /\ q.op = call[c].op /\ q.id = id /\ q.at = call[c].at
    BY <1>6 DEF Advances
  <2>2. Reporting(call[c])
    BY <1>2, <1>6, <2>1 DEF Advances, Reporting, CallOK
  <2>3. /\ id \in ClientIds \cup told \cup early /\ call[c].at \in Int /\ call[c].op \in Ops
        /\ id \in RunIds /\ call[c].at <= now
    BY <1>2, <2>2, CallIds DEF Reporting, ReportOK, Hist
  <2>4. id \notin ClientIds \/ Present(id) => Kept(id)
    BY <2>2, ReportedIdKept
  <2>5. id \notin ClientIds /\ After(id) => runs'[id].started <= call[c].at
    BY <1>2, <2>2, <2>4 DEF ReportOK, Kept, KeepsIdentity
  <2>6. CASE q = call[c]
    <3>1. NeverReused(id) /\ q.pc = "finish" =>
            /\ After(id) => runs'[id].started = q.started
            /\ Retain = 0 => After(id)
      BY <1>2, <2>2, <2>4, <2>6 DEF ReportOK, Kept, KeepsIdentity, NeverReused
    <3>2. NeverReused(id) /\ q.pc = "read" /\ q.op # "heartbeat" =>
            /\ After(id) => runs'[id].status \in Settled
            /\ Retain = 0 => After(id)
      BY <1>2, <2>2, <2>4, <2>6 DEF ReportOK, Kept, KeepsIdentity, NeverReused
    <3>3. NeverReused(id) /\ q.pc = "publish" /\ q.op # "heartbeat" => q.row.status \in Settled
      BY <1>2, <2>2, <2>6 DEF ReportOK
    <3>4. q.at <= now' /\ id \in ClientIds \cup told' \cup early' /\ (q.pc = "beat" => q.op = "heartbeat")
      BY <1>1, <1>2, <2>2, <2>3, <2>6 DEF ReportOK
    <3> QED
      BY <2>1, <2>3, <2>5, <3>1, <3>2, <3>3, <3>4 DEF ReportOK, NeverReused, After, Present
  <2>7. CASE Advances(c)
    <3>1. NeverReused(id) /\ q.pc = "finish" =>
            /\ After(id) => runs'[id].started = q.started
            /\ Retain = 0 => After(id)
      BY <2>7 DEF Advances, After, Present
    <3>2. NeverReused(id) /\ q.pc = "read" /\ q.op # "heartbeat" =>
            /\ After(id) => runs'[id].status \in Settled
            /\ Retain = 0 => After(id)
      BY <1>2, <2>1, <2>2, <2>3, <2>7 DEF Advances, After, Present, ReportOK, Ops, Settled
    <3>3. NeverReused(id) /\ q.pc = "publish" /\ q.op # "heartbeat" => q.row.status \in Settled
      BY <1>2, <2>1, <2>2, <2>7 DEF Advances, ReportOK, Reporting, Present
    <3>4. q.at <= now' /\ id \in ClientIds \cup told' \cup early' /\ q.pc # "beat"
      BY <1>1, <2>1, <2>3, <2>7 DEF Advances
    <3> QED
      BY <2>1, <2>3, <2>5, <3>1, <3>2, <3>3, <3>4 DEF ReportOK, NeverReused, After, Present
  <2> QED
    BY <1>6, <2>6, <2>7
<1> QED
  BY <1>2, <1>3, <1>4, <1>5, <1>6 DEF CallEvolves, ReportOK

(* An id under creation is nobody else's, so its row can only be created   *)
(* by the call at work on it.                                              *)
LEMMA StillFresh ==
  ASSUME IInv, Hist, [Next]_vars, NEW c \in Calls, call[c].pc = "create", call[c].op = "start",
         call[c].id \notin ClientIds, call'[c] = call[c]
  PROVE  Fresh(call[c].id)'
<1> SUFFICES ASSUME NEW id, id = call[c].id, id = call'[c].id PROVE Fresh(id)'
  BY Zenon
<1>1. id \in RunIds /\ Fresh(id) /\ id \notin told \cup early
  BY CallIds DEF Hist, StartInv, StartOK
<1>2. \A d \in Calls \ {c} : call[d].pc # "idle" => call[d].id # id
  BY <1>1, CallIds DEF Hist, StartInv, StartOK
<1>3. ~Present(id)'
  <2>1. ASSUME NEW d \in Calls PROVE ~Created(d, id) /\ ~Heard(d, id) /\ ~Reported(d, id)
    BY <1>1, <1>2 DEF Created, Heard, Reported, Stamped, Fresh, Present
  <2>2. ASSUME NEW k \in sweep.cands PROVE ~TimedOut(k, id)
    BY <1>1 DEF TimedOut, Stamped, Fresh, Present
  <2>3. runs'[id] = runs[id] \/ runs'[id] = NoRow
    BY <1>1, <2>1, <2>2, RowsEvolve DEF Hist, Evolves, Removed
  <2> QED
    BY <1>1, <2>3 DEF Fresh, Present, NoRow
<1>4. \A k \in sweep'.cands : k.id # id
  BY <1>1, SweepAlwaysEvolves DEF SweepEvolves, Selects, Goes, Fresh, Present, IdleSweep
<1>5. sweep'.pc = "get" => sweep'.cur # id
  BY <1>1, SweepAlwaysEvolves DEF SweepEvolves, Selects, Goes, Fresh, Present, IdleSweep
<1> QED
  BY <1>3, <1>4, <1>5 DEF Fresh

LEMMA StartNext ==
  ASSUME IInv, Hist, [Next]_vars, NEW c \in Calls PROVE StartOK(c)'
<1> DEFINE q == call'[c]
<1>1. now \in Int /\ now' \in Int /\ now <= now'
  BY Onward
<1>2. StartOK(c) /\ CallOK(call[c], minted) /\ CallEvolves(c)
  BY CallsEvolve DEF Hist, StartInv, IInv, CallInv
<1>3. CASE q.pc = "idle" \/ Reports(c)
  BY <1>3 DEF StartOK, Reports, Ops
<1>4. CASE Starts(c)
  <2> SUFFICES ASSUME q.id \notin ClientIds
               PROVE  /\ q.id \notin told \cup early
                      /\ \A d \in Calls : d # c /\ call[d].pc # "idle" => call[d].id # q.id
                      /\ Fresh(q.id)
    <3>1. q.at <= now' /\ UNCHANGED <<runs, told, early, sweep>> /\ OthersWait(c)
      BY <1>1, <1>4 DEF Starts
    <3> QED
      BY <3>1 DEF StartOK, OthersWait, Fresh, Present
  <2>1. q.id \in RunIds /\ q.id \notin minted
    BY <1>4 DEF Starts
  <2>2. q.id \notin told \cup early
    BY <2>1 DEF IInv, IdInv
  <2>3. \A d \in Calls : call[d].pc # "idle" => call[d].id # q.id
    BY <2>1, CallIds DEF Hist
  <2>4. ~Present(q.id)
    BY <2>1 DEF Hist, RowInv
  <2>5. /\ \A k \in sweep.cands : k.id # q.id
        /\ sweep.pc = "get" => sweep.cur # q.id
    BY <2>1 DEF Hist, PassInv, CandOK, CurOK
  <2> QED
    BY <2>2, <2>3, <2>4, <2>5 DEF Fresh
<1>5. ASSUME q = call[c] \/ Advances(c), q.pc # "idle", q.op = "start"
      PROVE  StartOK(c)'
  <2>1. call[c].pc # "idle" /\ call[c].op = "start" /\ q.id = call[c].id
    BY <1>2, <1>5 DEF Advances
  <2>2. q.pc = "create" => q = call[c]
    BY <1>5 DEF Advances
  <2>3. q.pc = "create" => q.at <= now'
    <3> SUFFICES ASSUME q.pc = "create" PROVE q.at <= now'
      OBVIOUS
    <3>1. q.at <= now /\ q.at \in Int
      BY <1>2, <2>1, <2>2, CallIds DEF StartOK, Hist
    <3> QED
      BY <1>1, <3>1
  <2> SUFFICES ASSUME q.id \notin ClientIds
               PROVE  /\ q.id \notin told'
                      /\ \A d \in Calls : d # c /\ call'[d].pc # "idle" /\ call'[d].op = "start"
                                            => call'[d].id # q.id
                      /\ q.pc = "create" => Fresh(call[c].id)' /\ q.id \notin early'
    BY <2>1, <2>2, <2>3 DEF StartOK
  <2>4. q.id \notin told
    BY <1>2, <2>1 DEF StartOK
  <2>5. \A d \in Calls \ {c} :
          call[d].pc # "idle" /\ call[d].op = "start" => call[d].id # q.id
    BY <1>2, <2>1 DEF StartOK
  <2>6. q.id \notin told'
    <3>1. ASSUME NEW d \in Calls, call[d].pc = "respond" PROVE call[d].op = "start"
      BY <3>1 DEF IInv, CallInv, CallOK
    <3> QED
      BY <1>5, <2>4, <2>5, <3>1, ToldEvolves DEF Answers
  <2>7. ASSUME NEW d \in Calls, d # c, call'[d].pc # "idle", call'[d].op = "start"
        PROVE  call'[d].id # q.id
    <3>1. CASE call'[d] = call[d] \/ Advances(d)
      <4>1. call[d].pc # "idle" /\ call[d].op = "start" /\ call'[d].id = call[d].id
        BY <2>7, <3>1 DEF Advances
      <4> QED
        BY <2>5, <2>7, <4>1
    <3>2. CASE Starts(d)
      <4>1. q.id \in minted
        BY <2>1, CallIds DEF Hist
      <4> QED
        BY <3>2, <4>1 DEF Starts, IInv, IdInv
    <3>3. CASE Reports(d)
      BY <2>7, <3>3 DEF Reports, Ops
    <3> QED
      BY <2>7, <3>1, <3>2, <3>3, CallsEvolve DEF CallEvolves
  <2>8. q.pc = "create" => Fresh(call[c].id)'
    BY <2>1, <2>2, StillFresh
  <2>9. q.pc = "create" => q.id \notin early'
    BY <1>2, <2>1, <2>2, Onward DEF StartOK, Fresh, Listed, Present
  <2> QED
    BY <2>6, <2>7, <2>8, <2>9
<1> QED
  BY <1>2, <1>3, <1>4, <1>5 DEF CallEvolves, StartOK

-----------------------------------------------------------------------------
(* The pass                                                                *)

(* A TTL that fits in a Duration is not shortened by the conversion.       *)
LEMMA DurationIsTTL ==
  ASSUME NEW ttl \in Int, Fits(ttl) PROVE Duration(ttl) \in Int /\ Duration(ttl) >= ttl
<1> DEFINE x == ttl + Word
<1>1. Word \in Int /\ Word > 0 /\ x \in Int /\ x < 2 * Word
  BY ConstantsAssumption DEF Fits
<1>2. x % (2 * Word) \in Int /\ x % (2 * Word) >= 0
  BY <1>1
<1>3. CASE x < 0
  BY <1>1, <1>2, <1>3 DEF Duration
<1>4. CASE x >= 0
  <2>1. x % (2 * Word) = x
    BY <1>1, <1>4
  <2> QED
    BY <1>1, <2>1 DEF Duration
<1> QED
  BY <1>1, <1>3, <1>4

(* An id the pass holds is not being created, so the pass can rely on it.  *)
LEMMA PassIdKept ==
  ASSUME IInv, Hist, [Next]_vars, NEW id \in RunIds,
         (\E k \in sweep.cands : k.id = id) \/ (sweep.pc = "get" /\ sweep.cur = id),
         id \notin ClientIds \/ Present(id)
  PROVE  Kept(id)
<1>1. ASSUME id \notin ClientIds PROVE ~Creating(id)
  BY <1>1 DEF Creating, Hist, StartInv, StartOK, Fresh
<1> QED
  BY <1>1, StillThere DEF Hist

LEMMA CandStays ==
  ASSUME IInv, Hist, [Next]_vars, NEW k \in sweep.cands, sweep'.at = sweep.at
  PROVE  CandOK(k)'
<1>1. CandOK(k) /\ k.id \in RunIds
  BY DEF Hist, PassInv, IInv, SweepInv, SweepRecs
<1>2. k.id \notin ClientIds \/ Present(k.id) => Kept(k.id)
  BY <1>1, PassIdKept
<1>3. minted \subseteq minted'
  BY Onward
<1> QED
  BY <1>1, <1>2, <1>3 DEF CandOK, Kept, KeepsIdentity, After, Present, NeverReused

LEMMA PassNext ==
  ASSUME IInv, Hist, [Next]_vars PROVE PassInv'
<1>1. now \in Int /\ now' \in Int /\ now <= now' /\ minted \subseteq minted'
  BY Onward
<1>2. SweepEvolves /\ sweep \in SweepRecs /\ SweepOK(sweep) /\ PassInv
  BY SweepAlwaysEvolves DEF Hist, IInv, SweepInv
<1>3. sweep'.pc # "idle" => sweep'.at <= now'
  <2>1. CASE sweep'.at = now \/ sweep' = IdleSweep
    BY <1>1, <2>1 DEF IdleSweep
  <2>2. CASE sweep'.at = sweep.at /\ sweep.pc # "idle"
    <3>1. sweep.at <= now /\ sweep.at \in Int
      BY <1>2, <2>2 DEF PassInv, SweepOK
    <3> QED
      BY <1>1, <2>2, <3>1
  <2> QED
    BY <1>2, <2>1, <2>2 DEF SweepEvolves, Selects, Goes
<1>4. ASSUME NEW k \in sweep'.cands PROVE CandOK(k)'
  <2>1. CASE k \in sweep.cands /\ sweep'.at = sweep.at
    BY <2>1, CandStays
  <2>2. CASE Selects /\ sweep.pc # "idle"
    <3>1. /\ k.id \in RunIds /\ runs[k.id].status = "running" /\ runs[k.id].ttl # Nil
          /\ k.ref = runs[k.id].beat /\ Expired(runs[k.id], sweep.at)
          /\ UNCHANGED runs /\ sweep'.at = sweep.at
      BY <1>4, <2>2 DEF Selects
    <3>2. Present(k.id) /\ runs[k.id].ttl \in Int /\ runs[k.id].beat \in Int /\ sweep.at \in Int
      BY <1>2, <2>2, <3>1, PresentRow DEF Present, NilOr, SweepOK
    <3>3. Fits(runs[k.id].ttl) => sweep.at - k.ref > runs[k.id].ttl
      BY <3>1, <3>2, DurationIsTTL DEF Expired
    <3>4. k.id \in ClientIds \cup minted
      BY <3>1, <3>2 DEF Hist, RowInv
    <3>5. k.id \notin ClientIds => runs[k.id].started <= k.ref
      BY <3>1, <3>2 DEF Hist, RowInv, InOrder
    <3> QED
      BY <1>1, <3>1, <3>2, <3>3, <3>4, <3>5 DEF CandOK, Present
  <2> QED
    BY <1>2, <1>4, <2>1, <2>2 DEF SweepEvolves, Goes, IdleSweep
<1>5. sweep'.pc = "get" => CurOK(sweep.cur)'
  <2> SUFFICES ASSUME sweep'.pc = "get", NEW id, id = sweep'.cur
               PROVE  CurOK(id)'
    BY Zenon
  <2>1. CASE sweep' = sweep
    <3>1. sweep.pc = "get" /\ id = sweep.cur /\ CurOK(id) /\ id \in RunIds
      BY <1>2, <2>1 DEF PassInv, SweepOK
    <3>2. id \notin ClientIds \/ Present(id) => Kept(id)
      BY <3>1, PassIdKept
    <3> QED
      BY <1>1, <3>1, <3>2 DEF CurOK, Kept, After, Present, NeverReused
  <2>2. ASSUME NEW k \in sweep.cands, id = k.id, TimedOut(k, k.id)
        PROVE  CurOK(id)'
    <3>1. Present(id)' /\ runs'[id].status = "timeout"
      BY <2>2 DEF TimedOut, Stamped, Present
    <3>2. id \in ClientIds \cup minted
      BY <1>2, <2>2 DEF PassInv, CandOK
    <3> QED
      BY <1>1, <3>1, <3>2 DEF CurOK, Settled
  <2> QED
    BY <1>2, <2>1, <2>2 DEF SweepEvolves, Selects, Goes, IdleSweep
<1>6. \A i \in DOMAIN sweep'.done :
        NeverReused(sweep'.done[i].id) => sweep'.done[i].row.status \in Settled
  <2>1. sweep.done \in Seq([id : RunIds, row : Row])
    BY <1>2 DEF SweepRecs
  <2>2. CASE sweep'.done = sweep.done
    BY <1>2, <2>2 DEF PassInv
  <2>3. CASE sweep'.done = <<>>
    BY <2>3
  <2>4. CASE /\ sweep.pc = "get" /\ Present(sweep.cur)
             /\ sweep'.done = Append(sweep.done, [id |-> sweep.cur, row |-> runs[sweep.cur]])
    <3>1. PICK m : m = [id |-> sweep.cur, row |-> runs[sweep.cur]]
      OBVIOUS
    <3>2. m \in [id : RunIds, row : Row] /\ m.id = sweep.cur /\ m.row = runs[sweep.cur]
      BY <1>2, <2>4, <3>1 DEF SweepOK, IInv, RunsInv
    <3>3. NeverReused(m.id) => m.row.status \in Settled
      BY <1>2, <2>4, <3>2 DEF PassInv, CurOK
    <3>4. sweep'.done = Append(sweep.done, m)
      BY <2>4, <3>1
    <3> HIDE DEF NeverReused
    <3>5. \A i \in DOMAIN Append(sweep.done, m) :
             Append(sweep.done, m)[i] = m \/ (i \in DOMAIN sweep.done /\ Append(sweep.done, m)[i] = sweep.done[i])
      BY <2>1, <3>2, AppendProperties
    <3> QED
      BY <1>2, <3>3, <3>4, <3>5 DEF PassInv
  <2>5. CASE sweep.done # <<>> /\ sweep'.done = Tail(sweep.done)
    <3>1. \A i \in DOMAIN Tail(sweep.done) :
            i + 1 \in DOMAIN sweep.done /\ Tail(sweep.done)[i] = sweep.done[i + 1]
      BY <2>1, <2>5, HeadTailProperties
    <3> QED
      BY <1>2, <2>5, <3>1 DEF PassInv
  <2> QED
    BY <1>2, <2>2, <2>3, <2>4, <2>5 DEF SweepEvolves, Selects, Goes, IdleSweep
<1> QED
  BY <1>3, <1>4, <1>5, <1>6 DEF PassInv, NeverReused

-----------------------------------------------------------------------------
(* The rows                                                                *)

(* Cutting off the rest of a millisecond keeps the order of two durations. *)
LEMMA MillisMonotone ==
  ASSUME NEW a \in Int, NEW b \in Int, a >= b PROVE Millis(a) >= Millis(b)
<1>1. Milli \in Nat \ {0}
  BY ConstantsAssumption
<1>2. ASSUME NEW m \in Nat, NEW n \in Nat, m >= n PROVE m \div Milli >= n \div Milli
  BY <1>1, <1>2
<1>3. \A n \in Nat : n \div Milli \in Nat
  BY <1>1
<1> QED
  BY <1>2, <1>3 DEF Millis

LEMMA RowNext ==
  ASSUME IInv, Hist, [Next]_vars, NEW id \in RunIds
  PROVE  Agrees(id)' /\ (id \notin ClientIds => InOrder(id)' /\ (After(id) => id \in minted'))
<1> DEFINE Goal == Agrees(id)' /\ (id \notin ClientIds => InOrder(id)' /\ (After(id) => id \in minted'))
<1>1. now \in Int /\ now' \in Int /\ now <= now' /\ minted \subseteq minted'
  BY Onward
<1>2. /\ Agrees(id) /\ (id \notin ClientIds => InOrder(id) /\ (Present(id) => id \in minted))
      /\ Present(id) => runs[id].started \in Int /\ runs[id].beat \in Int
      /\ runs[id].status \in Settled => /\ Present(id)
                                        /\ runs[id].finished \in Int /\ runs[id].dur \in Int
  BY PresentRow DEF Hist, RowInv
<1>3. CASE runs'[id] = runs[id]
  <2>1. Agrees(id)'
    BY <1>2, <1>3 DEF Agrees, NeverReused
  <2>2. ASSUME id \notin ClientIds PROVE InOrder(id)'
    BY <1>1, <1>2, <1>3, <2>2 DEF InOrder, Present, Settled
  <2> QED
    BY <1>1, <1>2, <1>3, <2>1, <2>2 DEF After, Present
<1>4. ASSUME NEW c \in Calls, Created(c, id) PROVE Goal
  <2>1. call[c].at <= now /\ call[c].at \in Int /\ id \in ClientIds \cup minted
    BY <1>4, CallIds DEF Created, Hist, StartInv, StartOK
  <2> QED
    BY <1>1, <1>4, <2>1 DEF Created, Agrees, InOrder, Present
<1>5. ASSUME NEW c \in Calls, Heard(c, id) PROVE Goal
  <2>1. Present(id)
    BY <1>5 DEF Heard, Present
  <2>2. /\ call[c].at <= now /\ call[c].at \in Int
        /\ id \notin ClientIds => runs[id].started <= call[c].at
    BY <1>5, <2>1, CallIds DEF Heard, Hist, ReportInv, ReportOK, Reporting
  <2> QED
    BY <1>1, <1>2, <1>5, <2>1, <2>2 DEF Heard, KeepsIdentity, Agrees, InOrder, Present, After
<1>6. ASSUME NEW c \in Calls, Reported(c, id) PROVE Goal
  <2>1. Present(id)
    BY <1>6 DEF Reported, Stamped
  <2>2. /\ call[c].at <= now /\ call[c].at \in Int
        /\ id \notin ClientIds => runs[id].started <= call[c].at
        /\ NeverReused(id) => runs[id].started = call[c].started
    BY <1>6, <2>1, CallIds DEF Reported, Hist, ReportInv, ReportOK, Reporting
  <2>3. /\ runs'[id].status \in {"success", "failed"} /\ runs'[id].started = runs[id].started
        /\ runs'[id].beat = runs[id].beat
        /\ runs'[id].finished = call[c].at /\ runs'[id].dur = Millis(call[c].at - call[c].started)
    BY <1>6 DEF Reported, Stamped, KeepsIdentity
  <2>4. Agrees(id)'
    BY <2>2, <2>3 DEF Agrees, NeverReused
  <2> QED
    BY <1>1, <1>2, <2>1, <2>2, <2>3, <2>4 DEF InOrder, Present, After
<1>7. ASSUME NEW k \in sweep.cands, TimedOut(k, id) PROVE Goal
  <2>1. Present(id) /\ k.id = id /\ k.ref \in Int /\ sweep.at \in Int
    BY <1>7 DEF TimedOut, Stamped, IInv, SweepInv, SweepRecs, SweepOK
  <2>2. /\ id \notin ClientIds => runs[id].started <= k.ref
        /\ NeverReused(id) => /\ runs[id].ttl # Nil
                              /\ Fits(runs[id].ttl) => sweep.at - k.ref > runs[id].ttl
    BY <1>7, <2>1 DEF Hist, PassInv, CandOK
  <2>3. /\ runs'[id].status = "timeout" /\ runs'[id].started = runs[id].started
        /\ runs'[id].beat = runs[id].beat /\ runs'[id].ttl = runs[id].ttl
        /\ runs'[id].finished = sweep.at /\ runs'[id].dur = Millis(sweep.at - k.ref)
    BY <1>7 DEF TimedOut, Stamped, KeepsIdentity
  <2>4. Agrees(id)'
    <3>1. ASSUME NeverReused(id), Fits(runs[id].ttl)
          PROVE  Millis(sweep.at - k.ref) >= Millis(runs[id].ttl)
      <4>1. runs[id].ttl \in Int /\ sweep.at - k.ref >= runs[id].ttl
        BY <2>1, <2>2, <3>1, PresentRow DEF NilOr
      <4> QED
        BY <2>1, <4>1, MillisMonotone
    <3> QED
      BY <2>2, <2>3, <3>1 DEF Agrees, NeverReused
  <2>5. ASSUME id \notin ClientIds PROVE InOrder(id)'
    <3>1. runs[id].ttl \in Int
      BY <2>2, <2>5, PresentRow DEF NeverReused, NilOr
    <3>2. Fits(runs[id].ttl) => sweep.at - runs[id].started > runs[id].ttl
      BY <1>2, <2>1, <2>2, <2>5, <3>1 DEF NeverReused
    <3> QED
      BY <1>1, <1>2, <2>1, <2>3, <2>5, <3>2 DEF InOrder, Present
  <2> QED
    BY <1>1, <1>2, <2>1, <2>3, <2>4, <2>5 DEF After, Present
<1>8. CASE Removed(id)
  BY <1>8 DEF Removed, NoRow, Agrees, InOrder, Present, After
<1> QED
  BY <1>3, <1>4, <1>5, <1>6, <1>7, <1>8, RowsEvolve DEF Hist, Evolves

-----------------------------------------------------------------------------
(* The events                                                              *)

(* What an event says stays true: nobody starts a run twice.               *)
LEMMA EventStays ==
  ASSUME IInv, Hist, [Next]_vars, NEW e, EventOK(e) PROVE EventOK(e)'
<1>1. minted \subseteq minted' /\ told \subseteq told' /\ early \subseteq early'
  BY Onward
<1>2. ASSUME e.id \notin ClientIds, e.type = "task.started",
             NEW c \in Calls, call'[c].pc \in {"create", "publish"}, call'[c].op = "start"
      PROVE  call'[c].id # e.id
  <2>1. e.id \in minted
    BY <1>2 DEF EventOK
  <2>2. CASE call'[c] = call[c]
    BY <1>2, <2>2 DEF EventOK
  <2>3. CASE Starts(c)
    BY <1>2, <2>1, <2>3 DEF Starts
  <2>4. CASE Reports(c)
    BY <1>2, <2>4 DEF Reports, Ops
  <2>5. CASE Advances(c)
    <3>1. CASE call[c].pc = "create"
      BY <1>2, <2>5, <3>1 DEF Advances, EventOK
    <3>2. CASE call[c].pc # "create"
      BY <1>2, <2>5, <3>2 DEF Advances, Hist, ReportInv, ReportOK, Reporting, Ops
    <3> QED
      BY <3>1, <3>2
  <2> QED
    BY <1>2, <2>2, <2>3, <2>4, <2>5, CallsEvolve DEF CallEvolves
<1> QED
  BY <1>1, <1>2 DEF EventOK, NeverReused

(* The event a call publishes is as the call made it, and no report of an  *)
(* answered client is there before the start.                              *)
LEMMA AnnouncementOK ==
  ASSUME IInv, Hist, [Next]_vars, NEW c \in Calls, NEW s \in Subs, Announces(c, s),
         NEW e, e = Event(EventType[call[c].op], call[c].id, call[c].row)
  PROVE  /\ EventOK(e)'
         /\ \A i \in DOMAIN chan[s] :
              chan[s][i].id = e.id /\ e.id \notin ClientIds \cup early' /\ e.type = "task.started"
                => chan[s][i].type = "task.timeout"
<1>1. /\ e.type = EventType[call[c].op] /\ e.id = call[c].id /\ e.row = call[c].row
      /\ call[c].pc = "publish" /\ call[c].op \in Ops \cup {"start"}
  BY DEF Event, Announces, IInv, CallInv, CallOK
<1>2. e.type = IF call[c].op = "start" THEN "task.started"
               ELSE IF call[c].op = "heartbeat" THEN "task.heartbeat"
               ELSE IF call[c].op = "success" THEN "task.succeeded" ELSE "task.failed"
  BY <1>1 DEF EventType, Ops
<1>3. CASE call[c].op = "start"
  <2>1. e.type = "task.started"
    BY <1>2, <1>3
  <2>2. e.id \notin ClientIds =>
          /\ e.id \notin told /\ e.id \in minted
          /\ \A d \in Calls \ {c} :
               call[d].pc # "idle" /\ call[d].op = "start" => call[d].id # e.id
    BY <1>1, <1>3, CallIds DEF Hist, StartInv, StartOK
  <2>3. ASSUME NEW i \in DOMAIN chan[s], chan[s][i].id = e.id, e.id \notin ClientIds \cup early'
        PROVE  chan[s][i].type = "task.timeout"
    BY <1>1, <1>3, <2>2, <2>3, Onward DEF Hist, EventInv, EventOK
  <2>4. ASSUME e.id \notin ClientIds, NEW d \in Calls,
               call'[d].pc \in {"create", "publish"}, call'[d].op = "start"
        PROVE  call'[d].id # e.id
    <3>1. d # c /\ call'[d] = call[d]
      BY <2>4 DEF Announces, OthersWait
    <3> QED
      BY <2>2, <2>4, <3>1
  <2>5. minted \subseteq minted'
    BY Onward
  <2> QED
    BY <2>1, <2>2, <2>3, <2>4, <2>5 DEF EventOK
<1>4. CASE call[c].op # "start"
  <2>1. ReportOK(call[c]) /\ Reporting(call[c])
    BY <1>1, <1>4 DEF Hist, ReportInv, Reporting
  <2>2. e.type \in {"task.heartbeat", "task.succeeded", "task.failed"}
    BY <1>1, <1>2, <1>4 DEF Ops
  <2>3. e.type # "task.heartbeat" => call[c].op # "heartbeat"
    BY <1>2
  <2>4. told \subseteq told' /\ early \subseteq early'
    BY Onward
  <2> QED
    BY <1>1, <2>1, <2>2, <2>3, <2>4 DEF EventOK, ReportOK, NeverReused
<1> QED
  BY <1>3, <1>4

LEMMA AppendedOne ==
  ASSUME NEW S, NEW q \in Seq(S), NEW e \in S
  PROVE  /\ Len(q) \in Nat /\ DOMAIN q = 1..Len(q)
         /\ DOMAIN Append(q, e) = 1..(Len(q) + 1)
         /\ \A i \in 1..Len(q) : Append(q, e)[i] = q[i]
         /\ Append(q, e)[Len(q) + 1] = e
  BY AppendProperties

LEMMA EventNext ==
  ASSUME IInv, Hist, [Next]_vars, NEW s \in Subs
  PROVE  (StartFirst(chan[s], early) /\ \A i \in DOMAIN chan[s] : EventOK(chan[s][i]))'
<1> SUFFICES ASSUME NEW q, q = chan'[s]
             PROVE  StartFirst(q, early') /\ \A i \in DOMAIN q : EventOK(q[i])'
  BY DEF EventOK, StartFirst
<1>1. PICK p : p = chan[s]
  OBVIOUS
<1>2. p \in Seq(Events) /\ StartFirst(p, early') /\ \A i \in DOMAIN p : EventOK(p[i])'
  <2>1. p \in Seq(Events) /\ \A i \in DOMAIN p : EventOK(p[i])'
    BY <1>1, EventStays DEF Hist, EventInv, IInv, ChanInv
  <2>2. StartFirst(p, early) /\ early \subseteq early'
    BY <1>1, Onward DEF Hist, EventInv
  <2> QED
    BY <2>1, <2>2 DEF StartFirst
<1>3. CASE q = p
  BY <1>2, <1>3
<1>4. CASE q = <<>>
  BY <1>4 DEF StartFirst
<1>5. CASE p # <<>> /\ q = Tail(p)
  <2>1. \A i \in DOMAIN q : i \in Int /\ i + 1 \in DOMAIN p /\ q[i] = p[i + 1]
    BY <1>2, <1>5, HeadTailProperties
  <2>2. StartFirst(q, early')
    <3> SUFFICES ASSUME NEW i \in DOMAIN q, NEW j \in DOMAIN q, i < j, q[i].id = q[j].id,
                        q[i].id \notin ClientIds \cup early', q[j].type = "task.started"
                 PROVE  q[i].type = "task.timeout"
      BY DEF StartFirst
    <3>1. i + 1 < j + 1 /\ i + 1 \in DOMAIN p /\ j + 1 \in DOMAIN p /\ q[i] = p[i + 1] /\ q[j] = p[j + 1]
      BY <2>1
    <3> QED
      BY <1>2, <3>1 DEF StartFirst
  <2>3. \A i \in DOMAIN q : EventOK(q[i])'
    BY <1>2, <2>1
  <2> QED
    BY <2>2, <2>3
<1>6. ASSUME NEW e \in Events, EventOK(e)', q = Append(p, e),
             \A i \in DOMAIN p :
               p[i].id = e.id /\ e.id \notin ClientIds \cup early' /\ e.type = "task.started"
                 => p[i].type = "task.timeout"
      PROVE  StartFirst(q, early') /\ \A i \in DOMAIN q : EventOK(q[i])'
  <2>1. /\ Len(p) \in Nat /\ DOMAIN p = 1..Len(p) /\ DOMAIN q = 1..(Len(p) + 1)
        /\ \A i \in 1..Len(p) : q[i] = p[i]
        /\ q[Len(p) + 1] = e
    BY <1>2, <1>6, AppendedOne
  <2>2. \A i \in DOMAIN q : EventOK(q[i])'
    <3> SUFFICES ASSUME NEW i \in 1..(Len(p) + 1) PROVE EventOK(q[i])'
      BY <2>1
    <3>1. CASE i = Len(p) + 1
      <4>1. q[i] = e
        BY <2>1, <3>1
      <4> QED
        BY <1>6, <4>1
    <3>2. CASE i \in DOMAIN p
      <4>1. q[i] = p[i]
        BY <2>1, <3>2
      <4> QED
        BY <1>2, <3>2, <4>1
    <3> QED
      BY <2>1, <3>1, <3>2
  <2>3. StartFirst(q, early')
    <3> SUFFICES ASSUME NEW i \in DOMAIN q, NEW j \in DOMAIN q, i < j, q[i].id = q[j].id,
                        q[i].id \notin ClientIds \cup early', q[j].type = "task.started"
                 PROVE  q[i].type = "task.timeout"
      BY DEF StartFirst
    <3>1. i \in DOMAIN p /\ q[i] = p[i]
      BY <2>1
    <3>2. CASE j = Len(p) + 1
      BY <1>6, <2>1, <3>1, <3>2
    <3>3. CASE j \in DOMAIN p
      <4>1. q[j] = p[j]
        BY <2>1, <3>3
      <4> QED
        BY <1>2, <3>1, <3>3, <4>1 DEF StartFirst
    <3> QED
      BY <2>1, <3>2, <3>3
  <2> QED
    BY <2>2, <2>3
<1>7. ASSUME NEW c \in Calls, Announces(c, s) PROVE StartFirst(q, early') /\ \A i \in DOMAIN q : EventOK(q[i])'
  <2>1. PICK e : e = Event(EventType[call[c].op], call[c].id, call[c].row)
    OBVIOUS
  <2>2. e \in Events
    BY <1>7, <2>1 DEF Announces, Event, Events, EventType, Ops, IInv, CallInv, CallOK, CallRecs
  <2>3. q = Append(p, e)
    BY <1>1, <1>7, <2>1 DEF Announces
  <2> QED
    BY <1>1, <1>6, <1>7, <2>1, <2>2, <2>3, AnnouncementOK
<1>8. CASE AnnouncesTimeout(s)
  <2>1. PICK m : m = Head(sweep.done)
    OBVIOUS
  <2>2. sweep.done \in Seq([id : RunIds, row : Row]) /\ sweep.done # <<>>
    BY <1>8 DEF AnnouncesTimeout, IInv, SweepInv, SweepRecs
  <2>3. m \in [id : RunIds, row : Row] /\ m = sweep.done[1] /\ 1 \in DOMAIN sweep.done
    <3>1. PICK done \in Seq([id : RunIds, row : Row]) : done = sweep.done
      BY <2>2
    <3>2. Len(done) \in Nat \ {0} /\ DOMAIN done = 1..Len(done) /\ Head(done) = done[1]
      BY <2>2, <3>1, EmptySeq, LenProperties, HeadTailProperties
    <3>3. 1 \in DOMAIN done
      BY <3>2
    <3>4. Head(done) \in [id : RunIds, row : Row]
      BY <2>2, <3>1, HeadTailProperties
    <3> QED
      BY <2>1, <3>1, <3>2, <3>3, <3>4, Zenon
  <2>4. NeverReused(m.id) => m.row.status \in Settled
    BY <2>3 DEF Hist, PassInv
  <2>5. PICK e : e = Event("task.timeout", m.id, m.row)
    OBVIOUS
  <2>6. e \in Events /\ e.type = "task.timeout" /\ e.id = m.id /\ e.row = m.row
    BY <2>3, <2>5 DEF Event, Events
  <2>7. EventOK(e)'
    BY <2>4, <2>6 DEF EventOK, NeverReused
  <2>8. q = Append(p, e)
    BY <1>1, <1>8, <2>1, <2>5 DEF AnnouncesTimeout
  <2> QED
    BY <1>6, <2>6, <2>7, <2>8
<1> QED
  BY <1>1, <1>3, <1>4, <1>5, <1>7, <1>8, ChannelsEvolve DEF ChanEvolves

-----------------------------------------------------------------------------
(* The theorems                                                            *)

LEMMA HistStep == IInv /\ Hist /\ [Next]_vars => Hist'
<1> SUFFICES ASSUME IInv, Hist, [Next]_vars PROVE Hist'
  OBVIOUS
<1>1. ReportInv'
  BY ReportNext DEF ReportInv
<1>2. StartInv'
  BY StartNext DEF StartInv
<1>3. PassInv'
  BY PassNext
<1>4. RowInv'
  BY RowNext DEF RowInv, After, Present
<1>5. EventInv'
  BY EventNext DEF EventInv
<1>6. CutoffInv'
  <2>1. UNCHANGED cutoff \/ cutoff' = Nil \/ CleanStart
    BY DEF Next, vars, Tick, CallStep, StartCall, Create, RespondStart, ReportCall, Heartbeat,
       FinishFind, FinishUpdate, ReadLatest, PublishCall, CallDbError, SweepStep, SweepStart,
       SweepSelect, SweepMark, SweepGet, SweepPublish, SweepEnd, SweepDbError, DeleteOlderThan,
       CleanDbError, Deliver, Crash
  <2> QED
    BY <2>1, ConstantsAssumption DEF Hist, CutoffInv, CleanStart
<1> QED
  BY <1>1, <1>2, <1>3, <1>4, <1>5, <1>6 DEF Hist

LEMMA HistAlways == Spec => []Hist
  BY InitHist, HistStep, IInvAlways, PTL DEF Spec

(* The duration of a reported run is the time between the start and the     *)
(* finish beside it, that of a timed out run no less than its TTL, both in *)
(* whole milliseconds, for every resolution of the clock: Finish's second  *)
(* statement and the sweep's UPDATE write what an earlier statement read,  *)
(* and any number of them may write the same row.                          *)
THEOREM DurationsMatch == Spec => []DurationsAgree
<1>1. Hist => DurationsAgree
  BY DEF Hist, RowInv, Agrees, DurationsAgree
<1> QED
  BY <1>1, HistAlways, PTL

(* No stamp of a server-minted run precedes its start or lies ahead of the *)
(* clock, and a timeout comes more than a TTL after the start.             *)
THEOREM ServerRunsInTime == Spec => []ServerRunTimesOrdered
<1>1. Hist => ServerRunTimesOrdered
  BY DEF Hist, RowInv, InOrder, Present, ServerRunTimesOrdered
<1> QED
  BY <1>1, HistAlways, PTL

(* An event that says a run ended carries a row that has ended, though the *)
(* row is read again after the statement that ended it.                    *)
THEOREM EndsAreFinal == Spec => []TerminalEventsAreFinal
<1>1. Hist => TerminalEventsAreFinal
  BY DEF Hist, EventInv, EventOK, TerminalEventsAreFinal
<1> QED
  BY <1>1, HistAlways, PTL

(* No subscriber hears of a report on a server-minted run before it hears  *)
(* of the start, whatever its channel dropped, unless somebody read the id *)
(* in the list of runs and reported on it before Start had answered.       *)
THEOREM StartHeardFirst == Spec => []StartedComesFirst
<1>1. Hist => StartedComesFirst
  BY DEF Hist, EventInv, StartFirst, StartedComesFirst
<1> QED
  BY <1>1, HistAlways, PTL

-----------------------------------------------------------------------------
(* Timeouts                                                                *)

(* SweepTimeouts gives up on a run in touch only if one of its heartbeats  *)
(* is written between the statements of the pass, for any number of        *)
(* handlers and runs, any TTL and wherever the pass fails or is restarted. *)
THEOREM TimeoutsAreEarned == Spec => SilentOrOvertaken
<1>1. ASSUME IInv, Hist, [Next]_vars, NEW id \in RunIds, NeverReused(id),
             runs[id].status = "running", runs'[id].status = "timeout",
             \A k \in sweep.cands : k.id = id => k.ref = runs[id].beat, Fits(runs[id].ttl)
      PROVE  runs'[id].finished - runs[id].beat > runs[id].ttl
  <2>1. PICK k \in sweep.cands : TimedOut(k, id)
    <3>1. Evolves(id)
      BY <1>1, RowsEvolve DEF Hist
    <3>2. ~Removed(id)
      BY <1>1 DEF Removed, NoRow
    <3>3. ASSUME NEW c \in Calls PROVE ~Created(c, id) /\ ~Heard(c, id) /\ ~Reported(c, id)
      BY <1>1 DEF Created, Heard, Reported, Stamped
    <3> QED
      BY <1>1, <3>1, <3>2, <3>3 DEF Evolves
  <2>2. k.id = id /\ k.ref = runs[id].beat /\ runs'[id].finished = sweep.at
    BY <1>1, <2>1 DEF TimedOut, Stamped
  <2>3. sweep.at - k.ref > runs[id].ttl
    BY <1>1, <2>2 DEF Hist, PassInv, CandOK, Present
  <2> QED
    BY <2>2, <2>3
<1>2. IInv /\ Hist /\ [Next]_vars =>
        [\A id \in RunIds :
           NeverReused(id) /\ runs[id].status = "running" /\ runs'[id].status = "timeout"
           => \/ runs'[id].finished - runs[id].beat > runs[id].ttl
              \/ \E k \in sweep.cands : k.id = id /\ k.ref # runs[id].beat
              \/ ~Fits(runs[id].ttl)]_vars
  BY <1>1
<1> QED
  BY <1>2, IInvAlways, HistAlways, PTL DEF Spec, SilentOrOvertaken

(* The TTLs beyond Fits are no matter of a race: for twice the range of a  *)
(* Duration the product with time.Second is negative, and any pass that    *)
(* sees such a run, however recent its heartbeat, takes it for overdue.    *)
THEOREM OverflowingTTLExpires ==
  ASSUME NEW row \in Row, NEW at \in Int, row.beat \in Int, row.beat <= at,
         row.ttl \in Word..(2 * Word - 1)
  PROVE  Expired(row, at)
<1> DEFINE x == row.ttl + Word
<1>1. Word \in Int /\ Word > 0 /\ x \in Int /\ 2 * Word <= x /\ x < 2 * (2 * Word)
  BY ConstantsAssumption
<1>2. x % (2 * Word) = x - 2 * Word
  BY <1>1
<1>3. Duration(row.ttl) \in Int /\ Duration(row.ttl) < 0
  BY <1>1, <1>2 DEF Duration
<1> QED
  BY <1>3 DEF Expired
=============================================================================
