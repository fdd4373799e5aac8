--------------------------- MODULE SchedulesProofs ---------------------------
(***************************************************************************)
(* Proofs about Schedules, for every set of names, calls and expectations: *)
(* its type invariant, that the table with its detector implements         *)
(* ScheduleLifecycle, and that only schedules whose run was due are missed. *)
(***************************************************************************)
EXTENDS Schedules, SequenceTheorems, TLAPS

-----------------------------------------------------------------------------
(* The inductive invariant                                                 *)

CallRecs == [pc : {"idle", "upsert", "touch"}, name : NilOr(Names),
             at : NilOr(Int), expect : NilOr(Expectations)]
DetectRecs == [pc : {"idle", "select", "mark", "get"}, at : NilOr(Int),
               cands : SUBSET Names, deadline : [Names -> NilOr(Int)],
               cur : NilOr(Names), found : Seq(Names)]

(* What a request holds when it is about to execute its statement.         *)
CallOK(q) ==
  /\ q.pc # "idle" => q.name \in Names /\ q.at \in 0..MaxTime
  /\ q.pc = "upsert" => q.expect \in Expectations /\ Valid(q.expect)

(* The names a pass has flipped and not announced yet are owed an          *)
(* announcement each, no name twice, and it will flip none of them again.  *)
Debts(d, debt) ==
  /\ d.pc = "select" => d.found = <<>>
  /\ d.pc = "get" => d.cur \in Names /\ d.cur \notin d.cands /\ debt[d.cur] = 1
  /\ \A i \in DOMAIN d.found :
       /\ debt[d.found[i]] = 1 /\ d.found[i] \notin d.cands
       /\ d.pc = "get" => d.found[i] # d.cur
       /\ \A j \in DOMAIN d.found : i # j => d.found[i] # d.found[j]

(* Every schedule has one of the two modes.                                *)
Moded(row) == row.status # "absent" /\ row.cron = Nil => row.interval \in Int

(* The deadlines of what a pass has still to treat had passed when it began. *)
Passed(d) == \A n \in d.cands : d.deadline[n] \in Int /\ d.deadline[n] <= d.at

ClockInv == now \in 0..MaxTime /\ faults \in 0..MaxFaults
TableInv ==
  schedules \in [Names -> Row \cup {NoRow}] /\ \A n \in Names : Moded(schedules[n])
CallInv == call \in [Calls -> CallRecs] /\ \A c \in Calls : CallOK(call[c])
DetectInv ==
  /\ detect \in DetectRecs /\ owed \in [Names -> {0, 1}]
  /\ detect.pc # "idle" => detect.at \in Int
  /\ Debts(detect, owed) /\ Passed(detect)

IInv == ClockInv /\ TableInv /\ CallInv /\ DetectInv

LEMMA IdleCallType == IdleCall \in CallRecs /\ CallOK(IdleCall)
  BY DEF IdleCall, CallRecs, CallOK, NilOr

LEMMA IdleDetectType ==
  /\ IdleDetect \in DetectRecs /\ IdleDetect.pc = "idle" /\ Passed(IdleDetect)
  /\ \A debt : Debts(IdleDetect, debt)
<1>1. <<>> \in Seq(Names) /\ DOMAIN <<>> = {}
  BY EmptySeq
<1> QED
  BY <1>1 DEF IdleDetect, DetectRecs, Debts, Passed, NilOr

LEMMA InitIInv == Init => IInv
<1>1. NoRow.status = "absent" /\ Moded(NoRow)
  BY DEF NoRow, Moded
<1> QED
  BY <1>1, ConstantsAssumption, IdleCallType, IdleDetectType
  DEF Init, IInv, ClockInv, TableInv, CallInv, DetectInv

LEMMA NextFireType ==
  ASSUME NEW period \in Nat, NEW ref \in Int
  PROVE  NextFire(period, ref) \in Int
  BY ConstantsAssumption DEF NextFire

LEMMA RowFields ==
  ASSUME TableInv, NEW n \in Names
  PROVE  /\ schedules[n].status = "absent" => schedules[n] = NoRow
         /\ schedules[n].status # "absent" => schedules[n] \in Row
         /\ schedules[n].seen \in NilOr(Int)
         /\ schedules[n].status \in {"absent", "ok", "missed"}
         /\ Moded(schedules[n])
<1>1. (schedules[n] \in Row \/ schedules[n] = NoRow) /\ Moded(schedules[n])
  BY DEF TableInv
<1> QED
  BY <1>1 DEF Row, NoRow, NilOr

(* A Duration is a number, and one that fits is what was asked for.        *)
LEMMA WrapType ==
  ASSUME NEW d \in Int
  PROVE  /\ Wrap(d) \in Int /\ Wrap(d) < Word
         /\ -Word <= d /\ d < Word => Wrap(d) = d
<1> DEFINE x == d + Word
<1>1. Word \in Int /\ Word > 0 /\ x \in Int
  BY ConstantsAssumption
<1>2. x % (2 * Word) \in Int /\ x % (2 * Word) < 2 * Word
  BY <1>1
<1>3. 0 <= x /\ x < 2 * Word => x % (2 * Word) = x
  BY <1>1
<1> QED
  BY <1>1, <1>2, <1>3 DEF Wrap

LEMMA DelayType ==
  ASSUME NEW row \in Row, row.status # "absent", Moded(row)
  PROVE  Delay(row) \in Int
  BY DEF Delay, Row, Moded

(* The deadline of a schedule that is not skipped is a time.               *)
LEMMA DeadlineType ==
  ASSUME TableInv, NEW n \in Names, schedules[n].status # "absent",
         schedules[n].cron = Nil \/ Parses(schedules[n].cron)
  PROVE  Deadline(schedules[n]) \in Int
<1>1. PICK row \in Row : row = schedules[n] /\ row.status # "absent" /\ Moded(row)
  BY RowFields
<1>2. Reference(row) \in Int /\ Wrap(Delay(row)) \in Int
  BY <1>1, DelayType, WrapType DEF Row, NilOr, Reference
<1>3. CASE row.cron = Nil
  BY <1>1, <1>2, <1>3 DEF Deadline
<1>4. CASE row.cron # Nil
  <2>1. row.cron \in Nat
    BY <1>1, <1>4 DEF Parses
  <2>2. NextFire(row.cron, Reference(row)) \in Int
    BY <1>2, <2>1, NextFireType
  <2> QED
    BY <1>1, <1>2, <1>4, <2>2 DEF Deadline
<1> QED
  BY <1>3, <1>4

-----------------------------------------------------------------------------
(* What the statements write                                               *)

(* The row a statement leaves, by the fields that matter to the life cycle. *)
Writes(n, row) == schedules' = [schedules EXCEPT ![n] = row]

LEMMA UpsertWrites ==
  ASSUME IInv, NEW c \in Calls, Upsert(c)
  PROVE  \E row \in Row :
           /\ Writes(call[c].name, row) /\ call[c].name \in Names
           /\ row.status = IF schedules[call[c].name].status = "absent" THEN "ok"
                           ELSE schedules[call[c].name].status
           /\ row.seen = schedules[call[c].name].seen
           /\ Moded(row)
<1> DEFINE q == call[c]
           old == schedules[q.name]
<1>1. q.name \in Names /\ q.at \in Int /\ q.expect \in Expectations /\ Valid(q.expect)
  BY DEF Upsert, IInv, CallInv, CallOK
<1>2. PICK row :
        row = [status |-> IF old.status = "absent" THEN "ok" ELSE old.status,
               interval |-> q.expect.interval, cron |-> q.expect.cron,
               grace |-> q.expect.grace, seen |-> old.seen, updated |-> q.at]
  OBVIOUS
<1>3. /\ q.expect.interval \in NilOr(Int) /\ q.expect.cron \in NilOr(Crons)
      /\ q.expect.grace \in Int
  BY <1>1, ConstantsAssumption DEF NilOr
<1>4. old.seen \in NilOr(Int) /\ old.status \in {"absent", "ok", "missed"}
  BY <1>1, RowFields DEF IInv
<1>5. row \in Row
  BY <1>1, <1>2, <1>3, <1>4 DEF Row
<1>6. row.status = (IF old.status = "absent" THEN "ok" ELSE old.status) /\ row.seen = old.seen
  BY <1>2
<1>7. Moded(row)
  BY <1>1, <1>2, <1>3 DEF Moded, Valid, NilOr
<1>8. Writes(q.name, row)
  BY <1>2 DEF Upsert, Writes
<1> QED
  BY <1>1, <1>5, <1>6, <1>8, <1>7

LEMMA TouchWrites ==
  ASSUME IInv, NEW c \in Calls, Touch(c), schedules[call[c].name].status # "absent"
  PROVE  \E row \in Row :
           /\ Writes(call[c].name, row) /\ call[c].name \in Names
           /\ row.status = "ok" /\ row.seen = call[c].at /\ call[c].at \in 0..MaxTime
           /\ Moded(row)
<1>1. call[c].name \in Names /\ call[c].at \in 0..MaxTime
  BY DEF Touch, IInv, CallInv, CallOK
<1>2. PICK old \in Row : old = schedules[call[c].name] /\ old.status # "absent" /\ Moded(old)
  BY <1>1, RowFields DEF IInv
<1>3. PICK row : row = [old EXCEPT !.status = "ok", !.seen = call[c].at, !.updated = call[c].at]
  OBVIOUS
<1>4. call[c].at \in Int
  BY <1>1, ConstantsAssumption
<1>5. row \in Row
  BY <1>2, <1>3, <1>4 DEF Row, NilOr
<1>6. row.status = "ok" /\ row.seen = call[c].at /\ Moded(row)
  BY <1>2, <1>3 DEF Row, Moded
<1>7. Writes(call[c].name, row)
  BY <1>2, <1>3 DEF Touch, Writes
<1> QED
  BY <1>1, <1>5, <1>6, <1>7

Flips(n) ==
  \E row \in Row :
    /\ Writes(n, row) /\ n \in Names /\ schedules[n].status = "ok"
    /\ row.status = "missed" /\ row.seen = schedules[n].seen /\ Moded(row)
    /\ owed' = [owed EXCEPT ![n] = 1]

(* Marking a candidate either flips it or passes over it.                  *)
MarksOne(n) ==
  /\ n \in detect.cands /\ n \in Names
  /\ detect'.cands = detect.cands \ {n} /\ detect'.found = detect.found
  /\ detect'.at = detect.at /\ detect'.deadline = detect.deadline /\ detect' \in DetectRecs
  /\ \/ Flips(n) /\ detect'.pc = "get" /\ detect'.cur = n
     \/ detect'.pc = "mark" /\ UNCHANGED <<schedules, owed>>

LEMMA MarkWrites ==
  ASSUME IInv, DetectMark
  PROVE  \E n \in detect.cands : MarksOne(n)
<1>1. PICK n \in detect.cands :
        \/ /\ Flaggable(schedules[n])
           /\ schedules' = [schedules EXCEPT ![n] =
                [schedules[n] EXCEPT !.status = "missed", !.updated = detect.at]]
           /\ detect' = [[detect EXCEPT !.cands = detect.cands \ {n}] EXCEPT !.pc = "get", !.cur = n]
           /\ owed' = IF schedules[n].status = "ok" THEN [owed EXCEPT ![n] = 1] ELSE owed
        \/ /\ detect' = [detect EXCEPT !.cands = detect.cands \ {n}]
           /\ UNCHANGED <<schedules, owed>>
  BY DEF DetectMark
<1>2. n \in Names /\ detect.at \in Int /\ detect \in DetectRecs /\ detect.pc = "mark"
  BY DEF DetectMark, IInv, DetectInv, DetectRecs
<1>3. PICK rest : rest = [detect EXCEPT !.cands = detect.cands \ {n}]
  OBVIOUS
<1>4. /\ rest \in DetectRecs /\ rest.pc = "mark" /\ rest.at = detect.at
      /\ rest.cands = detect.cands \ {n} /\ rest.found = detect.found
      /\ rest.deadline = detect.deadline
  BY <1>2, <1>3 DEF DetectRecs
<1>5. CASE detect' = rest /\ UNCHANGED <<schedules, owed>>
  BY <1>2, <1>4, <1>5 DEF MarksOne
<1>6. CASE /\ Flaggable(schedules[n])
           /\ schedules' = [schedules EXCEPT ![n] =
                [schedules[n] EXCEPT !.status = "missed", !.updated = detect.at]]
           /\ detect' = [rest EXCEPT !.pc = "get", !.cur = n]
           /\ owed' = IF schedules[n].status = "ok" THEN [owed EXCEPT ![n] = 1] ELSE owed
  <2>1. PICK q : q = detect'
    OBVIOUS
  <2>2. /\ q \in DetectRecs /\ q.pc = "get" /\ q.cur = n /\ q.at = rest.at
        /\ q.cands = rest.cands /\ q.found = rest.found /\ q.deadline = rest.deadline
    BY <1>2, <1>4, <1>6, <2>1 DEF DetectRecs, NilOr
  <2>3. PICK old \in Row : old = schedules[n] /\ old.status = "ok" /\ Moded(old)
    BY <1>2, <1>6, RowFields DEF IInv, Flaggable
  <2>4. PICK row : row = [old EXCEPT !.status = "missed", !.updated = detect.at]
    OBVIOUS
  <2>5. row \in Row /\ row.status = "missed" /\ row.seen = old.seen /\ Moded(row)
    BY <1>2, <2>3, <2>4 DEF Row, Moded
  <2>6. Flips(n)
    BY <1>2, <1>6, <2>3, <2>4, <2>5 DEF Flips, Writes
  <2> QED
    BY <1>2, <1>4, <2>1, <2>2, <2>6 DEF MarksOne
<1> QED
  BY <1>1, <1>3, <1>5, <1>6

-----------------------------------------------------------------------------
(* Every step preserves the invariant                                      *)

LEMMA GotoCall ==
  ASSUME CallInv, NEW c \in Calls, NEW q \in CallRecs, CallOK(q), Goto(c, q)
  PROVE  CallInv'
  BY DEF CallInv, Goto

LEMMA WriteRow ==
  ASSUME TableInv, NEW n \in Names, NEW row \in Row \cup {NoRow}, Moded(row), Writes(n, row)
  PROVE  TableInv'
  BY DEF TableInv, Writes

LEMMA CallNext ==
  ASSUME IInv, [Next]_vars PROVE CallInv'
<1>1. CallInv
  BY DEF IInv
<1>2. CASE UNCHANGED call
  BY <1>1, <1>2 DEF CallInv
<1>3. ASSUME NEW c \in Calls, RegisterCall(c) PROVE CallInv'
  <2>1. PICK n \in Names, e \in Expectations :
          /\ Goto(c, [pc |-> "upsert", name |-> n, at |-> now, expect |-> e])
          /\ Valid(e)
    BY <1>3 DEF RegisterCall
  <2>2. PICK q : q = [pc |-> "upsert", name |-> n, at |-> now, expect |-> e]
    OBVIOUS
  <2>3. now \in 0..MaxTime /\ now \in Int
    BY ConstantsAssumption DEF IInv, ClockInv
  <2>4. q.pc = "upsert" /\ q.name = n /\ q.at = now /\ q.expect = e /\ q \in CallRecs
    BY <2>2, <2>3 DEF CallRecs, NilOr
  <2>5. CallOK(q)
    BY <2>1, <2>3, <2>4 DEF CallOK
  <2> QED
    BY <1>1, <2>1, <2>2, <2>5, <2>4, GotoCall
<1>4. ASSUME NEW c \in Calls, StartCall(c) PROVE CallInv'
  <2>1. PICK n \in Names : Goto(c, [IdleCall EXCEPT !.pc = "touch", !.name = n, !.at = now])
    BY <1>4 DEF StartCall
  <2>2. PICK q : q = [IdleCall EXCEPT !.pc = "touch", !.name = n, !.at = now]
    OBVIOUS
  <2>3. now \in 0..MaxTime /\ now \in Int
    BY ConstantsAssumption DEF IInv, ClockInv
  <2>4. q.pc = "touch" /\ q.name = n /\ q.at = now /\ q \in CallRecs
    BY <2>2, <2>3 DEF IdleCall, CallRecs, NilOr
  <2> QED
    BY <1>1, <2>1, <2>2, <2>3, <2>4, GotoCall DEF CallOK
<1>5. ASSUME NEW c \in Calls, Goto(c, IdleCall) PROVE CallInv'
  BY <1>1, <1>5, GotoCall, IdleCallType
<1>6. CASE Crash
  BY <1>6, IdleCallType DEF Crash, CallInv
<1> QED
  BY <1>2, <1>3, <1>4, <1>5, <1>6
  DEF Next, vars, Tick, Upsert, Touch, CallDbError, Delete, DetectStep, DetectStart, DetectSelect,
      DetectMark, DetectGet, DetectGone, DetectPublish, DetectEnd, DetectDbError

LEMMA TableNext ==
  ASSUME IInv, [Next]_vars PROVE TableInv'
<1>1. TableInv
  BY DEF IInv
<1>2. CASE UNCHANGED schedules
  BY <1>1, <1>2 DEF TableInv
<1>3. ASSUME NEW c \in Calls, Upsert(c) PROVE TableInv'
  BY <1>1, <1>3, UpsertWrites, WriteRow
<1>4. ASSUME NEW c \in Calls, Touch(c) PROVE TableInv'
  <2>1. CASE schedules[call[c].name].status = "absent"
    BY <1>2, <1>4, <2>1 DEF Touch
  <2> QED
    BY <1>1, <1>4, <2>1, TouchWrites, WriteRow
<1>5. ASSUME NEW n \in Names, Delete(n) PROVE TableInv'
  <2>1. Moded(NoRow)
    BY DEF Moded, NoRow
  <2> QED
    BY <1>1, <1>5, <2>1, WriteRow DEF Delete, Writes
<1>6. CASE DetectMark
  BY <1>1, <1>2, <1>6, MarkWrites, WriteRow DEF MarksOne, Flips
<1> QED
  BY <1>2, <1>3, <1>4, <1>5, <1>6
  DEF Next, vars, Tick, RegisterCall, StartCall, CallDbError, DetectStep, DetectStart,
      DetectSelect, DetectGet, DetectGone, DetectPublish, DetectEnd, DetectDbError, Crash

LEMMA DetectNext ==
  ASSUME IInv, [Next]_vars PROVE DetectInv'
<1>1. DetectInv /\ detect \in DetectRecs
  BY DEF IInv, DetectInv
<1>2. CASE UNCHANGED <<detect, owed>>
  BY <1>1, <1>2 DEF DetectInv, Debts, Passed
<1>3. CASE detect' = IdleDetect /\ UNCHANGED owed
  BY <1>1, <1>3, IdleDetectType DEF DetectInv
<1> SUFFICES ASSUME NEW q, q = detect', NEW o, o = owed'
             PROVE  /\ q \in DetectRecs /\ o \in [Names -> {0, 1}]
                    /\ q.pc # "idle" => q.at \in Int
                    /\ Debts(q, o) /\ Passed(q)
  BY Zenon DEF DetectInv
<1>4. CASE DetectStart
  <2>1. q = [IdleDetect EXCEPT !.pc = "select", !.at = now] /\ o = owed
    BY <1>4 DEF DetectStart
  <2>2. now \in Int
    BY ConstantsAssumption DEF IInv, ClockInv
  <2>3. q.pc = "select" /\ q.at = now /\ q.found = <<>> /\ q.cands = {} /\ q \in DetectRecs
    BY <2>1, <2>2, IdleDetectType DEF IdleDetect, DetectRecs, NilOr
  <2> QED
    BY <1>1, <2>1, <2>2, <2>3, EmptySeq DEF DetectInv, Debts, Passed
<1>5. CASE DetectSelect
  <2>1. detect.found = <<>> /\ o = owed /\ detect.at \in Int
    BY <1>1, <1>5 DEF DetectSelect, DetectInv, Debts
  <2>2. PICK cands, deadline :
          /\ cands = {n \in Names : Flaggable(schedules[n]) /\ Overdue(schedules[n], detect.at)}
          /\ deadline = [n \in Names |-> IF n \in cands THEN Deadline(schedules[n]) ELSE Nil]
          /\ q = [detect EXCEPT !.pc = "mark", !.cands = cands, !.deadline = deadline]
    BY <1>5 DEF DetectSelect
  <2>3. \A n \in cands : /\ n \in Names /\ deadline[n] = Deadline(schedules[n])
                         /\ deadline[n] \in Int /\ deadline[n] <= detect.at
    <3> SUFFICES ASSUME NEW n \in cands
                 PROVE  /\ n \in Names /\ deadline[n] = Deadline(schedules[n])
                        /\ deadline[n] \in Int /\ deadline[n] <= detect.at
      OBVIOUS
    <3>1. n \in Names /\ Flaggable(schedules[n]) /\ Overdue(schedules[n], detect.at)
      BY <2>2
    <3>2. deadline[n] = Deadline(schedules[n])
      BY <2>2, <3>1
    <3>3. Deadline(schedules[n]) \in Int
      BY <3>1, DeadlineType DEF IInv, Overdue, Flaggable
    <3> QED
      BY <2>1, <3>1, <3>2, <3>3 DEF Overdue
  <2>4. cands \in SUBSET Names /\ deadline \in [Names -> NilOr(Int)]
    BY <2>2, <2>3 DEF NilOr
  <2>5. /\ q \in DetectRecs /\ q.pc = "mark" /\ q.at = detect.at /\ q.found = detect.found
        /\ q.cands = cands /\ q.deadline = deadline
    BY <1>1, <2>2, <2>4 DEF DetectRecs
  <2>6. Passed(q)
    BY <2>3, <2>5 DEF Passed
  <2> QED
    BY <1>1, <2>1, <2>5, <2>6, EmptySeq DEF DetectInv, Debts
<1>6. CASE DetectMark
  <2>1. PICK n \in detect.cands : MarksOne(n)
    BY <1>6, MarkWrites
  <2>2. /\ q \in DetectRecs /\ q.cands = detect.cands \ {n} /\ q.found = detect.found
        /\ q.at = detect.at /\ q.deadline = detect.deadline /\ n \in Names /\ detect.pc = "mark"
    BY <1>6, <2>1 DEF MarksOne, DetectMark
  <2>3. detect.at \in Int /\ owed \in [Names -> {0, 1}] /\ Debts(detect, owed)
    BY <1>1, <2>2 DEF DetectInv
  <2>4. Passed(q)
    BY <1>1, <2>2 DEF DetectInv, Passed
  <2>5. CASE q.pc = "mark" /\ o = owed
    BY <2>2, <2>3, <2>5, <2>4 DEF Debts
  <2>6. CASE q.pc = "get" /\ q.cur = n /\ o = [owed EXCEPT ![n] = 1]
    <3>1. o \in [Names -> {0, 1}] /\ o[n] = 1
      BY <2>2, <2>3, <2>6
    <3>2. \A i \in DOMAIN detect.found : detect.found[i] # n
      BY <2>1, <2>3 DEF Debts
    <3>3. \A i \in DOMAIN detect.found : detect.found[i] \in Names
      BY <1>1, ElementOfSeq, LenProperties DEF DetectRecs
    <3>4. \A i \in DOMAIN detect.found : o[detect.found[i]] = 1
      BY <2>2, <2>3, <2>6, <3>2, <3>3 DEF Debts
    <3> QED
      BY <2>2, <2>3, <2>6, <2>4, <3>1, <3>2, <3>4 DEF Debts
  <2> QED
    BY <2>1, <2>5, <2>6 DEF MarksOne, Flips
<1>7. CASE DetectGet
  <2>1. q = [detect EXCEPT !.pc = "mark", !.cur = Nil, !.found = Append(detect.found, detect.cur)]
    BY <1>7 DEF DetectGet
  <2>2. /\ detect.pc = "get" /\ detect.cur \in Names /\ detect.at \in Int /\ o = owed
        /\ Debts(detect, owed) /\ owed \in [Names -> {0, 1}]
    BY <1>1, <1>7 DEF DetectGet, DetectInv, Debts
  <2>3. PICK found \in Seq(Names) : found = detect.found
    BY <1>1 DEF DetectRecs
  <2>4. PICK longer : longer = Append(found, detect.cur)
    OBVIOUS
  <2>5. /\ longer \in Seq(Names) /\ Len(found) \in Nat /\ DOMAIN found = 1..Len(found)
        /\ DOMAIN longer = 1..(Len(found) + 1)
        /\ \A i \in 1..Len(found) : longer[i] = found[i]
        /\ longer[Len(found) + 1] = detect.cur
    BY <2>2, <2>4, AppendProperties, LenProperties
  <2>6. /\ q \in DetectRecs /\ q.pc = "mark" /\ q.at = detect.at /\ q.found = longer
        /\ q.cands = detect.cands /\ q.deadline = detect.deadline
    BY <1>1, <2>1, <2>3, <2>4, <2>5 DEF DetectRecs, NilOr
  <2>7. \A i \in DOMAIN longer :
          /\ owed[longer[i]] = 1 /\ longer[i] \notin detect.cands
          /\ \A j \in DOMAIN longer : i # j => longer[i] # longer[j]
    <3>1. ASSUME NEW i \in DOMAIN longer
          PROVE  \/ i \in DOMAIN found /\ longer[i] = found[i]
                 \/ i = Len(found) + 1 /\ longer[i] = detect.cur
      BY <2>5
    <3>2. \A i \in DOMAIN found :
            /\ owed[found[i]] = 1 /\ found[i] \notin detect.cands /\ found[i] # detect.cur
            /\ \A j \in DOMAIN found : i # j => found[i] # found[j]
      BY <2>2, <2>3 DEF Debts
    <3>3. owed[detect.cur] = 1 /\ detect.cur \notin detect.cands
      BY <2>2 DEF Debts
    <3> QED
      BY <3>1, <3>2, <3>3
  <2>8. Passed(q)
    BY <1>1, <2>6 DEF DetectInv, Passed
  <2> QED
    BY <2>2, <2>6, <2>7, <2>8 DEF Debts
<1>8. CASE DetectPublish
  <2>1. /\ q = [detect EXCEPT !.found = Tail(detect.found)] /\ detect.found # <<>>
        /\ o = [owed EXCEPT ![Head(detect.found)] = owed[Head(detect.found)] - 1]
        /\ detect.pc = "mark"
    BY <1>8 DEF DetectPublish
  <2>2. PICK found \in Seq(Names) : found = detect.found
    BY <1>1 DEF DetectRecs
  <2>3. PICK rest : rest = Tail(found)
    OBVIOUS
  <2>4. /\ rest \in Seq(Names) /\ Len(found) \in Nat /\ DOMAIN found = 1..Len(found)
        /\ Len(rest) = Len(found) - 1 /\ DOMAIN rest = 1..Len(rest)
        /\ \A i \in 1..Len(rest) : rest[i] = found[i + 1]
    BY <2>1, <2>2, <2>3, HeadTailProperties, LenProperties
  <2>5. Head(found) \in Names /\ Head(found) = found[1] /\ 1 \in DOMAIN found
    <3>1. Len(found) # 0
      BY <2>1, <2>2, EmptySeq
    <3>2. Head(found) \in Names
      BY <2>1, <2>2, HeadTailProperties
    <3>3. Head(found) = found[1]
      OBVIOUS
    <3> QED
      BY <2>4, <3>1, <3>2, <3>3
  <2>6. /\ q \in DetectRecs /\ q.pc = "mark" /\ q.at = detect.at /\ q.found = rest
        /\ q.cands = detect.cands /\ q.deadline = detect.deadline
    BY <1>1, <2>1, <2>2, <2>3, <2>4 DEF DetectRecs
  <2>7. detect.at \in Int /\ owed \in [Names -> {0, 1}] /\ Debts(detect, owed)
    BY <1>1, <2>1 DEF DetectInv
  <2>8. owed[found[1]] = 1
    BY <2>2, <2>5, <2>7 DEF Debts
  <2>9. o = [owed EXCEPT ![found[1]] = 0]
    <3>1. PICK h : h = found[1]
      OBVIOUS
    <3>2. owed[h] = 1 /\ o = [owed EXCEPT ![h] = owed[h] - 1]
      BY <2>1, <2>2, <2>5, <2>8, <3>1
    <3>3. owed[h] - 1 = 0
      BY <3>2
    <3> QED
      BY <3>1, <3>2, <3>3
  <2>10. \A i \in DOMAIN rest : i + 1 \in DOMAIN found /\ i + 1 # 1 /\ rest[i] = found[i + 1]
    BY <2>4
  <2>11. \A i \in DOMAIN rest : rest[i] # found[1] /\ rest[i] \in Names
    <3>1. \A i \in DOMAIN rest : rest[i] \in Names
      BY <2>4, ElementOfSeq
    <3> QED
      BY <2>2, <2>5, <2>7, <2>10, <3>1 DEF Debts
  <2>12. \A i \in DOMAIN rest : o[rest[i]] = 1 /\ rest[i] \notin detect.cands
    BY <2>2, <2>7, <2>9, <2>10, <2>11 DEF Debts
  <2>13. \A i, j \in DOMAIN rest : i # j => rest[i] # rest[j]
    <3> SUFFICES ASSUME NEW i \in DOMAIN rest, NEW j \in DOMAIN rest, i # j
                 PROVE  rest[i] # rest[j]
      OBVIOUS
    <3>1. i + 1 # j + 1
      BY <2>4
    <3> QED
      BY <2>2, <2>7, <2>10, <3>1 DEF Debts
  <2>14. o \in [Names -> {0, 1}]
    BY <2>5, <2>7, <2>9
  <2>15. Passed(q)
    BY <1>1, <2>6 DEF DetectInv, Passed
  <2> QED
    BY <2>6, <2>7, <2>12, <2>13, <2>14, <2>15 DEF Debts
<1> QED
  BY <1>1, <1>2, <1>3, <1>4, <1>5, <1>6, <1>7, <1>8
  DEF Next, vars, Tick, RegisterCall, Upsert, StartCall, Touch, CallDbError, Delete, DetectStep,
      DetectGone, DetectEnd, DetectDbError, Crash, DetectInv

LEMMA StepIInv == IInv /\ [Next]_vars => IInv'
<1> SUFFICES ASSUME IInv, [Next]_vars PROVE IInv'
  OBVIOUS
<1>1. ClockInv'
  <2>1. UNCHANGED now \/ (now < MaxTime /\ now' = now + 1)
    BY DEF Next, vars, Tick, RegisterCall, Upsert, StartCall, Touch, CallDbError, Delete,
       DetectStep, DetectStart, DetectSelect, DetectMark, DetectGet, DetectGone, DetectPublish,
       DetectEnd, DetectDbError, Crash
  <2>2. UNCHANGED faults \/ (faults < MaxFaults /\ faults' = faults + 1)
    BY DEF Next, vars, Tick, RegisterCall, Upsert, StartCall, Touch, CallDbError, Delete,
       DetectStep, DetectStart, DetectSelect, DetectMark, DetectGet, DetectGone, DetectPublish,
       DetectEnd, DetectDbError, Crash
  <2> QED
    BY <2>1, <2>2, ConstantsAssumption DEF IInv, ClockInv
<1> QED
  BY <1>1, TableNext, CallNext, DetectNext DEF IInv

LEMMA IInvAlways == Spec => []IInv
  BY InitIInv, StepIInv, PTL DEF Spec

(* Every variable keeps its type: only a registration makes a row present, *)
(* with every column the schema declares NOT NULL, and no announcement is  *)
(* made that was not owed.                                                 *)
THEOREM TypeCorrect == Spec => []TypeOK
<1>1. IInv => TypeOK
  BY DEF IInv, ClockInv, TableInv, CallInv, DetectInv, CallRecs, DetectRecs, TypeOK
<1> QED
  BY <1>1, IInvAlways, PTL

-----------------------------------------------------------------------------
(* The life cycle                                                          *)

statuses == [n \in Names |-> schedules[n].status]
sightings == [n \in Names |-> schedules[n].seen]

(* A written row shows in one entry of what the life cycle sees.           *)
LEMMA WriteSeen ==
  ASSUME TableInv, NEW n \in Names, NEW row, Writes(n, row)
  PROVE  /\ statuses' = [statuses EXCEPT ![n] = row.status]
         /\ sightings' = [sightings EXCEPT ![n] = row.seen]
<1>1. \A m \in Names : schedules'[m] = IF m = n THEN row ELSE schedules[m]
  BY DEF TableInv, Writes
<1> QED
  BY <1>1 DEF statuses, sightings

LEMMA SameEntry ==
  ASSUME NEW n \in Names
  PROVE  /\ [statuses EXCEPT ![n] = schedules[n].status] = statuses
         /\ [sightings EXCEPT ![n] = schedules[n].seen] = sightings
  BY DEF statuses, sightings

LEMMA LifecycleStep ==
  ASSUME IInv, [Next]_vars
  PROVE  [Lifecycle!Next]_(<<statuses, sightings, owed>>)
<1> DEFINE Goal == Lifecycle!Next \/ UNCHANGED <<statuses, sightings, owed>>
<1> SUFFICES Goal
  OBVIOUS
<1>1. ASSUME UNCHANGED <<schedules, owed>> PROVE Goal
  BY <1>1 DEF statuses, sightings
<1>2. ASSUME NEW c \in Calls, Upsert(c) PROVE Goal
  <2>1. PICK row \in Row :
          /\ Writes(call[c].name, row) /\ call[c].name \in Names
          /\ row.status = IF schedules[call[c].name].status = "absent" THEN "ok"
                          ELSE schedules[call[c].name].status
          /\ row.seen = schedules[call[c].name].seen
    BY <1>2, UpsertWrites
  <2>2. PICK n \in Names : n = call[c].name
    BY <2>1
  <2>3. /\ statuses' = [statuses EXCEPT ![n] = row.status]
        /\ sightings' = [sightings EXCEPT ![n] = row.seen]
    BY <2>1, <2>2, WriteSeen DEF IInv
  <2>4. sightings' = sightings /\ UNCHANGED owed
    BY <1>2, <2>1, <2>2, <2>3, SameEntry DEF Upsert
  <2>5. CASE schedules[n].status = "absent"
    <3>1. Lifecycle!Register(n)
      BY <2>1, <2>2, <2>3, <2>4, <2>5 DEF Lifecycle!Register, statuses, sightings
    <3> QED
      BY <3>1 DEF Lifecycle!Next
  <2>6. CASE schedules[n].status # "absent"
    <3>1. statuses' = statuses
      BY <2>1, <2>2, <2>3, <2>6, SameEntry
    <3> QED
      BY <2>4, <3>1
  <2> QED
    BY <2>5, <2>6
<1>3. ASSUME NEW c \in Calls, Touch(c) PROVE Goal
  <2>1. CASE schedules[call[c].name].status = "absent"
    BY <1>1, <1>3, <2>1 DEF Touch
  <2>2. CASE schedules[call[c].name].status # "absent"
    <3>1. PICK row \in Row :
            /\ Writes(call[c].name, row) /\ call[c].name \in Names
            /\ row.status = "ok" /\ row.seen = call[c].at /\ call[c].at \in 0..MaxTime
      BY <1>3, <2>2, TouchWrites
    <3>2. PICK n \in Names, t \in 0..MaxTime : n = call[c].name /\ t = call[c].at
      BY <3>1
    <3>3. /\ statuses' = [statuses EXCEPT ![n] = "ok"]
          /\ sightings' = [sightings EXCEPT ![n] = t]
      BY <3>1, <3>2, WriteSeen DEF IInv
    <3>4. Lifecycle!Seen(n)
      BY <1>3, <2>2, <3>2, <3>3 DEF Touch, Lifecycle!Seen, statuses, sightings
    <3> QED
      BY <3>4 DEF Lifecycle!Next
  <2> QED
    BY <2>1, <2>2
<1>4. ASSUME NEW n \in Names, Delete(n) PROVE Goal
  <2>1. statuses' = [statuses EXCEPT ![n] = "absent"] /\ sightings' = [sightings EXCEPT ![n] = Nil]
    <3>1. NoRow.status = "absent" /\ NoRow.seen = Nil
      BY DEF NoRow
    <3> QED
      BY <1>4, <3>1, WriteSeen DEF Delete, Writes, IInv
  <2>2. Lifecycle!Drop(n)
    BY <1>4, <2>1 DEF Delete, Lifecycle!Drop, statuses, sightings
  <2> QED
    BY <2>2 DEF Lifecycle!Next
<1>5. CASE DetectMark
  <2>1. PICK n \in detect.cands : MarksOne(n)
    BY <1>5, MarkWrites
  <2>2. CASE UNCHANGED <<schedules, owed>>
    BY <1>1, <2>2
  <2>3. CASE Flips(n)
    <3>1. PICK row \in Row :
            /\ Writes(n, row) /\ n \in Names /\ schedules[n].status = "ok"
            /\ row.status = "missed" /\ row.seen = schedules[n].seen
            /\ owed' = [owed EXCEPT ![n] = 1]
      BY <2>3 DEF Flips
    <3>2. /\ statuses' = [statuses EXCEPT ![n] = "missed"]
          /\ sightings' = sightings
      BY <3>1, WriteSeen, SameEntry DEF IInv
    <3>3. Lifecycle!Miss(n)
      BY <3>1, <3>2 DEF Lifecycle!Miss, statuses, sightings
    <3> QED
      BY <3>1, <3>3 DEF Lifecycle!Next
  <2> QED
    BY <2>1, <2>2, <2>3 DEF MarksOne
<1>6. CASE DetectPublish
  <2>1. PICK found \in Seq(Names) : found = detect.found /\ found # <<>>
    BY <1>6 DEF DetectPublish, IInv, DetectInv, DetectRecs
  <2>2. PICK n : n = Head(found)
    OBVIOUS
  <2>3. n \in Names
    BY <2>1, <2>2, HeadTailProperties
  <2>4. n = found[1] /\ 1 \in DOMAIN found
    <3>1. Len(found) # 0 /\ Len(found) \in Nat /\ DOMAIN found = 1..Len(found)
      BY <2>1, EmptySeq, LenProperties
    <3>2. Head(found) = found[1]
      OBVIOUS
    <3> QED
      BY <2>2, <3>1, <3>2
  <2>5. owed[n] = 1 /\ owed[n] - 1 = 0
    BY <2>1, <2>4 DEF IInv, DetectInv, Debts
  <2>6. owed' = [owed EXCEPT ![n] = owed[n] - 1] /\ UNCHANGED schedules
    BY <1>6, <2>1, <2>2 DEF DetectPublish
  <2>7. Lifecycle!Announce(n)
    BY <2>5, <2>6 DEF Lifecycle!Announce, statuses, sightings
  <2> QED
    BY <2>3, <2>7 DEF Lifecycle!Next
<1> QED
  BY <1>1, <1>2, <1>3, <1>4, <1>5, <1>6
  DEF Next, vars, Tick, RegisterCall, StartCall, CallDbError, DetectStep, DetectStart,
      DetectSelect, DetectGet, DetectGone, DetectEnd, DetectDbError, Crash

(* The table and its detector implement ScheduleLifecycle: a registration  *)
(* forgets nothing, only a start clears a missed schedule, and a pass      *)
(* announces each of its flips at most once, whatever else runs between    *)
(* the UPDATE, the Get and the publication.                                *)
THEOREM LifecycleImplemented == Spec => ImplementsLifecycle
<1>1. Init => Lifecycle!Init
  BY DEF Init, NoRow, Lifecycle!Init
<1>2. IInv /\ [Next]_vars => [Lifecycle!Next]_(Lifecycle!vars)
  BY LifecycleStep DEF Lifecycle!vars, statuses, sightings
<1> QED
  BY <1>1, <1>2, IInvAlways, PTL DEF Spec, ImplementsLifecycle, Lifecycle!Spec

-----------------------------------------------------------------------------
(* Only schedules whose run was due are missed                             *)

(* The next occurrence is one, and comes after the reference time.         *)
LEMMA NextFireIsDue ==
  ASSUME NEW period \in Nat \ {0}, NEW ref \in Int
  PROVE  /\ NextFire(period, ref) \in Int /\ NextFire(period, ref) > ref
         /\ NextFire(period, ref) % period = 0
<1>1. PICK k \in Int : k = ref \div period
  OBVIOUS
<1>2. NextFire(period, ref) = (k + 1) * period
  BY <1>1 DEF NextFire
<1>3. ref < (k + 1) * period
  BY <1>1
<1>4. ((k + 1) * period) % period = 0
  OBVIOUS
<1> QED
  BY <1>2, <1>3, <1>4

(* A deadline that has passed means that a run was due, unless the         *)
(* Duration it was computed with had overflowed.                           *)
LEMMA PassedIsDue ==
  ASSUME TableInv, NEW n \in Names, schedules[n].status # "absent",
         schedules[n].cron = Nil \/ Parses(schedules[n].cron),
         Fits(schedules[n]), NEW at \in Int, Deadline(schedules[n]) <= at
  PROVE  WasDue(schedules[n], at)
<1>1. PICK row \in Row : row = schedules[n] /\ row.status # "absent" /\ Moded(row)
  BY RowFields
<1>2. Reference(row) \in Int /\ row.grace \in Int /\ Wrap(Delay(row)) = Delay(row)
  BY <1>1, DelayType, WrapType DEF Row, NilOr, Reference, Fits
<1>3. CASE row.cron = Nil
  BY <1>1, <1>2, <1>3 DEF Deadline, Delay, Moded, WasDue
<1>4. CASE row.cron # Nil /\ row.cron # 0
  <2>1. row.cron \in Nat \ {0}
    BY <1>1, <1>4 DEF Parses
  <2>2. PICK t \in Int : /\ t = NextFire(row.cron, Reference(row))
                         /\ t > Reference(row) /\ t % row.cron = 0
    BY <1>2, <2>1, NextFireIsDue
  <2>3. t + row.grace <= at
    BY <1>1, <1>2, <1>4, <2>2 DEF Deadline, Delay
  <2>4. t \in (Reference(row) + 1)..(at - row.grace)
    BY <1>2, <2>2, <2>3
  <2> QED
    BY <1>1, <1>4, <2>2, <2>4 DEF WasDue
<1>5. CASE row.cron = 0
  BY <1>1, <1>5, ConstantsAssumption DEF WasDue
<1> QED
  BY <1>3, <1>4, <1>5

LEMMA WrittenRow ==
  ASSUME TableInv, NEW m \in Names, NEW row, Writes(m, row), NEW n \in Names
  PROVE  schedules'[n] = IF n = m THEN row ELSE schedules[n]
  BY DEF TableInv, Writes

(* Only the UPDATE of a pass flips a schedule, and only a candidate.       *)
LEMMA FlippedByMark ==
  ASSUME IInv, Next, NEW n \in Names,
         schedules[n].status = "ok", schedules'[n].status = "missed"
  PROVE  n \in detect.cands /\ detect.at \in Int
<1>1. TableInv
  BY DEF IInv
<1>2. CASE UNCHANGED schedules
  BY <1>2
<1>3. ASSUME NEW c \in Calls, Upsert(c) PROVE FALSE
  <2>1. PICK row \in Row :
          /\ Writes(call[c].name, row) /\ call[c].name \in Names
          /\ row.status = IF schedules[call[c].name].status = "absent" THEN "ok"
                          ELSE schedules[call[c].name].status
    BY <1>3, UpsertWrites
  <2> QED
    BY <1>1, <2>1, WrittenRow
<1>4. ASSUME NEW c \in Calls, Touch(c) PROVE FALSE
  <2>1. CASE schedules[call[c].name].status = "absent"
    BY <1>4, <2>1 DEF Touch
  <2>2. CASE schedules[call[c].name].status # "absent"
    BY <1>1, <1>4, <2>2, TouchWrites, WrittenRow
  <2> QED
    BY <2>1, <2>2
<1>5. ASSUME NEW m \in Names, Delete(m) PROVE FALSE
  <2>1. Writes(m, NoRow) /\ NoRow.status = "absent"
    BY <1>5 DEF Delete, Writes, NoRow
  <2> QED
    BY <1>1, <2>1, WrittenRow
<1>6. CASE DetectMark
  <2>1. PICK m \in detect.cands : MarksOne(m)
    BY <1>6, MarkWrites
  <2>2. Flips(m)
    BY <2>1 DEF MarksOne
  <2>3. n = m
    BY <1>1, <2>2, WrittenRow DEF Flips
  <2>4. detect.at \in Int
    BY <1>6 DEF DetectMark, IInv, DetectInv
  <2> QED
    BY <2>3, <2>4
<1> QED
  BY <1>2, <1>3, <1>4, <1>5, <1>6
  DEF Next, vars, Tick, RegisterCall, StartCall, CallDbError, DetectStep, DetectStart,
      DetectSelect, DetectGet, DetectGone, DetectPublish, DetectEnd, DetectDbError, Crash

(* What a pass marks was overdue when its SELECT read it: a schedule is    *)
(* only flipped whose run was due, or whose deadline was changed since, or *)
(* whose interval and grace period overflow.                               *)
THEOREM MissesWereDue == Spec => MissedOnlyWhenDue
<1>1. IInv /\ [Next]_vars => [\A n \in Names : FlippedWhenDue(n)]_vars
  <2> SUFFICES ASSUME IInv, Next, NEW n \in Names,
                      schedules[n].status = "ok", schedules'[n].status = "missed"
               PROVE  FlippedWhenDue(n)
    BY DEF FlippedWhenDue
  <2>1. n \in detect.cands /\ detect.at \in Int
    BY FlippedByMark
  <2>2. detect.deadline[n] \in Int /\ detect.deadline[n] <= detect.at
    BY <2>1 DEF IInv, DetectInv, Passed
  <2>3. PICK row : row = schedules[n] /\ row.status # "absent"
    OBVIOUS
  <2>4. CASE row.cron # Nil /\ ~Parses(row.cron)
    BY <2>2, <2>3, <2>4, ConstantsAssumption DEF FlippedWhenDue
  <2>5. CASE (row.cron = Nil \/ Parses(row.cron)) /\ Deadline(row) = detect.deadline[n]
    <3>1. CASE Fits(row)
      BY <2>1, <2>2, <2>3, <2>5, <3>1, PassedIsDue DEF IInv, FlippedWhenDue
    <3>2. CASE ~Fits(row)
      BY <2>3, <2>5, <3>2 DEF FlippedWhenDue
    <3> QED
      BY <3>1, <3>2
  <2> QED
    BY <2>3, <2>4, <2>5 DEF FlippedWhenDue
<1> QED
  BY <1>1, IInvAlways, PTL DEF Spec, MissedOnlyWhenDue

(* An interval and grace period beyond Fits need no race: for twice the    *)
(* range of a Duration their sum is negative, and every pass that sees the *)
(* schedule, however recently it was seen or registered, takes it for      *)
(* overdue.                                                                *)
THEOREM OverflowingIntervalIsOverdue ==
  ASSUME NEW row \in Row, NEW at \in Int, row.cron = Nil, Reference(row) \in Int,
         Reference(row) <= at, Delay(row) \in Word..(2 * Word - 1)
  PROVE  Overdue(row, at)
<1> DEFINE x == Delay(row) + Word
<1>1. Word \in Int /\ Word > 0 /\ x \in Int /\ 2 * Word <= x /\ x < 2 * (2 * Word)
  BY ConstantsAssumption
<1>2. x % (2 * Word) = x - 2 * Word
  BY <1>1
<1>3. Wrap(Delay(row)) \in Int /\ Wrap(Delay(row)) < 0
  BY <1>1, <1>2 DEF Wrap
<1> QED
  BY <1>3 DEF Overdue, Deadline
=============================================================================
