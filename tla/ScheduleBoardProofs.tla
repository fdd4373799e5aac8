------------------------ MODULE ScheduleBoardProofs -------------------------
(***************************************************************************)
(* Proofs about ScheduleBoard, for every set of names, any number of calls *)
(* in flight and any number of changes and faults.                         *)
(***************************************************************************)
EXTENDS ScheduleBoard, TLAPS

-----------------------------------------------------------------------------
(* The inductive invariant                                                 *)

(* No row, and nothing the page has heard, is newer than the table.        *)
StampInv ==
  \A n \in Names : known[n].stamp <= rows[n].stamp /\ rows[n].stamp <= stamp

(* A list under way is no newer than the table and, but for the names the  *)
(* page has heard of since it asked, no older than what it knows.          *)
RefreshInv ==
  \A f \in Refreshes :
    fetch[f].pc = "answered" /\ fetch[f].ok =>
      /\ fetch[f].list \in [Names -> States]
      /\ \A n \in Names :
           /\ fetch[f].list[n].stamp <= rows[n].stamp
           /\ n \notin news[f] => known[n].stamp <= fetch[f].list[n].stamp

(* The same of the answer to a remove, which speaks of one name.           *)
RemoveInv ==
  \A f \in Removes :
    /\ fetch[f].pc # "idle" => fetch[f].name \in Names
    /\ fetch[f].pc = "answered" /\ fetch[f].ok =>
         /\ fetch[f].gone <= rows[fetch[f].name].stamp
         /\ fetch[f].name \notin news[f] => known[fetch[f].name].stamp <= fetch[f].gone

IInv == TypeOK /\ StampInv /\ RefreshInv /\ RemoveInv /\ ShownIsKnown

CallStates ==
  [pc : {"idle", "asked", "answered"}, key : NilOr(Keys), name : NilOr(Names), ok : BOOLEAN,
   list : NilOr([Names -> States]), gone : 0..MaxStamp]

LEMMA InitIInv == Init => IInv
<1> SUFFICES ASSUME Init PROVE IInv
  OBVIOUS
<1> USE ConstantsAssumption DEF Init, Absent, State, Idle, Call
<1>1. TypeOK
  BY DEF TypeOK, States, NilOr
<1>2. StampInv /\ RefreshInv /\ RemoveInv
  BY DEF StampInv, RefreshInv, RemoveInv, Calls
<1>3. ShownIsKnown
  BY DEF ShownIsKnown, Shown
<1> QED
  BY <1>1, <1>2, <1>3 DEF IInv

-----------------------------------------------------------------------------
(* Steps of the server                                                     *)

(* A row is written: it gets a stamp no other has.                         *)
LEMMA WriteStep ==
  ASSUME IInv, NEW n \in Names, NEW there \in BOOLEAN, Write(n, there)
  PROVE  /\ stamp' = stamp + 1 /\ stamp' \in 0..MaxStamp
         /\ rows' \in [Names -> States]
         /\ rows'[n].stamp = stamp + 1
         /\ \A m \in Names : rows[m].stamp <= rows'[m].stamp /\ rows'[m].stamp <= stamp'
<1> USE ConstantsAssumption
<1>1. stamp' = stamp + 1 /\ stamp \in Nat /\ stamp < MaxStamp /\ rows \in [Names -> States]
  BY DEF Write, IInv, TypeOK
<1>2. PICK r : r = State(stamp + 1, there)
  OBVIOUS
<1>3. r \in States /\ r.stamp = stamp + 1
  BY <1>1, <1>2 DEF State, States
<1>4. rows' = [rows EXCEPT ![n] = r]
  BY <1>2 DEF Write
<1>5. \A m \in Names : rows'[m] = IF m = n THEN r ELSE rows[m]
  BY <1>1, <1>4
<1>6. \A m \in Names : rows[m].stamp \in Nat /\ rows[m].stamp <= stamp
  BY <1>1 DEF IInv, StampInv, States
<1> QED
  BY <1>1, <1>3, <1>4, <1>5, <1>6

(* What a call that changed nothing but its own slot, and the rows perhaps, *)
(* leaves of the invariant.                                                *)
LEMMA SlotStep ==
  ASSUME IInv, NEW f \in Calls, NEW c \in CallStates,
         fetch' = [fetch EXCEPT ![f] = c],
         UNCHANGED <<secured, board, known>>, key' \in Keys, faults' \in 0..MaxFaults,
         stamp' \in 0..MaxStamp, rows' \in [Names -> States],
         \A n \in Names : rows[n].stamp <= rows'[n].stamp /\ rows'[n].stamp <= stamp',
         news' \in [Calls -> SUBSET Names],
         \A g \in Calls : g # f => news[g] \subseteq news'[g],
         f \in Removes /\ c.pc # "idle" => c.name \in Names,
         c.ok => /\ c.pc = "answered"
                 /\ f \in Refreshes => c.list = rows'
                 /\ f \in Removes => c.gone = rows'[c.name].stamp
  PROVE  IInv'
<1> USE ConstantsAssumption
<1>1. fetch \in [Calls -> CallStates] /\ TypeOK
  BY DEF IInv, TypeOK, CallStates
<1>2. fetch' \in [Calls -> CallStates] /\ \A g \in Calls : fetch'[g] = IF g = f THEN c ELSE fetch[g]
  BY <1>1
<1>3. TypeOK'
  BY <1>1, <1>2 DEF TypeOK, CallStates
<1>4. \A n \in Names : /\ known[n].stamp \in Int /\ rows[n].stamp \in Int /\ rows'[n].stamp \in Int
                       /\ known[n].stamp <= rows'[n].stamp
  BY <1>1, <1>3 DEF IInv, StampInv, TypeOK, States
<1>5. StampInv'
  BY <1>4 DEF StampInv
<1>6. RefreshInv'
  <2>1. SUFFICES ASSUME NEW g \in Refreshes, fetch'[g].pc = "answered", fetch'[g].ok
                 PROVE  /\ fetch'[g].list \in [Names -> States]
                        /\ \A n \in Names :
                             /\ fetch'[g].list[n].stamp <= rows'[n].stamp
                             /\ n \notin news'[g] => known[n].stamp <= fetch'[g].list[n].stamp
    BY DEF RefreshInv
  <2>2. CASE g = f
    BY <1>2, <1>4, <2>1, <2>2 DEF Calls
  <2>3. CASE g # f
    <3>1. fetch'[g] = fetch[g] /\ news[g] \subseteq news'[g]
      BY <1>2, <2>3 DEF Calls
    <3>2. /\ fetch[g].list \in [Names -> States]
          /\ \A n \in Names :
               /\ fetch[g].list[n].stamp <= rows[n].stamp
               /\ n \notin news[g] => known[n].stamp <= fetch[g].list[n].stamp
      BY <2>1, <3>1 DEF IInv, RefreshInv
    <3>3. \A n \in Names : fetch[g].list[n].stamp \in Int
      BY <3>2 DEF States
    <3> QED
      BY <1>4, <3>1, <3>2, <3>3
  <2> QED
    BY <2>2, <2>3
<1>7. RemoveInv'
  <2>1. SUFFICES ASSUME NEW g \in Removes
                 PROVE  /\ fetch'[g].pc # "idle" => fetch'[g].name \in Names
                        /\ fetch'[g].pc = "answered" /\ fetch'[g].ok =>
                             /\ fetch'[g].gone <= rows'[fetch'[g].name].stamp
                             /\ fetch'[g].name \notin news'[g] =>
                                  known[fetch'[g].name].stamp <= fetch'[g].gone
    BY DEF RemoveInv
  <2>2. CASE g = f
    <3>1. fetch'[g] = c /\ f \in Removes
      BY <1>2, <2>2 DEF Calls
    <3>2. c.ok => c.name \in Names /\ c.gone = rows'[c.name].stamp
      BY <3>1
    <3> QED
      BY <1>4, <3>1, <3>2
  <2>3. CASE g # f
    <3>1. fetch'[g] = fetch[g] /\ news[g] \subseteq news'[g] /\ fetch[g].gone \in Int
      BY <1>1, <1>2, <2>3 DEF Calls, CallStates
    <3>2. /\ fetch[g].pc # "idle" => fetch[g].name \in Names
          /\ fetch[g].pc = "answered" /\ fetch[g].ok =>
               /\ fetch[g].gone <= rows[fetch[g].name].stamp
               /\ fetch[g].name \notin news[g] => known[fetch[g].name].stamp <= fetch[g].gone
      BY DEF IInv, RemoveInv
    <3> QED
      BY <1>4, <3>1, <3>2
  <2> QED
    BY <2>2, <2>3
<1>8. ShownIsKnown'
  BY DEF IInv, ShownIsKnown
<1> QED
  BY <1>3, <1>5, <1>6, <1>7, <1>8 DEF IInv

LEMMA ChangeStep ==
  ASSUME IInv, NEW n \in Names, Change(n)
  PROVE  IInv'
<1>1. PICK there \in BOOLEAN : Write(n, there)
  BY DEF Change
<1>2. /\ stamp' \in 0..MaxStamp /\ rows' \in [Names -> States]
      /\ \A m \in Names : rows[m].stamp <= rows'[m].stamp /\ rows'[m].stamp <= stamp'
  BY <1>1, WriteStep
<1>3. UNCHANGED <<secured, key, fetch, board, known, news, faults>>
  BY DEF Change
<1>4. TypeOK' /\ ShownIsKnown'
  BY <1>2, <1>3 DEF IInv, TypeOK, ShownIsKnown
<1>5. \A m \in Names : /\ known[m].stamp \in Int /\ rows[m].stamp \in Int /\ rows'[m].stamp \in Int
                       /\ known[m].stamp <= rows'[m].stamp
  BY <1>2, <1>4 DEF IInv, StampInv, TypeOK, States
<1>6. StampInv'
  BY <1>2, <1>3, <1>5 DEF StampInv
<1>7. RefreshInv'
  <2>1. SUFFICES ASSUME NEW f \in Refreshes, fetch[f].pc = "answered", fetch[f].ok, NEW m \in Names
                 PROVE  fetch[f].list[m].stamp <= rows'[m].stamp
    BY <1>3 DEF RefreshInv, IInv
  <2>2. fetch[f].list[m].stamp <= rows[m].stamp /\ fetch[f].list[m].stamp \in Int
    BY <2>1 DEF RefreshInv, IInv, States
  <2> QED
    BY <1>2, <1>5, <2>2
<1>8. RemoveInv'
  <2>1. SUFFICES ASSUME NEW f \in Removes, fetch[f].pc = "answered", fetch[f].ok
                 PROVE  fetch[f].gone <= rows'[fetch[f].name].stamp
    BY <1>3 DEF RemoveInv, IInv
  <2>2. /\ fetch[f].gone <= rows[fetch[f].name].stamp /\ fetch[f].name \in Names
        /\ fetch[f].gone \in Int
    BY <2>1 DEF RemoveInv, IInv, TypeOK, Calls
  <2> QED
    BY <1>2, <1>5, <2>2
<1> QED
  BY <1>4, <1>6, <1>7, <1>8 DEF IInv

(* The slot after an answer.                                               *)
AnswerGiven(f, ok, list, gone) ==
  \E c \in CallStates :
    /\ fetch' = [fetch EXCEPT ![f] = c]
    /\ c.pc = "answered" /\ c.name = fetch[f].name
    /\ c.ok = ok /\ c.list = list /\ c.gone = gone

LEMMA AnswerState ==
  ASSUME IInv, NEW f \in Calls, NEW ok \in BOOLEAN, NEW list, list \in NilOr([Names -> States]),
         NEW gone \in 0..MaxStamp, Answered(f, ok, list, gone)
  PROVE  AnswerGiven(f, ok, list, gone)
<1>1. fetch[f].key \in NilOr(Keys) /\ fetch[f].name \in NilOr(Names) /\ f \in DOMAIN fetch
  BY DEF IInv, TypeOK
<1>2. PICK c : c = Call("answered", fetch[f].key, fetch[f].name, ok, list, gone)
  OBVIOUS
<1>3. /\ c \in CallStates /\ c.pc = "answered" /\ c.name = fetch[f].name
      /\ c.ok = ok /\ c.list = list /\ c.gone = gone
  BY <1>1, <1>2 DEF Call, CallStates
<1>4. fetch' = [fetch EXCEPT ![f] = c]
  BY <1>2 DEF Answered
<1> QED
  BY <1>3, <1>4 DEF AnswerGiven

LEMMA NotOkStep ==
  ASSUME IInv, NEW f \in Calls, fetch[f].pc = "asked", NotOk(f), faults' \in 0..MaxFaults,
         UNCHANGED <<stamp, rows, secured, key, board, known, news>>
  PROVE  IInv'
<1> USE ConstantsAssumption
<1>a. AnswerGiven(f, FALSE, Nil, 0)
  <2>1. Nil \in NilOr([Names -> States]) /\ FALSE \in BOOLEAN
    BY DEF NilOr
  <2>2. 0 \in 0..MaxStamp
    OBVIOUS
  <2>3. Answered(f, FALSE, Nil, 0)
    BY DEF NotOk
  <2> QED
    BY <2>1, <2>2, <2>3, AnswerState
<1>1. PICK c \in CallStates :
        fetch' = [fetch EXCEPT ![f] = c] /\ c.name = fetch[f].name /\ c.ok = FALSE
  BY <1>a DEF AnswerGiven
<1>2. f \in Removes => c.name \in Names
  BY <1>1 DEF IInv, RemoveInv
<1>3. /\ key' \in Keys /\ stamp' \in 0..MaxStamp /\ rows' \in [Names -> States]
      /\ news' \in [Calls -> SUBSET Names]
  BY DEF IInv, TypeOK
<1>4. \A n \in Names : rows[n].stamp <= rows'[n].stamp /\ rows'[n].stamp <= stamp'
  <2>1. \A n \in Names : rows[n].stamp \in Int
    BY ConstantsAssumption DEF IInv, TypeOK, States
  <2> QED
    BY <2>1 DEF IInv, StampInv
<1> QED
  BY <1>1, <1>2, <1>3, <1>4, SlotStep

LEMMA ServerStep ==
  ASSUME IInv, NEW f \in Calls,
         \/ f \in Refreshes /\ List(f)
         \/ f \in Removes /\ Delete(f)
         \/ Unauthorized(f) \/ DbError(f)
  PROVE  IInv'
<1> USE ConstantsAssumption
<1>1. /\ fetch[f].pc = "asked"
      /\ UNCHANGED <<secured, board, known, news, key>> /\ faults' \in 0..MaxFaults
      /\ TypeOK
  <2>1. TypeOK
    BY DEF IInv
  <2>2. faults \in 0..MaxFaults
    BY <2>1 DEF TypeOK
  <2>3. fetch[f].pc = "asked" /\ UNCHANGED <<secured, board, known, news, key>>
    BY DEF List, Delete, Unauthorized, DbError
  <2>4. faults' \in 0..MaxFaults
    <3>1. faults' = faults \/ (DbError(f) /\ Fault)
      BY DEF List, Delete, Unauthorized, DbError
    <3> QED
      BY <2>2, <3>1 DEF Fault
  <2> QED
    BY <2>1, <2>3, <2>4
<1>2. \A n \in Names : rows[n].stamp \in Int /\ rows[n].stamp <= stamp
  BY <1>1 DEF IInv, StampInv, TypeOK, States
<1>3. CASE f \in Refreshes /\ List(f)
  <2>1. rows \in NilOr([Names -> States]) /\ 0 \in 0..MaxStamp
    BY <1>1 DEF TypeOK, NilOr
  <2>a. Answered(f, TRUE, rows, 0)
    BY <1>3 DEF List, AnsweredList
  <2>b. AnswerGiven(f, TRUE, rows, 0)
    BY <2>1, <2>a, AnswerState
  <2>2. PICK c \in CallStates :
          /\ fetch' = [fetch EXCEPT ![f] = c]
          /\ c.pc = "answered" /\ c.name = fetch[f].name /\ c.ok = TRUE /\ c.list = rows
    BY <2>b DEF AnswerGiven
  <2>3. UNCHANGED <<rows, stamp>> /\ f \notin Removes
    BY <1>3 DEF List
  <2>4. /\ key' \in Keys /\ stamp' \in 0..MaxStamp /\ rows' \in [Names -> States]
        /\ news' \in [Calls -> SUBSET Names]
    BY <1>1, <2>3 DEF TypeOK
  <2>5. c.list = rows'
    BY <2>2, <2>3
  <2>6. \A n \in Names : rows[n].stamp <= rows'[n].stamp /\ rows'[n].stamp <= stamp'
    BY <1>2, <2>3
  <2> QED
    BY <1>1, <2>2, <2>3, <2>4, <2>5, <2>6, SlotStep
<1>4. CASE f \in Removes /\ Delete(f)
  <2>1. fetch[f].name \in Names
    BY <1>1, <1>4 DEF IInv, RemoveInv
  <2>2. CASE rows[fetch[f].name].there
    <3>1. Write(fetch[f].name, FALSE) /\ Answered(f, TRUE, Nil, stamp + 1)
      BY <1>4, <2>2 DEF Delete
    <3>2. /\ stamp' = stamp + 1 /\ stamp' \in 0..MaxStamp
          /\ rows' \in [Names -> States]
          /\ rows'[fetch[f].name].stamp = stamp + 1
          /\ \A m \in Names : rows[m].stamp <= rows'[m].stamp /\ rows'[m].stamp <= stamp'
      BY <2>1, <3>1, WriteStep
    <3>a. stamp + 1 \in 0..MaxStamp /\ Nil \in NilOr([Names -> States])
      BY <3>2 DEF NilOr
    <3>b. AnswerGiven(f, TRUE, Nil, stamp + 1)
      BY <3>1, <3>a, AnswerState
    <3>3. PICK c \in CallStates :
            /\ fetch' = [fetch EXCEPT ![f] = c]
            /\ c.pc = "answered" /\ c.name = fetch[f].name /\ c.ok = TRUE /\ c.gone = stamp + 1
      BY <3>b DEF AnswerGiven
    <3>4. f \notin Refreshes /\ key' \in Keys /\ news' \in [Calls -> SUBSET Names]
      BY <1>1, <1>4 DEF TypeOK
    <3>5. c.name \in Names /\ c.gone = rows'[c.name].stamp
      BY <2>1, <3>2, <3>3
    <3> QED
      BY <1>1, <3>2, <3>3, <3>4, <3>5, SlotStep
  <2>3. CASE ~rows[fetch[f].name].there
    <3>1. NotOk(f) /\ UNCHANGED <<stamp, rows>>
      BY <1>4, <2>3 DEF Delete
    <3> QED
      BY <1>1, <3>1, NotOkStep
  <2> QED
    BY <2>2, <2>3
<1>5. CASE Unauthorized(f) \/ DbError(f)
  <2>1. NotOk(f) /\ UNCHANGED <<stamp, rows>>
    BY <1>5 DEF Unauthorized, DbError
  <2> QED
    BY <1>1, <2>1, NotOkStep
<1> QED
  BY <1>3, <1>4, <1>5

-----------------------------------------------------------------------------
(* Steps of the page                                                       *)

(* A call begins, or ends without leaving anything.                        *)
LEMMA PlainStep ==
  ASSUME IInv, NEW f \in Calls,
         \/ f \in Refreshes /\ Refresh(f)
         \/ f \in Removes /\ Remove(f)
         \/ Refused(f) \/ FetchThrows(f)
  PROVE  IInv'
<1> USE ConstantsAssumption
<1>1. UNCHANGED <<stamp, rows, secured, key, board, known>> /\ faults' \in 0..MaxFaults /\ TypeOK
  <2>1. TypeOK
    BY DEF IInv
  <2>2. faults \in 0..MaxFaults
    BY <2>1 DEF TypeOK
  <2>3. UNCHANGED <<stamp, rows, secured, key, board, known>>
    BY DEF Refresh, Remove, Refused, FetchThrows
  <2>4. faults' \in 0..MaxFaults
    BY <2>2 DEF Refresh, Remove, Refused, FetchThrows, Fault
  <2> QED
    BY <2>1, <2>3, <2>4
<1>2. /\ key' \in Keys /\ stamp' \in 0..MaxStamp /\ rows' \in [Names -> States]
      /\ \A n \in Names : rows[n].stamp <= rows'[n].stamp /\ rows'[n].stamp <= stamp'
  <2>1. \A n \in Names : rows[n].stamp \in Int
    BY <1>1 DEF TypeOK, States
  <2> QED
    BY <1>1, <2>1 DEF IInv, StampInv, TypeOK
<1>3. ASSUME NEW name \in NilOr(Names), Ask(f, name), f \in Removes => name \in Names
      PROVE  IInv'
  <2>1. PICK c : c = Call("asked", key, name, FALSE, Nil, 0)
    OBVIOUS
  <2>2. c \in CallStates /\ c.pc = "asked" /\ c.name = name /\ c.ok = FALSE
    BY <1>1, <2>1 DEF Call, CallStates, NilOr, TypeOK
  <2>3. fetch' = [fetch EXCEPT ![f] = c] /\ news' = [news EXCEPT ![f] = {}]
    BY <1>3, <2>1 DEF Ask
  <2>4. news' \in [Calls -> SUBSET Names] /\ \A g \in Calls : g # f => news[g] \subseteq news'[g]
    BY <1>1, <2>3 DEF TypeOK
  <2> QED
    BY <1>1, <1>2, <1>3, <2>2, <2>3, <2>4, SlotStep
<1>4. CASE Refused(f) \/ FetchThrows(f)
  <2>1. PICK c : c = Idle
    OBVIOUS
  <2>2. c \in CallStates /\ c.pc = "idle" /\ c.ok = FALSE
    BY <2>1 DEF Idle, Call, CallStates, NilOr
  <2>3. fetch' = [fetch EXCEPT ![f] = c] /\ news' = news
    BY <1>4, <2>1 DEF Refused, FetchThrows, Return
  <2>4. news' \in [Calls -> SUBSET Names] /\ \A g \in Calls : g # f => news[g] \subseteq news'[g]
    BY <1>1, <2>3 DEF TypeOK
  <2> QED
    BY <1>1, <1>2, <2>2, <2>3, <2>4, SlotStep
<1>5. CASE f \in Refreshes /\ Refresh(f)
  BY <1>3, <1>5 DEF Refresh, NilOr
<1>6. CASE f \in Removes /\ Remove(f)
  BY <1>3, <1>6 DEF Remove, NilOr
<1> QED
  BY <1>4, <1>5, <1>6

(* An answer the page believes: what it says of the names heard.           *)
LEMMA HearsStep ==
  ASSUME IInv, NEW f \in Calls, NEW heard \in SUBSET Names,
         known' \in [Names -> States], board' \in [Names -> 0..MaxStamp],
         \A n \in Names \ heard : known'[n] = known[n],
         \A n \in Names : known'[n].stamp <= rows[n].stamp,
         \A n \in Names : board'[n] = Shown(known'[n]),
         Hears(f, heard), Return(f),
         UNCHANGED <<stamp, rows, secured, key, faults>>
  PROVE  IInv'
<1> USE ConstantsAssumption
<1>1. TypeOK /\ fetch \in [Calls -> CallStates]
  BY DEF IInv, TypeOK, CallStates
<1>2. PICK c : c = Idle
  OBVIOUS
<1>3. c \in CallStates /\ c.pc = "idle"
  BY <1>2 DEF Idle, Call, CallStates, NilOr
<1>4. /\ fetch' \in [Calls -> CallStates]
      /\ \A g \in Calls : fetch'[g] = IF g = f THEN c ELSE fetch[g]
  BY <1>1, <1>2, <1>3 DEF Return
<1>5. /\ news' \in [Calls -> SUBSET Names]
      /\ \A g \in Calls : g # f /\ fetch[g].pc # "idle" => news'[g] = news[g] \cup heard
  BY <1>1 DEF Hears, TypeOK
<1>6. TypeOK'
  BY <1>1, <1>4, <1>5 DEF TypeOK, CallStates
<1>7. StampInv' /\ ShownIsKnown'
  BY DEF IInv, StampInv, ShownIsKnown
<1>8. RefreshInv'
  <2>1. SUFFICES ASSUME NEW g \in Refreshes, fetch'[g].pc = "answered", fetch'[g].ok
                 PROVE  /\ fetch'[g].list \in [Names -> States]
                        /\ \A n \in Names :
                             /\ fetch'[g].list[n].stamp <= rows[n].stamp
                             /\ n \notin news'[g] => known'[n].stamp <= fetch'[g].list[n].stamp
    BY DEF RefreshInv
  <2>2. g # f /\ fetch'[g] = fetch[g] /\ news'[g] = news[g] \cup heard
    BY <1>3, <1>4, <1>5, <2>1 DEF Calls
  <2> QED
    BY <2>1, <2>2 DEF IInv, RefreshInv
<1>9. RemoveInv'
  <2>1. SUFFICES ASSUME NEW g \in Removes, fetch'[g].pc # "idle"
                 PROVE  /\ fetch'[g].name \in Names
                        /\ fetch'[g].pc = "answered" /\ fetch'[g].ok =>
                             /\ fetch'[g].gone <= rows[fetch'[g].name].stamp
                             /\ fetch'[g].name \notin news'[g] =>
                                  known'[fetch'[g].name].stamp <= fetch'[g].gone
    BY DEF RemoveInv
  <2>2. g # f /\ fetch'[g] = fetch[g] /\ news'[g] = news[g] \cup heard
    BY <1>3, <1>4, <1>5, <2>1 DEF Calls
  <2> QED
    BY <2>1, <2>2 DEF IInv, RemoveInv
<1> QED
  BY <1>6, <1>7, <1>8, <1>9 DEF IInv

(* What Shown makes of a state fits the board.                             *)
LEMMA ShownFits ==
  ASSUME NEW s \in States PROVE Shown(s) \in 0..MaxStamp
BY ConstantsAssumption DEF Shown, States

LEMMA RefreshReturnsStep ==
  ASSUME IInv, NEW f \in Refreshes, RefreshReturns(f)
  PROVE  IInv'
<1>1. /\ fetch[f].list \in [Names -> States]
      /\ \A n \in Names : fetch[f].list[n].stamp <= rows[n].stamp
  BY DEF RefreshReturns, IInv, RefreshInv
<1>2. known' = fetch[f].list /\ board' = [n \in Names |-> Shown(fetch[f].list[n])]
  BY DEF RefreshReturns
<1>3. board' \in [Names -> 0..MaxStamp] /\ \A n \in Names : board'[n] = Shown(known'[n])
  BY <1>1, <1>2, ShownFits
<1>4. Hears(f, Names) /\ Return(f) /\ UNCHANGED <<stamp, rows, secured, key, faults>>
  BY DEF RefreshReturns
<1> QED
  BY <1>1, <1>2, <1>3, <1>4, HearsStep DEF Calls

LEMMA RemoveReturnsStep ==
  ASSUME IInv, NEW f \in Removes, RemoveReturns(f)
  PROVE  IInv'
<1> USE ConstantsAssumption
<1>1. PICK n : n = fetch[f].name
  OBVIOUS
<1>2. /\ n \in Names /\ fetch[f].gone <= rows[n].stamp /\ fetch[f].gone \in 0..MaxStamp
      /\ known \in [Names -> States] /\ board \in [Names -> 0..MaxStamp]
  BY <1>1 DEF RemoveReturns, IInv, RemoveInv, TypeOK, Calls
<1>3. PICK s : s = State(fetch[f].gone, FALSE)
  OBVIOUS
<1>4. s \in States /\ s.stamp = fetch[f].gone /\ Shown(s) = 0
  BY <1>2, <1>3 DEF State, States, Shown
<1>5. /\ known' = [known EXCEPT ![n] = s] /\ board' = [board EXCEPT ![n] = 0]
      /\ Hears(f, {n}) /\ Return(f) /\ UNCHANGED <<stamp, rows, secured, key, faults>>
  BY <1>1, <1>3 DEF RemoveReturns
<1>6. /\ known' \in [Names -> States] /\ board' \in [Names -> 0..MaxStamp]
      /\ \A m \in Names \ {n} : known'[m] = known[m] /\ board'[m] = board[m]
      /\ known'[n] = s /\ board'[n] = 0
  BY <1>2, <1>4, <1>5
<1>7. \A m \in Names : known'[m].stamp <= rows[m].stamp
  BY <1>2, <1>4, <1>6 DEF IInv, StampInv
<1>8. \A m \in Names : board'[m] = Shown(known'[m])
  BY <1>4, <1>6 DEF IInv, ShownIsKnown
<1> QED
  BY <1>2, <1>5, <1>6, <1>7, <1>8, HearsStep DEF Calls

LEMMA SubmitKeyStep ==
  ASSUME IInv, SubmitKey \/ UNCHANGED vars
  PROVE  IInv'
BY DEF SubmitKey, vars, IInv, TypeOK, StampInv, RefreshInv, RemoveInv, ShownIsKnown

LEMMA Invariance == Spec => []IInv
<1>1. IInv /\ [Next]_vars => IInv'
  <2>1. SUFFICES ASSUME IInv, [Next]_vars PROVE IInv'
    OBVIOUS
  <2>2. ASSUME NEW f \in Refreshes, Refresh(f) \/ RefreshEnds(f)
        PROVE  IInv'
    BY <2>1, <2>2, ServerStep, PlainStep, RefreshReturnsStep DEF RefreshEnds, Calls
  <2>3. ASSUME NEW f \in Removes, Remove(f) \/ RemoveEnds(f)
        PROVE  IInv'
    BY <2>1, <2>3, ServerStep, PlainStep, RemoveReturnsStep DEF RemoveEnds, Calls
  <2>4. ASSUME NEW f \in Calls, DbError(f) \/ FetchThrows(f)
        PROVE  IInv'
    BY <2>1, <2>4, ServerStep, PlainStep
  <2> QED
    BY <2>1, <2>2, <2>3, <2>4, ChangeStep, SubmitKeyStep DEF Next
<1> QED
  BY <1>1, InitIInv, PTL DEF Spec

-----------------------------------------------------------------------------
(* What follows                                                            *)

(* Type correctness.                                                       *)
THEOREM TypeCorrect == Spec => []TypeOK
<1>1. IInv => TypeOK
  BY DEF IInv
<1> QED
  BY <1>1, Invariance, PTL

(* However many calls overlap and fail, the board shows what some answer   *)
(* said of each schedule.                                                  *)
THEOREM ShownWasHeard == Spec => []ShownIsKnown
<1>1. IInv => ShownIsKnown
  BY DEF IInv
<1> QED
  BY <1>1, Invariance, PTL

(* What a page that hears of n in this step was told by an overlapping     *)
(* call, if it is older than what it knew.                                 *)
OlderByOverlap(n) ==
  \E f \in Calls : fetch[f].pc = "answered" /\ fetch'[f].pc = "idle" /\ n \in news[f]

(* Polling without waiting, and deleting without waiting for the polls,    *)
(* can show an older state only in answers to calls already in flight when *)
(* the newer one arrived.                                                  *)
THEOREM OlderOnlyThen == Spec => OlderOnlyByOverlap
<1>1. ASSUME IInv, [Next]_vars, NEW n \in Names, known'[n].stamp < known[n].stamp
      PROVE  OlderByOverlap(n)
  <2> USE ConstantsAssumption
  <2>1. /\ known[n].stamp \in Int /\ known'[n] # known[n] /\ ~(known[n].stamp < known[n].stamp)
        /\ fetch \in [Calls -> CallStates] /\ known \in [Names -> States]
    <3>1. fetch \in [Calls -> CallStates] /\ known \in [Names -> States]
      BY <1>1 DEF IInv, TypeOK, CallStates
    <3>2. known[n].stamp \in Int
      BY <3>1 DEF States
    <3> QED
      BY <1>1, <3>1, <3>2
  <2>2. ASSUME NEW f \in Calls, Return(f) PROVE fetch'[f].pc = "idle"
    <3>1. PICK c : c = Idle
      OBVIOUS
    <3>2. c.pc = "idle"
      BY <3>1 DEF Idle, Call
    <3> QED
      BY <2>1, <2>2, <3>1, <3>2 DEF Return
  <2>3. CASE \E f \in Refreshes : RefreshReturns(f)
    <3>1. PICK f \in Refreshes : RefreshReturns(f)
      BY <2>3
    <3>2. /\ fetch[f].pc = "answered" /\ fetch[f].ok /\ known' = fetch[f].list /\ Return(f)
          /\ f \in Calls
      BY <3>1 DEF RefreshReturns, Calls
    <3>3. fetch[f].list[n].stamp \in Int /\ (n \notin news[f] => known[n].stamp <= fetch[f].list[n].stamp)
      BY <1>1, <3>2 DEF IInv, RefreshInv, States
    <3>4. n \in news[f]
      BY <1>1, <2>1, <3>2, <3>3
    <3> QED
      BY <2>2, <3>2, <3>4 DEF OlderByOverlap
  <2>4. CASE \E f \in Removes : RemoveReturns(f)
    <3>1. PICK f \in Removes : RemoveReturns(f)
      BY <2>4
    <3>2. PICK s : s = State(fetch[f].gone, FALSE)
      OBVIOUS
    <3>3. /\ fetch[f].pc = "answered" /\ fetch[f].ok /\ Return(f) /\ f \in Calls
          /\ known' = [known EXCEPT ![fetch[f].name] = s]
      BY <3>1, <3>2 DEF RemoveReturns, Calls
    <3>4. n = fetch[f].name /\ known'[n] = s
      BY <2>1, <3>3
    <3>5. s.stamp = fetch[f].gone /\ fetch[f].gone \in Int
      BY <2>1, <3>2, <3>3 DEF State, CallStates
    <3>6. n \notin news[f] => known[n].stamp <= fetch[f].gone
      BY <1>1, <3>1, <3>3, <3>4 DEF IInv, RemoveInv
    <3>7. n \in news[f]
      BY <1>1, <2>1, <3>4, <3>5, <3>6
    <3> QED
      BY <2>2, <3>3, <3>7 DEF OlderByOverlap
  <2>5. /\ ~(\E m \in Names : Change(m)) /\ ~SubmitKey /\ ~UNCHANGED vars
        /\ \A f \in Calls : /\ ~Refresh(f) /\ ~Remove(f) /\ ~List(f) /\ ~Delete(f)
                            /\ ~Unauthorized(f) /\ ~Refused(f) /\ ~DbError(f) /\ ~FetchThrows(f)
    BY <2>1 DEF Change, SubmitKey, vars, Refresh, Remove, List, Delete, Unauthorized, Refused,
         DbError, FetchThrows
  <2> QED
    BY <1>1, <2>3, <2>4, <2>5 DEF Next, RefreshEnds, RemoveEnds, Calls
<1>2. IInv /\ [Next]_vars =>
        [\A n \in Names : known'[n].stamp < known[n].stamp =>
           \E f \in Calls : /\ fetch[f].pc = "answered" /\ fetch'[f].pc = "idle"
                            /\ n \in news[f]]_vars
  BY <1>1 DEF OlderByOverlap
<1> QED
  BY <1>2, Invariance, PTL DEF Spec, OlderOnlyByOverlap
=============================================================================
