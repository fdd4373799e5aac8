--------------------------- MODULE ScheduleBoard ----------------------------
(***************************************************************************)
(* The schedule board of the dashboard (web/src composable useSchedules)   *)
(* against the table it shows.  refresh asks for the whole list every 15 s *)
(* whether or not the previous answer has come, remove deletes on the      *)
(* server and then on the page; their answers come in any order, and other *)
(* clients and the detector change the table meanwhile.                    *)
(*                                                                         *)
(* A row is its stamp: the number of table changes when it was last        *)
(* written; a deletion has a stamp too, which nobody is told.              *)
(***************************************************************************)
EXTENDS Integers

CONSTANTS
  Names,      \* task names
  Refreshes,  \* slots for calls of refresh: how many are in flight at once
  Removes,    \* slots for calls of remove
  MaxStamp,   \* bound: changes of the table
  MaxFaults,  \* bound: fetches that throw, statements that fail
  Nil         \* no answer yet, or no list in it

ASSUME ConstantsAssumption ==
  /\ MaxStamp \in Nat /\ MaxFaults \in Nat /\ Refreshes \cap Removes = {}
  /\ Nil \notin Names

VARIABLES
  stamp,    \* changes of task_schedules so far
  rows,     \* rows[n]: the stamp of the last change of n, and whether n is there
  secured,  \* the server has an API key
  key,      \* apiKey: the right one or not
  fetch,    \* fetch[f]: the refresh or remove in slot f
  board,    \* board[n]: the row of n in the Map schedules, 0 when there is none
  known,    \* history: known[n] is the state of rows[n] the page heard of last
  news,     \* history: news[f] are the names it heard of while f was in flight
  faults    \* faults so far

vars == <<stamp, rows, secured, key, fetch, board, known, news, faults>>

Calls == Refreshes \cup Removes
Keys == {"right", "wrong"}

State(s, there) == [stamp |-> s, there |-> there]
Absent == State(0, FALSE)

(* name is Nil for a refresh; list is what a refresh was answered, gone    *)
(* (history) the stamp of the deletion a remove has made.                  *)
Call(pc, k, name, ok, list, gone) ==
  [pc |-> pc, key |-> k, name |-> name, ok |-> ok, list |-> list, gone |-> gone]

Idle == Call("idle", Nil, Nil, FALSE, Nil, 0)

Init ==
  /\ stamp = 0 /\ faults = 0
  /\ rows = [n \in Names |-> Absent]
  /\ secured \in BOOLEAN /\ key \in Keys
  /\ fetch = [f \in Calls |-> Idle]
  /\ board = [n \in Names |-> 0]
  /\ known = [n \in Names |-> Absent]
  /\ news = [f \in Calls |-> {}]

Admits(k) == ~secured \/ k = "right"

Fault == faults < MaxFaults /\ faults' = faults + 1

-----------------------------------------------------------------------------
(* The server                                                              *)

Write(n, there) ==
  /\ stamp < MaxStamp
  /\ stamp' = stamp + 1
  /\ rows' = [rows EXCEPT ![n] = State(stamp + 1, there)]

(* Another client registers, touches or deletes, the detector flags.       *)
Change(n) ==
  /\ \E there \in BOOLEAN : (there \/ rows[n].there) /\ Write(n, there)
  /\ UNCHANGED <<secured, key, fetch, board, known, news, faults>>

Answered(f, ok, list, gone) ==
  fetch' = [fetch EXCEPT ![f] = Call("answered", @.key, @.name, ok, list, gone)]

AnsweredList(f, list) == Answered(f, TRUE, list, 0)

NotOk(f) == Answered(f, FALSE, Nil, 0)

(* ScheduleHandler.List: one SELECT.                                       *)
List(f) ==
  /\ fetch[f].pc = "asked" /\ Admits(fetch[f].key)
  /\ AnsweredList(f, rows)
  /\ UNCHANGED <<stamp, rows, secured, key, board, known, news, faults>>

(* ScheduleHandler.Delete: no row is affected when n is not there.         *)
Delete(f) ==
  /\ fetch[f].pc = "asked" /\ Admits(fetch[f].key)
  /\ LET n == fetch[f].name
     IN IF rows[n].there
          THEN /\ Write(n, FALSE)
               /\ Answered(f, TRUE, Nil, stamp + 1)
          ELSE /\ NotOk(f)     \* 404
               /\ UNCHANGED <<stamp, rows>>
  /\ UNCHANGED <<secured, key, board, known, news, faults>>

Unauthorized(f) ==
  /\ fetch[f].pc = "asked" /\ ~Admits(fetch[f].key)
  /\ NotOk(f)
  /\ UNCHANGED <<stamp, rows, secured, key, board, known, news, faults>>

(* Mutation: List forgets to look at the error and answers an empty list.  *)
DbErrorEmpty(f) ==
  /\ fetch[f].pc = "asked" /\ Admits(fetch[f].key) /\ Fault
  /\ AnsweredList(f, [n \in Names |-> Absent])
  /\ UNCHANGED <<stamp, rows, secured, key, board, known, news>>

(* A statement fails: 500.                                                 *)
DbError(f) ==
  /\ fetch[f].pc = "asked" /\ Admits(fetch[f].key) /\ Fault
  /\ NotOk(f)
  /\ UNCHANGED <<stamp, rows, secured, key, board, known, news>>

-----------------------------------------------------------------------------
(* The page                                                                *)

Ask(f, name) ==
  /\ fetch[f].pc = "idle"
  /\ fetch' = [fetch EXCEPT ![f] = Call("asked", key, name, FALSE, Nil, 0)]
  /\ news' = [news EXCEPT ![f] = {}]

(* setInterval does not wait for the promise of the call before.           *)
Refresh(f) ==
  /\ Ask(f, Nil)
  /\ UNCHANGED <<stamp, rows, secured, key, board, known, faults>>

(* The button is enabled again at once: emit returns nothing to wait for.  *)
Remove(f) ==
  /\ \E n \in Names : board[n] # 0 /\ Ask(f, n)
  /\ UNCHANGED <<stamp, rows, secured, key, board, known, faults>>

(* The gate of useTasks stores another key, which later calls send.        *)
SubmitKey ==
  /\ key' \in Keys
  /\ UNCHANGED <<stamp, rows, secured, fetch, board, known, news, faults>>

Return(f) == fetch' = [fetch EXCEPT ![f] = Idle]

(* The page has heard of the names in heard.                               *)
Hears(f, heard) ==
  news' = [g \in Calls |-> IF g # f /\ fetch[g].pc # "idle" THEN news[g] \cup heard
                                                            ELSE news[g]]

Shown(s) == IF s.there THEN s.stamp ELSE 0

(* Mutation: the loop that drops what the list does not have is missing.   *)
RefreshUpserts(f) ==
  /\ fetch[f].pc = "answered" /\ fetch[f].ok
  /\ known' = fetch[f].list
  /\ board' = [n \in Names |-> IF fetch[f].list[n].there THEN fetch[f].list[n].stamp
                                                         ELSE board[n]]
  /\ Hears(f, Names) /\ Return(f)
  /\ UNCHANGED <<stamp, rows, secured, key, faults>>

(* Every schedule of the list is put into the Map, every other removed.    *)
RefreshReturns(f) ==
  /\ fetch[f].pc = "answered" /\ fetch[f].ok
  /\ known' = fetch[f].list
  /\ board' = [n \in Names |-> Shown(fetch[f].list[n])]
  /\ Hears(f, Names) /\ Return(f)
  /\ UNCHANGED <<stamp, rows, secured, key, faults>>

RemoveReturns(f) ==
  /\ fetch[f].pc = "answered" /\ fetch[f].ok
  /\ LET n == fetch[f].name
     IN /\ known' = [known EXCEPT ![n] = State(fetch[f].gone, FALSE)]
        /\ board' = [board EXCEPT ![n] = 0]
        /\ Hears(f, {n})
  /\ Return(f)
  /\ UNCHANGED <<stamp, rows, secured, key, faults>>

(* Mutation: remove deletes on the page whatever the answer.               *)
RefusedRemoves(f) ==
  /\ fetch[f].pc = "answered" /\ ~fetch[f].ok
  /\ board' = IF f \in Removes THEN [board EXCEPT ![fetch[f].name] = 0] ELSE board
  /\ Return(f)
  /\ UNCHANGED <<stamp, rows, secured, key, known, news, faults>>

(* An answer that is not ok is ignored, a 401 too.                         *)
Refused(f) ==
  /\ fetch[f].pc = "answered" /\ ~fetch[f].ok
  /\ Return(f)
  /\ UNCHANGED <<stamp, rows, secured, key, board, known, news, faults>>

(* No connection, or a body that breaks off: the promise is rejected.      *)
FetchThrows(f) ==
  /\ fetch[f].pc # "idle" /\ Fault
  /\ Return(f)
  /\ UNCHANGED <<stamp, rows, secured, key, board, known, news>>

-----------------------------------------------------------------------------
RefreshEnds(f) == List(f) \/ RefreshReturns(f) \/ Unauthorized(f) \/ Refused(f)

RemoveEnds(f) == Delete(f) \/ RemoveReturns(f) \/ Unauthorized(f) \/ Refused(f)

Next ==
  \/ \E n \in Names : Change(n)
  \/ \E f \in Refreshes : Refresh(f) \/ RefreshEnds(f)
  \/ \E f \in Removes : Remove(f) \/ RemoveEnds(f)
  \/ \E f \in Calls : DbError(f) \/ FetchThrows(f)
  \/ SubmitKey

Spec == Init /\ [][Next]_vars

(* The interval timer goes on and every request comes to an end: the       *)
(* server answers, or the fetch throws.                                    *)
FairSpec ==
  /\ Spec
  /\ \A f \in Refreshes : WF_vars(Refresh(f)) /\ WF_vars(RefreshEnds(f))
  /\ \A f \in Removes : WF_vars(RemoveEnds(f))

-----------------------------------------------------------------------------
(* Properties                                                              *)

States == [stamp : 0..MaxStamp, there : BOOLEAN]
NilOr(S) == S \cup {Nil}

(* The type invariant.                                                     *)
TypeOK ==
  /\ stamp \in 0..MaxStamp /\ faults \in 0..MaxFaults
  /\ rows \in [Names -> States] /\ known \in [Names -> States]
  /\ secured \in BOOLEAN /\ key \in Keys
  /\ fetch \in [Calls -> [pc : {"idle", "asked", "answered"}, key : NilOr(Keys),
                          name : NilOr(Names), ok : BOOLEAN,
                          list : NilOr([Names -> States]), gone : 0..MaxStamp]]
  /\ board \in [Names -> 0..MaxStamp]
  /\ news \in [Calls -> SUBSET Names]

(* The board shows a schedule, or none, only as the table had it at the    *)
(* time the page last heard of it: no refused or failed call, and no half  *)
(* of an answer, leaves a trace.                                           *)
ShownIsKnown == \A n \in Names : board[n] = Shown(known[n])

(* What the page knows of a schedule goes back in time only by the answer  *)
(* to a call that was in flight when the newer state arrived: a removed    *)
(* schedule comes back, or a new one vanishes, only where calls overlap.   *)
OlderOnlyByOverlap ==
  [][\A n \in Names : known'[n].stamp < known[n].stamp =>
       \E f \in Calls : /\ fetch[f].pc = "answered" /\ fetch'[f].pc = "idle"
                        /\ n \in news[f]]_vars

(* The polling repairs everything: once the table rests and the key is     *)
(* right the board shows the table for good, whatever was lost, refused or *)
(* overtaken before.                                                       *)
BoardCatchesUp ==
  <>[]Admits(key) => <>[](\A n \in Names : board[n] = Shown(rows[n]))
=============================================================================
