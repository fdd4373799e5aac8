----------------------------- MODULE Dashboard ------------------------------
(***************************************************************************)
(* The dashboard of web/src (composable useTasks, the shared API key and   *)
(* the key gate of App.vue) against the server it watches.                 *)
(*                                                                         *)
(* One run is followed.  Its row is its version: 0 while there is no run,  *)
(* then the number of statements that have changed it.  A browser keeps    *)
(* the last version it was given, from GET /tasks or from an event of its  *)
(* EventSource, and shows it.  The two come over different connections,    *)
(* the second is opened only after the first has answered, and the events  *)
(* are what publishers re-read, published in any order.                    *)
(***************************************************************************)
EXTENDS Integers, Sequences, SequencesExt

CONSTANTS
  Writers,    \* requests and passes that change the run and publish it
  Mount,      \* the load of onMounted
  Submits,    \* the loads of submitApiKey
  Cap,        \* buffer of a hub channel (16 in the code)
  MaxVersion, \* bound: changes of the run
  MaxFaults,  \* bound: errors, failed fetches, cut streams
  Nil

ASSUME ConstantsAssumption ==
  /\ Cap \in Nat \ {0} /\ MaxVersion \in Nat \ {0} /\ MaxFaults \in Nat
  /\ MaxVersion < 401     \* a load's answer is a version or a status code
  /\ Mount \notin Submits /\ Nil \notin Nat

VARIABLES
  ver,          \* the version of the row in the database
  writer,       \* writer[w]: its step, the version it wrote, the one it read
  secured,      \* the server has an API key
  chan,         \* the events on their way to the browser's EventSource
  stream,       \* "none", "opening", "open", or "refused": closed for good
  token,        \* the key in the URL of the EventSource
  load,         \* load[l]: a loadInitial, its step, its key and its answer
  key,          \* apiKey: the right one or not
  unauthorized, \* the gate is shown instead of the dashboard
  shown,        \* the version in the Map tasks, 0 if none
  faults,       \* faults so far
  reasons,      \* history: what has happened to the news of version ver
  overlap,      \* history: a key was submitted while a load was under way
  failed        \* history: a fetch has thrown

vars == <<ver, writer, secured, chan, stream, token, load, key, unauthorized,
          shown, faults, reasons, overlap, failed>>

server == <<ver, writer, secured>>
browser == <<key, unauthorized, overlap, failed>>

Loads == {Mount} \cup Submits
Keys == {"right", "wrong"}
Versions == 0..MaxVersion

IdleWriter == [pc |-> "idle", wrote |-> 0, read |-> 0]
IdleLoad == [pc |-> "idle", key |-> Nil, answer |-> Nil]
Asking(k) == [pc |-> "asked", key |-> k, answer |-> Nil]
Answered(q, a) == [pc |-> "answered", key |-> q.key, answer |-> a]

(* The page is opened at any time; the key comes from localStorage.        *)
Init ==
  /\ ver \in {0, 1} /\ shown = 0 /\ secured \in BOOLEAN /\ key \in Keys
  /\ writer = [w \in Writers |-> IdleWriter]
  /\ load = [l \in Loads |-> IF l = Mount THEN Asking(key) ELSE IdleLoad]
  /\ chan = <<>> /\ stream = "none" /\ token = Nil
  /\ unauthorized = FALSE /\ overlap = FALSE /\ failed = FALSE
  /\ faults = 0
  /\ reasons = IF ver = 1 THEN {"unheard"} ELSE {}

Admits(k) == ~secured \/ k = "right"

Fault == faults < MaxFaults /\ faults' = faults + 1

Because(reason, condition) ==
  reasons' = IF condition THEN reasons \cup {reason} ELSE reasons

(* The Map takes over version v, which brings the news or undoes it; lost  *)
(* are events thrown away in the same step.                                *)
Upsert(v, reason, lost) ==
  /\ shown' = v
  /\ reasons' = IF v = ver THEN {}
                ELSE reasons \cup (IF shown = ver THEN {reason} ELSE {})
                             \cup (IF Contains(lost, ver) THEN {"cut"} ELSE {})

-----------------------------------------------------------------------------
(* The server: writers                                                     *)

(* A statement changes the row.  Start publishes the row it inserted, all  *)
(* others re-read it first.                                                *)
Write(w) ==
  /\ writer[w].pc = "idle" /\ ver < MaxVersion
  /\ ver' = ver + 1
  /\ writer' = [writer EXCEPT ![w] = IF ver = 0 THEN [pc |-> "read", wrote |-> 1, read |-> 1]
                                     ELSE [pc |-> "wrote", wrote |-> ver + 1, read |-> 0]]
  /\ reasons' = {}
  /\ UNCHANGED <<secured, chan, stream, token, load, shown, faults, browser>>

ReadLatest(w) ==
  /\ writer[w].pc = "wrote"
  /\ writer' = [writer EXCEPT ![w] = [pc |-> "read", wrote |-> writer[w].wrote, read |-> ver]]
  /\ UNCHANGED <<ver, secured, chan, stream, token, load, shown, faults, reasons, browser>>

(* The re-read fails, or the process dies: nothing is published.           *)
GiveUp(w) ==
  /\ writer[w].pc # "idle"
  /\ Fault
  /\ writer' = [writer EXCEPT ![w] = IdleWriter]
  /\ Because("unpublished", writer[w].wrote = ver)
  /\ UNCHANGED <<ver, secured, chan, stream, token, load, shown, browser>>

(* Mutation: a connection that is gone stays subscribed.                   *)
PublishToGone(w) ==
  /\ writer[w].pc = "read"
  /\ writer' = [writer EXCEPT ![w] = IdleWriter]
  /\ chan' = Append(chan, writer[w].read)
  /\ UNCHANGED <<ver, secured, stream, token, load, shown, faults, reasons, browser>>

(* Hub.Publish.  Of Cap events or more some may be on the wire already,    *)
(* where there is no limit, so that the channel may or may not have room.  *)
Publish(w) ==
  /\ writer[w].pc = "read"
  /\ writer' = [writer EXCEPT ![w] = IdleWriter]
  /\ \/ /\ stream = "open"
        /\ chan' = Append(chan, writer[w].read)
        /\ UNCHANGED reasons
     \/ /\ stream = "open" /\ Len(chan) >= Cap
        /\ Because("dropped", writer[w].read = ver)
        /\ UNCHANGED chan
     \/ /\ stream # "open"
        /\ Because("unheard", writer[w].read = ver)
        /\ UNCHANGED chan
  /\ UNCHANGED <<ver, secured, stream, token, load, shown, faults, browser>>

-----------------------------------------------------------------------------
(* The EventSource                                                         *)

(* connect: the old EventSource, if any, is closed with all that was on    *)
(* its way; the new one is opened with the key of this moment.             *)
Connect ==
  /\ stream' = "opening" /\ token' = key /\ chan' = <<>>

(* The server subscribes the connection, or answers 401, after which an    *)
(* EventSource does not try again.                                         *)
Open ==
  /\ stream = "opening"
  /\ stream' = IF Admits(token) THEN "open" ELSE "refused"
  /\ UNCHANGED <<server, chan, token, load, shown, faults, reasons, browser>>

(* The connection breaks: the browser opens it again, nothing is reloaded. *)
Cut ==
  /\ stream = "open"
  /\ Fault
  /\ stream' = "opening" /\ chan' = <<>>
  /\ Because("cut", Contains(chan, ver))
  /\ UNCHANGED <<server, token, load, shown, browser>>

(* Mutation: only a run that is not in the Map yet is taken over.          *)
DeliverNew ==
  /\ stream = "open" /\ chan # <<>>
  /\ shown' = IF shown = 0 THEN Head(chan) ELSE shown
  /\ chan' = Tail(chan)
  /\ UNCHANGED <<server, stream, token, load, faults, reasons, browser>>

(* The listener of the event: upsert, whatever is there.                   *)
Deliver ==
  /\ stream = "open" /\ chan # <<>>
  /\ Upsert(Head(chan), "overtaken", <<>>)
  /\ chan' = Tail(chan)
  /\ UNCHANGED <<server, stream, token, load, faults, browser>>

-----------------------------------------------------------------------------
(* loadInitial, and what awaits it                                         *)

(* GET /tasks at the server: 401, the row as it is, or 500.                *)
Serve(l) ==
  /\ load[l].pc = "asked"
  /\ \/ /\ load' = [load EXCEPT
                       ![l] = Answered(load[l], IF Admits(load[l].key) THEN ver ELSE 401)]
        /\ UNCHANGED faults
     \/ /\ Admits(load[l].key)
        /\ Fault
        /\ load' = [load EXCEPT ![l] = Answered(load[l], 500)]
  /\ UNCHANGED <<server, chan, stream, token, shown, reasons, browser>>

(* fetch or res.json() throws: the caller is left, connect with it.        *)
FetchThrows(l) ==
  /\ load[l].pc \in {"asked", "answered", "body"}
  /\ Fault
  /\ load' = [load EXCEPT ![l] = IdleLoad]
  /\ failed' = TRUE
  /\ UNCHANGED <<server, chan, stream, token, key, unauthorized, overlap, shown, reasons>>

(* Mutation: a 401 does not return.                                        *)
HeadersIgnore401(l) ==
  /\ load[l].pc = "answered"
  /\ unauthorized' = FALSE
  /\ IF load[l].answer \in {401, 500}
     THEN load' = [load EXCEPT ![l] = IdleLoad] /\ Connect
     ELSE load' = [load EXCEPT ![l].pc = "body"] /\ UNCHANGED <<chan, stream, token>>
  /\ UNCHANGED <<server, key, overlap, failed, shown, faults, reasons>>

(* The status has come.  401 shows the gate and ends the load; any other   *)
(* status hides it, and with 500 the load ends there: the caller connects. *)
Headers(l) ==
  /\ load[l].pc = "answered"
  /\ \/ /\ load[l].answer = 401 /\ unauthorized' = TRUE
        /\ load' = [load EXCEPT ![l] = IdleLoad]
        /\ UNCHANGED <<chan, stream, token, reasons>>
     \/ /\ load[l].answer = 500 /\ unauthorized' = FALSE
        /\ load' = [load EXCEPT ![l] = IdleLoad]
        /\ Connect /\ Because("cut", Contains(chan, ver))
     \/ /\ load[l].answer \notin {401, 500} /\ unauthorized' = FALSE
        /\ load' = [load EXCEPT ![l] = [load[l] EXCEPT !.pc = "body"]]
        /\ UNCHANGED <<chan, stream, token, reasons>>
  /\ UNCHANGED <<server, key, overlap, failed, shown, faults>>

(* The body has come: upsert what the server had, then connect, unless the *)
(* gate is shown by now.                                                   *)
Body(l) ==
  /\ load[l].pc = "body"
  /\ load' = [load EXCEPT ![l] = IdleLoad]
  /\ Upsert(IF load[l].answer = 0 THEN shown ELSE load[l].answer, "stale load",
            IF unauthorized THEN <<>> ELSE chan)
  /\ IF unauthorized THEN UNCHANGED <<chan, stream, token>> ELSE Connect
  /\ UNCHANGED <<server, faults, browser>>

(* submitApiKey: the gate's button does not wait for the load to end.      *)
SubmitKey(l) ==
  /\ l \in Submits /\ load[l] = IdleLoad /\ unauthorized
  /\ \E k \in Keys : key' = k /\ load' = [load EXCEPT ![l] = Asking(k)]
  /\ overlap' = (overlap \/ \E m \in Loads : load[m] # IdleLoad)
  /\ UNCHANGED <<server, chan, stream, token, unauthorized, failed, shown, faults, reasons>>

-----------------------------------------------------------------------------
LoadStep(l) == Serve(l) \/ FetchThrows(l) \/ Headers(l) \/ Body(l) \/ SubmitKey(l)

WriterStep(w) == Write(w) \/ ReadLatest(w) \/ GiveUp(w) \/ Publish(w)

Next ==
  \/ \E w \in Writers : WriterStep(w)
  \/ \E l \in Loads : LoadStep(l)
  \/ Open \/ Cut \/ Deliver

Spec == Init /\ [][Next]_vars

-----------------------------------------------------------------------------
(* Properties                                                              *)

(* The type invariant; a channel is registered only for an open stream.    *)
TypeOK ==
  /\ ver \in Versions /\ shown \in Versions /\ faults \in 0..MaxFaults
  /\ writer \in [Writers -> [pc : {"idle", "wrote", "read"}, wrote : Versions, read : Versions]]
  /\ {secured, unauthorized, overlap, failed} \subseteq BOOLEAN
  /\ stream \in {"none", "opening", "open", "refused"} /\ token \in Keys \cup {Nil}
  /\ chan \in Seq(1..MaxVersion) /\ (stream # "open" => chan = <<>>)
  /\ load \in [Loads -> [pc : {"idle", "asked", "answered", "body"}, key : Keys \cup {Nil},
                         answer : Versions \cup {Nil, 401, 500}]]
  /\ key \in Keys
  /\ reasons \subseteq {"unpublished", "dropped", "unheard", "cut", "overtaken", "stale load"}

Calm ==
  /\ \A w \in Writers : writer[w] = IdleWriter
  /\ \A l \in Loads : load[l] = IdleLoad
  /\ chan = <<>>

(* When nothing is under way and the stream is open, the dashboard shows   *)
(* the run as it is, unless the news of its last change was not published, *)
(* was published while no stream was open, was dropped from a full channel *)
(* or cut off with the stream, or an older event or an older list has been *)
(* taken over after it.  There is no other way to go stale.                *)
StaleHasAReason == Calm /\ stream = "open" /\ shown # ver => reasons # {}

(* When keys were submitted one at a time and no fetch has thrown, the     *)
(* gate is shown exactly to those without the right key, and everybody     *)
(* else has a stream.                                                      *)
GateOrStream ==
  Calm /\ ~overlap /\ ~failed =>
    /\ unauthorized <=> ~Admits(key)
    /\ ~unauthorized => stream \in {"opening", "open"}
=============================================================================
