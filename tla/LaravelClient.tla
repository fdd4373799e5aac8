--------------------------- MODULE LaravelClient ----------------------------
(***************************************************************************)
(* The Laravel package of clients/laravel: ChronosClient::track around a   *)
(* closure, and the ->chronos() macro around a scheduled command, which    *)
(* report start, success and failed to the server over HTTP.               *)
(*                                                                         *)
(* A request can be lost, answered with an error status, or processed      *)
(* after the client has given up waiting (Http::timeout(5)); then the      *)
(* facade throws a ConnectionException, which nothing in the package       *)
(* catches but the catch of track.  No report carries a ttl_seconds, so    *)
(* the server's sweeper never touches these runs.                          *)
(***************************************************************************)
EXTENDS Naturals

CONSTANTS
  Jobs,     \* executions of a tracked closure or scheduled command
  Nil

VARIABLES
  mode,     \* mode[j]: "track" or "scheduled"
  pc,       \* pc[j]: the call j is making, "work", or "done"
  sent,     \* sent[j]: the request of that call is on its way
  known,    \* known[j]: $runId is set
  work,     \* work[j]: how the work ended, Nil before
  raised,   \* raised[j]: who threw the exception in flight, "work" or "client"
  wire,     \* the requests the server has not processed yet
  answer,   \* answer[j]: the answer under way to the call j waits for
  row       \* row[j]: the status of the run the server keeps for j

vars == <<mode, pc, sent, known, work, raised, wire, answer, row>>

ASSUME NilAssumption == Nil \notin {"ok", "error", "failed", "work", "client"}

Kinds == {"register", "start", "success", "failed"}

(* Registration of the schedule is the default and can be switched off.    *)
Init ==
  /\ mode \in [Jobs -> {"track", "scheduled"}]
  /\ pc \in [Jobs -> {"register", "start"}]
  /\ \A j \in Jobs : mode[j] = "track" => pc[j] = "start"
  /\ sent = [j \in Jobs |-> FALSE] /\ known = [j \in Jobs |-> FALSE]
  /\ work = [j \in Jobs |-> Nil] /\ raised = [j \in Jobs |-> Nil]
  /\ wire = {} /\ answer = [j \in Jobs |-> Nil]
  /\ row = [j \in Jobs |-> "absent"]

(* The next call, or the end, of j: nothing of it is sent yet.             *)
Proceed(j, to) ==
  /\ pc' = [pc EXCEPT ![j] = to]
  /\ sent' = [sent EXCEPT ![j] = FALSE]
  /\ answer' = [answer EXCEPT ![j] = Nil]

Raise(j, who) == raised' = [raised EXCEPT ![j] = who]

-----------------------------------------------------------------------------
(* The client                                                              *)

Send(j) ==
  /\ pc[j] \in Kinds /\ ~sent[j]
  /\ sent' = [sent EXCEPT ![j] = TRUE]
  /\ wire' = wire \cup {[job |-> j, kind |-> pc[j]]}
  /\ UNCHANGED <<mode, pc, known, work, raised, answer, row>>

(* registerSchedule only logs an answer that is no success.                *)
RegisterAnswered(j) ==
  /\ pc[j] = "register" /\ answer[j] # Nil
  /\ Proceed(j, "start")
  /\ UNCHANGED <<mode, known, work, raised, wire, row>>

(* Mutation: the status of the answer is not looked at.                    *)
StartTrusts(j) ==
  /\ pc[j] = "start" /\ answer[j] # Nil
  /\ known' = [known EXCEPT ![j] = TRUE]
  /\ Proceed(j, "work")
  /\ UNCHANGED <<mode, work, raised, wire, row>>

(* start returns the run_id, or null when the server refused.              *)
StartAnswered(j) ==
  /\ pc[j] = "start" /\ answer[j] # Nil
  /\ known' = [known EXCEPT ![j] = answer[j] = "ok"]
  /\ Proceed(j, "work")
  /\ UNCHANGED <<mode, work, raised, wire, row>>

(* Mutation: success is reported in a finally block.                       *)
WorkReportsSuccess(j) ==
  /\ pc[j] = "work"
  /\ \E result \in {"ok", "failed"} : work' = [work EXCEPT ![j] = result]
  /\ Proceed(j, IF known[j] THEN "success" ELSE "done")
  /\ UNCHANGED <<mode, known, raised, wire, row>>

(* The closure returns or throws, the command exits with 0 or not: a       *)
(* command's exit code is no exception.  Nothing is reported without id.   *)
Work(j) ==
  /\ pc[j] = "work"
  /\ \E result \in {"ok", "failed"} :
       /\ work' = [work EXCEPT ![j] = result]
       /\ Proceed(j, IF ~known[j] THEN "done" ELSE IF result = "ok" THEN "success" ELSE "failed")
       /\ IF result = "failed" /\ mode[j] = "track" THEN Raise(j, "work")
                                                    ELSE UNCHANGED raised
  /\ UNCHANGED <<mode, known, wire, row>>

(* Mutation: the catch does not throw $e again.                            *)
ReportForgets(j) ==
  /\ pc[j] \in {"success", "failed"} /\ answer[j] # Nil
  /\ Proceed(j, "done")
  /\ raised' = [raised EXCEPT ![j] = Nil]
  /\ UNCHANGED <<mode, known, work, wire, row>>

(* fireAndForget only logs an answer that is no success; then track        *)
(* returns the result, or throws $e again.                                 *)
ReportAnswered(j) ==
  /\ pc[j] \in {"success", "failed"} /\ answer[j] # Nil
  /\ Proceed(j, "done")
  /\ UNCHANGED <<mode, known, work, raised, wire, row>>

(* Mutations: the catch forgets why it was entered; a retry without limit. *)
TimeoutSwallows(j) ==
  /\ pc[j] \in Kinds /\ sent[j]
  /\ raised' = [raised EXCEPT ![j] = Nil]
  /\ Proceed(j, IF pc[j] = "success" /\ mode[j] = "track" THEN "failed" ELSE "done")
  /\ UNCHANGED <<mode, known, work, wire, row>>
TimeoutRetries(j) ==
  /\ pc[j] \in Kinds /\ sent[j]
  /\ sent' = [sent EXCEPT ![j] = FALSE]
  /\ UNCHANGED <<mode, pc, known, work, raised, wire, answer, row>>

(* No answer in time, or no connection: the facade throws.  start and      *)
(* registerSchedule are called outside any try; success is called inside   *)
(* the try of track, whose catch reports failed; what failed throws takes  *)
(* the place of $e.                                                        *)
Timeout(j) ==
  /\ pc[j] \in Kinds /\ sent[j]
  /\ Raise(j, "client")
  /\ Proceed(j, IF pc[j] = "success" /\ mode[j] = "track" THEN "failed" ELSE "done")
  /\ UNCHANGED <<mode, known, work, wire, row>>

-----------------------------------------------------------------------------
(* The server and the network                                              *)

(* Mutation: the kind of the request is taken for the status.              *)
EffectKind(kind, status) == kind

(* What the server's handlers do to the run: start inserts it, a report    *)
(* settles it whatever its status.  (They refuse to start a run that is    *)
(* there and to settle one that is not; no client asks for either, see     *)
(* ImplementsLifecycle.)                                                   *)
Effect(kind, status) ==
  CASE kind = "register" -> status
    [] kind = "start" -> "running"
    [] OTHER -> kind

(* The client of a request hears of it if it is still waiting.             *)
Reply(q, result) ==
  answer' = IF pc[q.job] = q.kind /\ sent[q.job] THEN [answer EXCEPT ![q.job] = result]
                                                 ELSE answer

Serve(q) ==
  /\ wire' = wire \ {q}
  /\ row' = [row EXCEPT ![q.job] = Effect(q.kind, row[q.job])]
  /\ Reply(q, "ok")
  /\ UNCHANGED <<mode, pc, sent, known, work, raised>>

(* 401, 404 or 500: nothing changed.                                       *)
Refuse(q) ==
  /\ wire' = wire \ {q}
  /\ Reply(q, "error")
  /\ UNCHANGED <<mode, pc, sent, known, work, raised, row>>

Lose(q) ==
  /\ wire' = wire \ {q}
  /\ UNCHANGED <<mode, pc, sent, known, work, raised, answer, row>>

-----------------------------------------------------------------------------
ClientStep(j) ==
  \/ Send(j) \/ RegisterAnswered(j) \/ StartAnswered(j)
  \/ Work(j) \/ ReportAnswered(j) \/ Timeout(j)

Next ==
  \/ \E j \in Jobs : ClientStep(j)
  \/ \E q \in wire : Serve(q) \/ Refuse(q) \/ Lose(q)

Spec == Init /\ [][Next]_vars

(* Every call returns or times out, and the work comes to an end.          *)
FairSpec == Spec /\ \A j \in Jobs : WF_vars(ClientStep(j))

-----------------------------------------------------------------------------
(* Properties                                                              *)

(* The type invariant.                                                     *)
TypeOK ==
  /\ mode \in [Jobs -> {"track", "scheduled"}]
  /\ pc \in [Jobs -> Kinds \cup {"work", "done"}]
  /\ sent \in [Jobs -> BOOLEAN] /\ known \in [Jobs -> BOOLEAN]
  /\ work \in [Jobs -> {Nil, "ok", "failed"}]
  /\ raised \in [Jobs -> {Nil, "work", "client"}]
  /\ wire \in SUBSET [job : Jobs, kind : Kinds]
  /\ answer \in [Jobs -> {Nil, "ok", "error"}]
  /\ row \in [Jobs -> {"absent", "running", "success", "failed"}]

(* The server never shows a success that was none, whatever was lost,      *)
(* refused, or processed late and out of order.                            *)
NoFalseSuccess == \A j \in Jobs : row[j] = "success" => work[j] = "ok"

(* A run shown failed although its work succeeded is one whose caller got  *)
(* an exception from the package: the dashboard and the caller agree.      *)
FalseFailureIsRaised ==
  \A j \in Jobs : row[j] = "failed" /\ work[j] = "ok" => raised[j] = "client"

(* track ends with the exception its closure threw, whatever becomes of    *)
(* the calls it makes meanwhile, but for one case: its last call, the      *)
(* report of the failure, gets no answer, and the exception of that call   *)
(* takes the place of $e.  (The README of the package promises $e there    *)
(* too; OutageNeverBreaksTheTask, which this code violates, covers that.)  *)
WorkExceptionSurfaces ==
  [][\A j \in Jobs :
       mode[j] = "track" /\ pc[j] # "done" /\ pc'[j] = "done" /\ work'[j] = "failed"
         => \/ raised'[j] = "work"
            \/ pc[j] = "failed" /\ Timeout(j) /\ raised'[j] = "client"]_vars

(* The requests of the package drive a run through the life cycle the      *)
(* server keeps: however late, lost or refused they are, none reports on a *)
(* run that was not started, and no start reaches one that was.            *)
Lifecycle == INSTANCE RunLifecycle WITH RunIds <- Jobs, status <- row
ImplementsLifecycle == Lifecycle!Spec

(* No outage of the server keeps a job from ending.                        *)
JobsEnd == \A j \in Jobs : <>(pc[j] = "done")

-----------------------------------------------------------------------------
(* What comments and documents say and the code does not do                *)

(* "A ChronosMonitor outage should never break the task it's monitoring":  *)
(* the work is done and no exception of the package reaches its caller.    *)
OutageNeverBreaksTheTask ==
  \A j \in Jobs : pc[j] = "done" => work[j] # Nil /\ raised[j] # "client"
=============================================================================
