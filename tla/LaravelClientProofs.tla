------------------------ MODULE LaravelClientProofs -------------------------
(***************************************************************************)
(* Proofs about LaravelClient, for every number of jobs: what the server   *)
(* keeps of a job, and what the caller of the job gets, agree with how the *)
(* work ended, however many requests are lost, refused or late.            *)
(***************************************************************************)
EXTENDS LaravelClient, TLAPS

-----------------------------------------------------------------------------
(* The inductive invariant                                                 *)

(* A success may be said of j; a failure may be said of j.                 *)
Succeeded(j) == work[j] = "ok"
Excused(j) == work[j] = "failed" \/ (work[j] = "ok" /\ raised[j] = "client")

(* Nothing is known of the work while it has not ended.                    *)
WorkInv == \A j \in Jobs : pc[j] \in {"register", "start", "work"} => work[j] = Nil

(* What is called, on its way or stored is what may be said.               *)
SaidInv(j) ==
  /\ pc[j] = "success" => Succeeded(j)
  /\ pc[j] = "failed" => Excused(j)
  /\ row[j] = "success" => Succeeded(j)
  /\ row[j] = "failed" => Excused(j)
WireInv ==
  \A q \in wire : /\ q.kind = "success" => Succeeded(q.job)
                  /\ q.kind = "failed" => Excused(q.job)

(* The exception in flight is that of the closure until the job has ended. *)
RaisedInv ==
  \A j \in Jobs : mode[j] = "track" /\ work[j] = "failed" /\ pc[j] # "done" => raised[j] = "work"

IInv == TypeOK /\ WorkInv /\ (\A j \in Jobs : SaidInv(j)) /\ WireInv /\ RaisedInv

-----------------------------------------------------------------------------
(* Initial states and steps                                                *)

LEMMA InitIInv == Init => IInv
<1> SUFFICES ASSUME Init PROVE IInv
  OBVIOUS
<1>1. TypeOK
  BY DEF Init, TypeOK, Kinds
<1> QED
  BY <1>1, NilAssumption DEF Init, IInv, WorkInv, SaidInv, WireInv, RaisedInv

LEMMA SendStep ==
  ASSUME IInv, NEW j \in Jobs, Send(j) PROVE IInv'
<1>1. TypeOK'
  BY DEF IInv, TypeOK, Send, Kinds
<1>2. WorkInv' /\ (\A k \in Jobs : SaidInv(k))' /\ RaisedInv'
  BY DEF IInv, WorkInv, SaidInv, Succeeded, Excused, RaisedInv, Send
<1>3. WireInv'
  BY DEF IInv, WireInv, SaidInv, Succeeded, Excused, Send
<1> QED
  BY <1>1, <1>2, <1>3 DEF IInv

LEMMA AnsweredStep ==
  ASSUME IInv, NEW j \in Jobs, RegisterAnswered(j) \/ StartAnswered(j) \/ ReportAnswered(j)
  PROVE  IInv'
<1>1. TypeOK'
  <2>1. CASE RegisterAnswered(j)
    BY <2>1 DEF IInv, TypeOK, RegisterAnswered, Proceed, Kinds
  <2>2. CASE StartAnswered(j)
    BY <2>2 DEF IInv, TypeOK, StartAnswered, Proceed, Kinds
  <2>3. CASE ReportAnswered(j)
    BY <2>3 DEF IInv, TypeOK, ReportAnswered, Proceed, Kinds
  <2> QED
    BY <2>1, <2>2, <2>3
<1>2. /\ UNCHANGED <<mode, work, raised, wire, row>>
      /\ \E to \in {"start", "work", "done"} : pc' = [pc EXCEPT ![j] = to]
      /\ pc[j] \in {"register", "start"} \/ pc'[j] = "done"
  BY DEF RegisterAnswered, StartAnswered, ReportAnswered, Proceed, IInv, TypeOK
<1>3. WorkInv'
  BY <1>2 DEF IInv, TypeOK, WorkInv
<1>4. (\A k \in Jobs : SaidInv(k))'
  BY <1>2 DEF IInv, TypeOK, SaidInv, Succeeded, Excused
<1>5. WireInv'
  BY <1>2 DEF IInv, WireInv, Succeeded, Excused
<1>6. RaisedInv'
  BY <1>2, NilAssumption DEF IInv, TypeOK, WorkInv, RaisedInv
<1> QED
  BY <1>1, <1>3, <1>4, <1>5, <1>6 DEF IInv

LEMMA WorkStep ==
  ASSUME IInv, NEW j \in Jobs, Work(j) PROVE IInv'
<1> USE NilAssumption
<1>1. PICK result \in {"ok", "failed"} :
        /\ work' = [work EXCEPT ![j] = result]
        /\ Proceed(j, IF ~known[j] THEN "done" ELSE IF result = "ok" THEN "success" ELSE "failed")
        /\ IF result = "failed" /\ mode[j] = "track" THEN Raise(j, "work")
                                                    ELSE UNCHANGED raised
  BY DEF Work
<1>2. pc[j] = "work" /\ UNCHANGED <<mode, known, wire, row>> /\ work[j] = Nil
  BY DEF Work, IInv, WorkInv
<1>3. TypeOK'
  BY <1>1, <1>2 DEF IInv, TypeOK, Proceed, Raise, Kinds
<1>4. row[j] \notin {"success", "failed"}
      /\ \A q \in wire : q.job = j => q.kind \notin {"success", "failed"}
  BY <1>2 DEF IInv, SaidInv, WireInv, Succeeded, Excused
<1>5. /\ pc'[j] \in {"done", "success", "failed"} /\ work'[j] = result
      /\ pc'[j] = "success" => result = "ok"
      /\ pc'[j] = "failed" => result = "failed"
      /\ \A k \in Jobs \ {j} : pc'[k] = pc[k] /\ work'[k] = work[k] /\ raised'[k] = raised[k]
      /\ result = "failed" /\ mode[j] = "track" => raised'[j] = "work"
  BY <1>1 DEF IInv, TypeOK, Proceed, Raise
<1>6. WorkInv'
  BY <1>5 DEF IInv, WorkInv
<1>7. (\A k \in Jobs : SaidInv(k))'
  BY <1>2, <1>4, <1>5 DEF IInv, SaidInv, Succeeded, Excused
<1>8. WireInv'
  BY <1>2, <1>4, <1>5 DEF IInv, TypeOK, WireInv, Succeeded, Excused
<1>9. RaisedInv'
  BY <1>2, <1>5 DEF IInv, RaisedInv
<1> QED
  BY <1>3, <1>6, <1>7, <1>8, <1>9 DEF IInv

LEMMA TimeoutStep ==
  ASSUME IInv, NEW j \in Jobs, Timeout(j) PROVE IInv'
<1> USE NilAssumption
<1>1. /\ pc[j] \in Kinds /\ UNCHANGED <<mode, known, work, wire, row>>
      /\ pc'[j] \in {"failed", "done"} /\ raised'[j] = "client"
      /\ pc'[j] = "failed" => pc[j] = "success"
      /\ \A k \in Jobs \ {j} : pc'[k] = pc[k] /\ raised'[k] = raised[k]
  BY DEF Timeout, Raise, Proceed, IInv, TypeOK
<1>2. TypeOK'
  BY DEF IInv, TypeOK, Timeout, Raise, Proceed, Kinds
<1>3. \A k \in Jobs : Excused(k) => Excused(k)'
  BY <1>1 DEF Excused
<1>4. WorkInv'
  BY <1>1 DEF IInv, WorkInv
<1>5. (\A k \in Jobs : SaidInv(k))'
  BY <1>1, <1>3 DEF IInv, SaidInv, Succeeded, Excused
<1>6. WireInv'
  BY <1>1, <1>3 DEF IInv, TypeOK, WireInv, Succeeded
<1>7. RaisedInv'
  BY <1>1 DEF IInv, SaidInv, Succeeded, RaisedInv
<1> QED
  BY <1>2, <1>4, <1>5, <1>6, <1>7 DEF IInv

(* Processing a request stores no more than the request said.              *)
LEMMA NetworkStep ==
  ASSUME IInv, NEW q \in wire, Serve(q) \/ Refuse(q) \/ Lose(q) PROVE IInv'
<1>1. PICK j \in Jobs, kind \in Kinds : q = [job |-> j, kind |-> kind]
  BY DEF IInv, TypeOK
<1>2. q.job = j /\ q.kind = kind
  BY <1>1
<1>3. /\ UNCHANGED <<mode, pc, work, raised>> /\ wire' \subseteq wire
      /\ row' = row \/ row' = [row EXCEPT ![j] = Effect(kind, row[j])]
  BY <1>2 DEF Serve, Refuse, Lose
<1>4. Effect(kind, row[j]) \in {row[j], "running"} \cup ({kind} \cap {"success", "failed"})
  BY DEF Effect, Kinds
<1>5. TypeOK'
  <2>1. answer' \in [Jobs -> {Nil, "ok", "error"}]
    BY <1>2 DEF Serve, Refuse, Lose, Reply, IInv, TypeOK
  <2>2. UNCHANGED <<sent, known>>
    BY DEF Serve, Refuse, Lose
  <2>3. row' \in [Jobs -> {"absent", "running", "success", "failed"}]
    BY <1>3, <1>4 DEF IInv, TypeOK
  <2> QED
    BY <1>3, <2>1, <2>2, <2>3 DEF IInv, TypeOK
<1>6. (\A k \in Jobs : SaidInv(k))'
  BY <1>2, <1>3, <1>4 DEF IInv, TypeOK, SaidInv, WireInv, Succeeded, Excused
<1>7. WorkInv' /\ WireInv' /\ RaisedInv'
  BY <1>3 DEF IInv, WorkInv, WireInv, RaisedInv, Succeeded, Excused
<1> QED
  BY <1>5, <1>6, <1>7 DEF IInv

LEMMA NextIInv == IInv /\ [Next]_vars => IInv'
<1>1. SUFFICES ASSUME IInv, [Next]_vars PROVE IInv'
  OBVIOUS
<1>2. CASE UNCHANGED vars
  BY <1>1, <1>2 DEF vars, IInv, TypeOK, WorkInv, SaidInv, WireInv, RaisedInv, Succeeded, Excused
<1>3. ASSUME NEW j \in Jobs, ClientStep(j) PROVE IInv'
  BY <1>1, <1>3, SendStep, AnsweredStep, WorkStep, TimeoutStep DEF ClientStep
<1>4. ASSUME NEW q \in wire, Serve(q) \/ Refuse(q) \/ Lose(q) PROVE IInv'
  BY <1>1, <1>4, NetworkStep
<1> QED
  BY <1>1, <1>2, <1>3, <1>4 DEF Next

LEMMA Invariance == Spec => []IInv
  BY InitIInv, NextIInv, PTL DEF Spec

-----------------------------------------------------------------------------
(* What follows                                                            *)

(* Jobs, requests in flight and what the server keeps are well typed,      *)
(* whatever the network does to the calls of ChronosClient.                *)
THEOREM TypeCorrect == Spec => []TypeOK
<1>1. IInv => TypeOK
  BY DEF IInv
<1> QED
  BY <1>1, Invariance, PTL

(* The server never shows a success of work that did not succeed           *)
(* (ChronosClient::track and the macro), in any order of late requests.    *)
THEOREM SuccessIsTrue == Spec => []NoFalseSuccess
<1>1. IInv => NoFalseSuccess
  BY DEF IInv, SaidInv, Succeeded, NoFalseSuccess
<1> QED
  BY <1>1, Invariance, PTL

(* Work shown as failed although it succeeded belongs to a caller that got *)
(* an exception of the package (the success call of track timed out).      *)
THEOREM FailureIsShared == Spec => []FalseFailureIsRaised
<1>1. IInv => FalseFailureIsRaised
  BY DEF IInv, SaidInv, Excused, FalseFailureIsRaised
<1> QED
  BY <1>1, Invariance, PTL

(* track ends with the exception of its closure (ChronosClient::track),    *)
(* and with nothing else but the exception of its own report of failed.    *)
THEOREM ExceptionSurvives == Spec => WorkExceptionSurfaces
<1>1. ASSUME IInv, [Next]_vars, NEW j \in Jobs,
             mode[j] = "track", pc[j] # "done", pc'[j] = "done", work'[j] = "failed"
      PROVE  raised'[j] = "work" \/ (pc[j] = "failed" /\ Timeout(j) /\ raised'[j] = "client")
  <2>1. PICK k \in Jobs : ClientStep(k)
    BY <1>1 DEF Next, vars, Serve, Refuse, Lose
  <2>2. k = j
    BY <1>1, <2>1 DEF ClientStep, Send, RegisterAnswered, StartAnswered, Work, ReportAnswered,
       Timeout, Proceed, IInv, TypeOK
  <2>3. CASE Send(j) \/ RegisterAnswered(j) \/ StartAnswered(j)
    BY <1>1, <2>3 DEF Send, RegisterAnswered, StartAnswered, Proceed, IInv, TypeOK
  <2>4. CASE Work(j)
    BY <1>1, <2>4 DEF Work, Raise, IInv, TypeOK
  <2>5. CASE ReportAnswered(j)
    BY <1>1, <2>5 DEF ReportAnswered, IInv, RaisedInv
  <2>6. CASE Timeout(j)
    <3>1. UNCHANGED work /\ raised'[j] = "client" /\ pc[j] \in Kinds /\ pc[j] # "success"
      BY <1>1, <2>6 DEF Timeout, Raise, Proceed, IInv, TypeOK
    <3>2. pc[j] \notin {"register", "start"}
      BY <1>1, <3>1, NilAssumption DEF IInv, WorkInv
    <3> QED
      BY <2>6, <3>1, <3>2 DEF Kinds
  <2> QED
    BY <2>1, <2>2, <2>3, <2>4, <2>5, <2>6 DEF ClientStep
<1>2. IInv /\ [Next]_vars
        => [\A j \in Jobs :
              mode[j] = "track" /\ pc[j] # "done" /\ pc'[j] = "done" /\ work'[j] = "failed"
                => \/ raised'[j] = "work"
                   \/ pc[j] = "failed" /\ Timeout(j) /\ raised'[j] = "client"]_vars
  BY <1>1
<1> QED
  BY <1>2, Invariance, PTL DEF Spec, WorkExceptionSurfaces

-----------------------------------------------------------------------------
(* The requests implement RunLifecycle                                     *)

(* The run of j is not started and nothing under way would start it; or    *)
(* one start is; or the run is there.                                      *)
Starting(j) == [job |-> j, kind |-> "start"] \in wire
Unasked(j) == pc[j] = "register" \/ (pc[j] = "start" /\ ~sent[j])
StartInv(j) ==
  /\ Unasked(j) => row[j] = "absent" /\ ~Starting(j)
  /\ Starting(j) => row[j] = "absent"
  /\ pc[j] = "start" /\ answer[j] = "ok" => row[j] # "absent"

(* A client that knows the id of a run knows of one that is there, and     *)
(* only such a client reports.                                             *)
KnownInv(j) ==
  /\ known[j] => row[j] # "absent"
  /\ pc[j] \in {"success", "failed"} => known[j]
ReportsInv == \A q \in wire : q.kind \in {"success", "failed"} => row[q.job] # "absent"

OrderInv == (\A j \in Jobs : StartInv(j) /\ KnownInv(j)) /\ ReportsInv

LEMMA InitOrder == Init => OrderInv
  BY NilAssumption DEF Init, OrderInv, StartInv, KnownInv, ReportsInv, Unasked, Starting

(* A call leaves the server's rows alone; only Send adds to what is under  *)
(* way.                                                                    *)
LEMMA SendOrder ==
  ASSUME IInv, OrderInv, NEW j \in Jobs, Send(j) PROVE OrderInv'
<1>1. /\ pc[j] \in Kinds /\ ~sent[j] /\ UNCHANGED <<pc, known, answer, row>>
      /\ sent' = [sent EXCEPT ![j] = TRUE]
      /\ wire' = wire \cup {[job |-> j, kind |-> pc[j]]}
  BY DEF Send
<1>2. \A k \in Jobs \ {j} : Starting(k)' = Starting(k) /\ Unasked(k)' = Unasked(k)
  BY <1>1 DEF Starting, Unasked, IInv, TypeOK
<1>3. \A k \in Jobs \ {j} : StartInv(k)'
  BY <1>1, <1>2 DEF OrderInv, StartInv
<1>4. StartInv(j)'
  <2>1. Unasked(j)' => Unasked(j) /\ pc[j] = "register"
    BY <1>1 DEF Unasked, IInv, TypeOK
  <2>2. Starting(j)' => Starting(j) \/ Unasked(j)
    BY <1>1 DEF Starting, Unasked
  <2>3. pc[j] = "register" => Starting(j)' = Starting(j)
    BY <1>1 DEF Starting
  <2> QED
    BY <1>1, <2>1, <2>2, <2>3 DEF OrderInv, StartInv
<1>5. \A k \in Jobs : KnownInv(k)'
  BY <1>1 DEF OrderInv, KnownInv
<1>6. ReportsInv'
  BY <1>1 DEF OrderInv, KnownInv, ReportsInv
<1> QED
  BY <1>3, <1>4, <1>5, <1>6 DEF OrderInv

LEMMA ClientOrder ==
  ASSUME IInv, OrderInv, NEW j \in Jobs, ClientStep(j), ~Send(j) PROVE OrderInv'
<1> USE NilAssumption
<1>1. /\ UNCHANGED <<wire, row>>
      /\ sent' = [sent EXCEPT ![j] = FALSE] /\ answer' = [answer EXCEPT ![j] = Nil]
      /\ \A k \in Jobs \ {j} : pc'[k] = pc[k] /\ known'[k] = known[k]
  BY DEF ClientStep, RegisterAnswered, StartAnswered, Work, ReportAnswered, Timeout, Proceed,
         IInv, TypeOK
<1>2. /\ pc'[j] = "start" => pc[j] = "register"
      /\ pc'[j] # "register"
      /\ pc'[j] \in {"success", "failed"} => pc[j] \in {"work", "success"} /\ known'[j] = known[j]
                                            /\ known[j]
      /\ known'[j] => known[j] \/ (pc[j] = "start" /\ answer[j] = "ok")
  <2>1. CASE RegisterAnswered(j)
    BY <2>1 DEF RegisterAnswered, Proceed, IInv, TypeOK
  <2>2. CASE StartAnswered(j)
    BY <2>2 DEF StartAnswered, Proceed, IInv, TypeOK
  <2>3. CASE Work(j)
    BY <2>3 DEF Work, Proceed, IInv, TypeOK
  <2>4. CASE ReportAnswered(j)
    BY <2>4 DEF ReportAnswered, Proceed, IInv, TypeOK
  <2>5. CASE Timeout(j)
    BY <2>5 DEF Timeout, Proceed, IInv, TypeOK, OrderInv, KnownInv
  <2> QED
    BY <2>1, <2>2, <2>3, <2>4, <2>5 DEF ClientStep
<1>3. \A k \in Jobs : Starting(k)' = Starting(k)
  BY <1>1 DEF Starting
<1>4. \A k \in Jobs \ {j} : sent'[k] = sent[k] /\ answer'[k] = answer[k]
  BY <1>1 DEF IInv, TypeOK
<1>5. \A k \in Jobs : StartInv(k)'
  <2>1. \A k \in Jobs \ {j} : Unasked(k)' = Unasked(k)
    BY <1>1, <1>4 DEF Unasked
  <2>2. \A k \in Jobs \ {j} : StartInv(k)'
    BY <1>1, <1>3, <1>4, <2>1 DEF OrderInv, StartInv
  <2>3. Unasked(j)' => Unasked(j)
    BY <1>2 DEF Unasked
  <2>4. answer'[j] # "ok"
    BY <1>1 DEF IInv, TypeOK
  <2>5. StartInv(j)'
    BY <1>1, <1>3, <2>3, <2>4 DEF OrderInv, StartInv
  <2> QED
    BY <2>2, <2>5
<1>6. \A k \in Jobs : KnownInv(k)'
  BY <1>1, <1>2 DEF OrderInv, KnownInv, StartInv
<1>7. ReportsInv'
  BY <1>1 DEF OrderInv, ReportsInv
<1> QED
  BY <1>5, <1>6, <1>7 DEF OrderInv

(* Processing a start begins the run, processing a report settles a run    *)
(* that is there.                                                          *)
LEMMA NetworkLifecycle ==
  ASSUME IInv, OrderInv, NEW q \in wire, Serve(q) \/ Refuse(q) \/ Lose(q)
  PROVE  Lifecycle!Next \/ UNCHANGED row
<1>1. q.job \in Jobs /\ q.kind \in Kinds /\ q = [job |-> q.job, kind |-> q.kind]
  BY DEF IInv, TypeOK
<1>2. CASE Refuse(q) \/ Lose(q)
  BY <1>2 DEF Refuse, Lose
<1>3. CASE Serve(q) /\ q.kind = "register"
  <2>1. row' = [row EXCEPT ![q.job] = row[q.job]]
    BY <1>3 DEF Serve, Effect
  <2> QED
    BY <1>1, <2>1 DEF IInv, TypeOK
<1>4. CASE Serve(q) /\ q.kind = "start"
  <2>1. Starting(q.job)
    BY <1>1, <1>4 DEF Starting
  <2>2. row[q.job] = "absent" /\ row' = [row EXCEPT ![q.job] = "running"]
    BY <1>1, <1>4, <2>1 DEF Serve, Effect, OrderInv, StartInv
  <2> QED
    BY <1>1, <2>2 DEF Lifecycle!Begin, Lifecycle!Next
<1>5. CASE Serve(q) /\ q.kind \in {"success", "failed"}
  <2>1. row[q.job] # "absent" /\ row' = [row EXCEPT ![q.job] = q.kind]
    BY <1>1, <1>5 DEF Serve, Effect, OrderInv, ReportsInv
  <2> QED
    BY <1>1, <1>5, <2>1 DEF Lifecycle!Report, Lifecycle!Next
<1> QED
  BY <1>1, <1>2, <1>3, <1>4, <1>5 DEF Kinds

LEMMA NetworkOrder ==
  ASSUME IInv, OrderInv, NEW q \in wire, Serve(q) \/ Refuse(q) \/ Lose(q)
  PROVE  OrderInv'
<1> USE NilAssumption
<1>1. q.job \in Jobs /\ q.kind \in Kinds /\ q = [job |-> q.job, kind |-> q.kind]
  BY DEF IInv, TypeOK
<1>2. UNCHANGED <<pc, sent, known>> /\ wire' = wire \ {q}
  BY DEF Serve, Refuse, Lose
<1>3. /\ row \in [Jobs -> {"absent", "running", "success", "failed"}]
      /\ answer \in [Jobs -> {Nil, "ok", "error"}]
  BY DEF IInv, TypeOK
<1>4. \A k \in Jobs : row'[k] # row[k] => k = q.job /\ q.kind # "register"
  BY <1>1, <1>3 DEF Serve, Refuse, Lose, Effect
<1>5. \A k \in Jobs : row[k] # "absent" => row'[k] # "absent"
  BY <1>1, <1>3 DEF Serve, Refuse, Lose, Effect, Kinds
<1>6. ASSUME NEW k \in Jobs, answer'[k] = "ok", pc[k] = "start"
      PROVE  row'[k] # "absent"
  <2>1. CASE answer[k] = "ok"
    BY <1>5, <1>6, <2>1 DEF OrderInv, StartInv
  <2>2. CASE answer[k] # "ok"
    <3>0. \E result \in {"ok", "error"} : Reply(q, result) /\ (result = "ok" => Serve(q))
      BY <1>6, <2>2 DEF Serve, Refuse, Lose
    <3>1. Serve(q) /\ q.job = k /\ q.kind = "start"
      BY <1>1, <1>3, <1>6, <2>2, <3>0 DEF Reply
    <3> QED
      BY <1>1, <1>3, <3>1 DEF Serve, Effect
  <2> QED
    BY <2>1, <2>2
<1>7. ASSUME NEW k \in Jobs, Starting(k)' PROVE Starting(k) /\ row'[k] = "absent"
  <2>1. Starting(k) /\ q # [job |-> k, kind |-> "start"] /\ row[k] = "absent"
    BY <1>2, <1>7 DEF Starting, OrderInv, StartInv
  <2>2. CASE q.job = k /\ q.kind \in {"success", "failed"}
    BY <2>1, <2>2 DEF OrderInv, ReportsInv
  <2>3. CASE q.job # k \/ q.kind = "register"
    BY <1>3, <1>4, <2>1, <2>3
  <2> QED
    BY <1>1, <2>1, <2>2, <2>3 DEF Kinds
<1>8. ASSUME NEW k \in Jobs, Unasked(k) PROVE row'[k] = "absent"
  <2>1. row[k] = "absent" /\ ~Starting(k)
    BY <1>8 DEF OrderInv, StartInv
  <2>2. CASE q.job = k /\ q.kind \in {"success", "failed"}
    BY <2>1, <2>2 DEF OrderInv, ReportsInv
  <2>3. CASE q.job = k /\ q.kind = "start"
    BY <1>1, <2>1, <2>3 DEF Starting
  <2>4. CASE q.job # k \/ q.kind = "register"
    BY <1>3, <1>4, <2>1, <2>4
  <2> QED
    BY <1>1, <2>2, <2>3, <2>4 DEF Kinds
<1>9. \A k \in Jobs : StartInv(k)'
  BY <1>2, <1>6, <1>7, <1>8 DEF OrderInv, StartInv, Unasked
<1>10. \A k \in Jobs : KnownInv(k)'
  BY <1>2, <1>5 DEF OrderInv, KnownInv
<1>11. ReportsInv'
  BY <1>2, <1>5 DEF OrderInv, ReportsInv, IInv, TypeOK
<1> QED
  BY <1>9, <1>10, <1>11 DEF OrderInv

LEMMA OrderAlways == Spec => []OrderInv
<1>1. ASSUME IInv, OrderInv, [Next]_vars PROVE OrderInv'
  <2>1. CASE UNCHANGED vars
    BY <1>1, <2>1 DEF vars, OrderInv, StartInv, KnownInv, ReportsInv, Unasked, Starting
  <2> QED
    BY <1>1, <2>1, SendOrder, ClientOrder, NetworkOrder DEF Next
<1> QED
  BY <1>1, InitOrder, Invariance, PTL DEF Spec

(* What the package asks of the server is a life cycle, for any number of  *)
(* jobs: reports that overtake each other, and calls the client has given  *)
(* up on, settle only runs that are there and start none twice.            *)
THEOREM LifecycleImplemented == Spec => ImplementsLifecycle
<1>1. Init => Lifecycle!Init
  BY DEF Init, Lifecycle!Init
<1>2. IInv /\ OrderInv /\ [Next]_vars => [Lifecycle!Next]_row
  <2>1. ASSUME NEW j \in Jobs, ClientStep(j) PROVE UNCHANGED row
    BY <2>1 DEF ClientStep, Send, RegisterAnswered, StartAnswered, Work, ReportAnswered, Timeout
  <2> QED
    BY <2>1, NetworkLifecycle DEF Next, vars
<1> QED
  BY <1>1, <1>2, Invariance, OrderAlways, PTL DEF Spec, ImplementsLifecycle, Lifecycle!Spec
=============================================================================
