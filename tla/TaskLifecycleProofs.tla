-------------------------- MODULE TaskLifecycleProofs --------------------------
(***************************************************************************)
(* Proofs about TaskLifecycle, for any number of tasks, replicas, requests *)
(* and agents and any value of the limits.                                 *)
(***************************************************************************)
EXTENDS TaskLifecycle, FiniteSetTheorems, TLAPS

(***************************************************************************)
(* Type correctness.                                                       *)
(***************************************************************************)

(* What a commit writes has the type of the column it writes.              *)
LEMMA CommittedValuesTyped ==
  ASSUME NEW v \in Verdict,
         NEW s \in TaskStatus \cup {"absent"}, NEW e \in ErrorCode,
         NEW l \in Result, NEW r \in Result, NEW o \in [good : Nat, bad : Nat]
  PROVE  /\ StatusAfter(v, s) \in TaskStatus \cup {"absent"}
         /\ ErrorAfter(v, e) \in ErrorCode
         /\ ResultAfter(v, l, r) \in Result
         /\ OutcomeAfter(v, o) \in [good : Nat, bad : Nat]
<1>1. StatusAfter(v, s) \in TaskStatus \cup {"absent"}
  BY DEF StatusAfter, TaskStatus, Terminal, Reported
<1>2. ErrorAfter(v, e) \in ErrorCode
  BY DEF ErrorAfter, ErrorCode
<1>3. ResultAfter(v, l, r) \in Result
  BY DEF ResultAfter, Result
<1>4. OutcomeAfter(v, o) \in [good : Nat, bad : Nat]
  BY DEF OutcomeAfter
<1>. QED
  BY <1>1, <1>2, <1>3, <1>4

LEMMA InitTypeOK == Init => TypeOK
  BY ConstantsAssumption
  DEF Init, TypeOK, Idle, Empty, NoPlan, NothingSeen, Result, Request, Verdict,
      AgentStatus, TaskStatus, ErrorCode, Reported, Terminal

(* The steps of the platform around the table preserve the types.          *)
LEMMA PlatformTypeOK ==
  ASSUME TypeOK,
         Tick \/ (\E t \in Tasks : Send(t))
           \/ (\E a \in Agents : Heartbeat(a) \/ MarkInactive(a) \/ Suspend(a) \/ Deregister(a))
  PROVE  TypeOK'
<1>1. CASE Tick
  BY <1>1, ConstantsAssumption DEF Tick, TypeOK, ledger, batch
<1>2. CASE \E t \in Tasks : Send(t)
  BY <1>2 DEF Send, TypeOK, ledger, batch, TaskStatus
<1>3. CASE \E a \in Agents : Heartbeat(a) \/ MarkInactive(a) \/ Suspend(a) \/ Deregister(a)
  BY <1>3 DEF Heartbeat, MarkInactive, Suspend, Deregister, TypeOK, taskRow, ledger, batch, AgentStatus
<1>. QED
  BY <1>1, <1>2, <1>3

(* A verdict on one task of a batch preserves the types.                   *)
LEMMA JudgeTypeOK ==
  ASSUME TypeOK, NEW w \in Workers, NEW t \in Tasks, NEW v \in Verdict, Judge(w, t, v)
  PROVE  /\ todo' \in [Workers -> SUBSET Tasks]
         /\ plan' \in [Workers -> [Tasks -> Verdict]]
         /\ seen' \in [Workers -> [agent : Agents \cup {NoAgent}, status : AgentStatus]]
<1>1. RecipientStatus(w, t) \in AgentStatus
  BY DEF RecipientStatus, TypeOK
<1>2. todo' \in [Workers -> SUBSET Tasks]
  BY DEF Judge, TypeOK
<1>3. plan' \in [Workers -> [Tasks -> Verdict]]
  BY DEF Judge, TypeOK
<1>4. seen' \in [Workers -> [agent : Agents \cup {NoAgent}, status : AgentStatus]]
  BY <1>1 DEF Judge, TypeOK
<1>. QED
  BY <1>2, <1>3, <1>4

(* The steps of the workers preserve the types.                            *)
LEMMA WorkerTypeOK ==
  ASSUME TypeOK, NEW w \in Workers,
         \/ SelectBatch(w) \/ SelectExpired(w) \/ CommitPlan(w) \/ AbortIteration(w)
         \/ \E t \in Tasks : RefuseInactive(w, t) \/ PostAccepted(w, t) \/ PostRejected(w, t)
  PROVE  TypeOK'
<1>1. CASE SelectBatch(w)
  BY <1>1 DEF SelectBatch, Deliverable, TypeOK, taskRow, ledger
<1>2. CASE SelectExpired(w)
  BY <1>2 DEF SelectExpired, TypeOK, taskRow, ledger, Verdict
<1>3. CASE CommitPlan(w)
  <2>1. /\ status' \in [Tasks -> TaskStatus \cup {"absent"}]
        /\ error' \in [Tasks -> ErrorCode]
        /\ result' \in [Tasks -> Result]
        /\ outcomes' \in [Tasks -> [good : Nat, bad : Nat]]
    <3>1. ASSUME NEW t \in Tasks
          PROVE  /\ plan[w][t] \in Verdict
                 /\ status[t] \in TaskStatus \cup {"absent"}
                 /\ error[t] \in ErrorCode
                 /\ snap[w][t] \in Result /\ result[t] \in Result
                 /\ outcomes[t] \in [good : Nat, bad : Nat]
      BY DEF TypeOK
    <3>2. \A t \in Tasks :
            /\ StatusAfter(plan[w][t], status[t]) \in TaskStatus \cup {"absent"}
            /\ ErrorAfter(plan[w][t], error[t]) \in ErrorCode
            /\ ResultAfter(plan[w][t], snap[w][t], result[t]) \in Result
            /\ OutcomeAfter(plan[w][t], outcomes[t]) \in [good : Nat, bad : Nat]
      BY <3>1, CommittedValuesTyped
    <3>. QED
      BY <1>3, <3>2 DEF CommitPlan
  <2>2. completed' \in [Tasks -> BOOLEAN]
    BY <1>3 DEF CommitPlan, TypeOK
  <2>3. /\ plan' \in [Workers -> [Tasks -> Verdict]]
        /\ snap' \in [Workers -> [Tasks -> Result]]
        /\ seen' \in [Workers -> [agent : Agents \cup {NoAgent}, status : AgentStatus]]
    BY <1>3
    DEF CommitPlan, TypeOK, NoPlan, NothingSeen, Empty, Verdict, Result, AgentStatus
  <2>. QED
    BY <1>3, <2>1, <2>2, <2>3 DEF CommitPlan, TypeOK
<1>4. CASE AbortIteration(w)
  <2>1. /\ plan' \in [Workers -> [Tasks -> Verdict]]
        /\ snap' \in [Workers -> [Tasks -> Result]]
        /\ seen' \in [Workers -> [agent : Agents \cup {NoAgent}, status : AgentStatus]]
        /\ todo' \in [Workers -> SUBSET Tasks]
    BY <1>4
    DEF AbortIteration, TypeOK, NoPlan, NothingSeen, Empty, Verdict, Result, AgentStatus
  <2>2. lost' \in [Tasks -> [Levels -> Nat]] /\ aborts' \in Nat
    <3>1. lost \in [Tasks -> [Levels -> Nat]] /\ aborts \in Nat
      BY DEF TypeOK
    <3>2. ASSUME NEW t \in Tasks, NEW k
          PROVE  [lost[t] EXCEPT ![k] = @ + 1] \in [Levels -> Nat]
      <4>1. lost[t] \in [Levels -> Nat] /\ \A l \in Levels : lost[t][l] + 1 \in Nat
        BY <3>1
      <4>. DEFINE g == [lost[t] EXCEPT ![k] = @ + 1]
      <4>2. g = [l \in Levels |-> IF l = k THEN lost[t][k] + 1 ELSE lost[t][l]]
        BY <4>1
      <4>. HIDE DEF g
      <4>3. g \in [Levels -> Nat]
        BY <4>1, <4>2
      <4>. QED
        BY <4>3 DEF g
    <3>. QED
      BY <1>4, <3>1, <3>2 DEF AbortIteration
  <2>. QED
    BY <1>4, <2>1, <2>2 DEF AbortIteration, TypeOK, taskRow, ledger
<1>5. ASSUME NEW t \in Tasks,
             RefuseInactive(w, t) \/ PostAccepted(w, t) \/ PostRejected(w, t)
      PROVE  TypeOK'
  <2>1. \E v \in Verdict : Judge(w, t, v)
    BY <1>5 DEF RefuseInactive, PostAccepted, PostRejected, Verdict
  <2>2. posts' \in [Tasks -> [Levels -> Nat]]
    <3>1. posts \in [Tasks -> [Levels -> Nat]]
      BY DEF TypeOK
    <3>2. posts' = posts \/ posts' = [posts EXCEPT ![t][snap[w][t].attempts] = @ + 1]
      BY <1>5 DEF RefuseInactive, PostAccepted, PostRejected
    <3>. QED
      BY <3>1, <3>2
  <2>. QED
    BY <1>5, <2>1, <2>2, JudgeTypeOK
    DEF RefuseInactive, PostAccepted, PostRejected, TypeOK, taskRow, ledger
<1>. QED
  BY <1>1, <1>2, <1>3, <1>4, <1>5

(* The steps of the requests preserve the types.                           *)
LEMMA RequestTypeOK ==
  ASSUME TypeOK, NEW r \in Requests,
         \/ \E t \in Tasks, s \in Reports : LoadReport(r, t, s)
         \/ \E t \in Tasks : LoadChunk(r, t)
         \/ CommitReport(r) \/ RecordReported(r) \/ CommitChunk(r) \/ DropRequest(r)
  PROVE  TypeOK'
<1>0. Idle \in Request
  BY DEF Idle, Request, Reported
<1>1. CASE \E t \in Tasks, s \in Reports : LoadReport(r, t, s)
  BY <1>1, ConstantsAssumption
  DEF LoadReport, TypeOK, taskRow, ledger, batch, Request, Reported
<1>2. CASE \E t \in Tasks : LoadChunk(r, t)
  BY <1>2 DEF LoadChunk, TypeOK, taskRow, ledger, batch, Request, Reported
<1>3. CASE CommitReport(r)
  <2>1. /\ req[r].task \in Tasks \cup {NoTask}
        /\ req[r].says \in Reported
        /\ req' \in [Requests -> Request]
    <3>1. req \in [Requests -> Request]
      BY DEF TypeOK
    <3>2. /\ [req[r] EXCEPT !.kind = "outcome", !.was = "absent"] \in Request
          /\ req[r].task \in Tasks \cup {NoTask} /\ req[r].says \in Reported
      BY <3>1 DEF Request
    <3>3. req' = [req EXCEPT ![r] = [req[r] EXCEPT !.kind = "outcome", !.was = "absent"]]
      BY <1>3, <3>1 DEF CommitReport
    <3>. QED
      BY <3>1, <3>2, <3>3
  <2>2. status' \in [Tasks -> TaskStatus \cup {"absent"}]
    BY <1>3, <2>1 DEF CommitReport, TypeOK, TaskStatus, Terminal, batch
  <2>3. result' \in [Tasks -> Result] /\ error' \in [Tasks -> ErrorCode]
    <3>1. result \in [Tasks -> Result] /\ error \in [Tasks -> ErrorCode]
      BY DEF TypeOK
    <3>2. [attempts |-> 0, reply |-> TRUE] \in Result /\ "reported" \in ErrorCode
      BY DEF Result, ErrorCode
    <3>. QED
      BY <1>3, <3>1, <3>2 DEF CommitReport
  <2>4. completed' \in [Tasks -> BOOLEAN]
    <3>1. completed \in [Tasks -> BOOLEAN]
      BY DEF TypeOK
    <3>2. completed' = [completed EXCEPT ![req[r].task] = TRUE]
      BY <1>3 DEF CommitReport
    <3>. QED
      BY <3>1, <3>2
  <2>5. reports' \in [Tasks -> Nat]
    <3>1. reports \in [Tasks -> Nat]
      BY DEF TypeOK
    <3>2. reports' = [reports EXCEPT ![req[r].task] = reports[req[r].task] + 1]
      BY <1>3 DEF CommitReport
    <3>3. \A t \in Tasks : reports[t] + 1 \in Nat
      BY <3>1
    <3>4. \A t \in Tasks : reports'[t] \in Nat
      BY <3>1, <3>2, <3>3
    <3>. QED
      BY <3>1, <3>2, <3>4
  <2>. QED
    BY <1>3, <2>1, <2>2, <2>3, <2>4, <2>5 DEF CommitReport, TypeOK, batch
<1>4. CASE RecordReported(r)
  <2>1. outcomes' \in [Tasks -> [good : Nat, bad : Nat]]
    <3>1. outcomes \in [Tasks -> [good : Nat, bad : Nat]]
      BY DEF TypeOK
    <3>2. \A t \in Tasks :
            /\ [outcomes[t] EXCEPT !.good = @ + 1] \in [good : Nat, bad : Nat]
            /\ [outcomes[t] EXCEPT !.bad = @ + 1] \in [good : Nat, bad : Nat]
      BY <3>1
    <3>. QED
      BY <1>4, <3>1, <3>2 DEF RecordReported
  <2>2. req' \in [Requests -> Request]
    BY <1>0, <1>4 DEF RecordReported, TypeOK
  <2>. QED
    BY <1>4, <2>1, <2>2 DEF RecordReported, TypeOK, taskRow, batch
<1>5. CASE CommitChunk(r)
  BY <1>0, <1>5 DEF CommitChunk, TypeOK, ledger, batch, TaskStatus
<1>6. CASE DropRequest(r)
  BY <1>0, <1>6 DEF DropRequest, TypeOK, taskRow, ledger, batch
<1>. QED
  BY <1>1, <1>2, <1>3, <1>4, <1>5, <1>6

LEMMA NextTypeOK == TypeOK /\ [Next]_vars => TypeOK'
<1>1. ASSUME TypeOK, Next PROVE TypeOK'
  <2>1. DeliveryWorkers \subseteq Workers /\ ExpiryWorkers \subseteq Workers
    BY DEF Workers
  <2>2. CASE Tick \/ (\E t \in Tasks : Send(t))
               \/ (\E a \in Agents : Heartbeat(a) \/ MarkInactive(a) \/ Suspend(a) \/ Deregister(a))
    BY <1>1, <2>2, PlatformTypeOK
  <2>3. CASE \E w \in Workers :
               \/ SelectBatch(w) \/ SelectExpired(w) \/ CommitPlan(w) \/ AbortIteration(w)
               \/ \E t \in Tasks :
                    RefuseInactive(w, t) \/ PostAccepted(w, t) \/ PostRejected(w, t)
    BY <1>1, <2>3, WorkerTypeOK
  <2>4. CASE \E r \in Requests :
               \/ \E t \in Tasks, s \in Reports : LoadReport(r, t, s)
               \/ \E t \in Tasks : LoadChunk(r, t)
               \/ CommitReport(r) \/ RecordReported(r) \/ CommitChunk(r) \/ DropRequest(r)
    BY <1>1, <2>4, RequestTypeOK
  <2>. QED
    BY <1>1, <2>1, <2>2, <2>3, <2>4 DEF Next
<1>2. TypeOK /\ UNCHANGED vars => TypeOK'
  BY DEF TypeOK, vars, taskRow, ledger, batch
<1>. QED
  BY <1>1, <1>2

(* Every variable of TaskLifecycle keeps its type.                         *)
THEOREM TypeCorrect == Spec => []TypeOK
  BY InitTypeOK, NextTypeOK, PTL DEF Spec

(***************************************************************************)
(* Delivery is one-way.                                                    *)
(***************************************************************************)

(* The steps that leave the task table alone.                              *)
Quiet ==
  \/ \E a \in Agents : Heartbeat(a) \/ MarkInactive(a) \/ Suspend(a) \/ Deregister(a)
  \/ \E w \in Workers :
       \/ SelectBatch(w) \/ SelectExpired(w) \/ AbortIteration(w)
       \/ \E t \in Tasks : RefuseInactive(w, t) \/ PostAccepted(w, t) \/ PostRejected(w, t)
  \/ \E r \in Requests :
       \/ \E t \in Tasks : LoadChunk(r, t) \/ \E s \in Reports : LoadReport(r, t, s)
       \/ DropRequest(r)
  \/ UNCHANGED vars

LEMMA QuietLeavesTasks == Quiet => UNCHANGED taskRow /\ UNCHANGED ledger
  BY DEF Quiet, Heartbeat, MarkInactive, Suspend, Deregister, SelectBatch, SelectExpired,
         AbortIteration, RefuseInactive, PostAccepted, PostRejected, LoadChunk,
         LoadReport, DropRequest, vars, taskRow, ledger

(* Every step is quiet or one of six kinds that write the table.           *)
LEMMA StepKinds ==
  [Next]_vars =>
    \/ Quiet
    \/ Tick
    \/ \E t \in Tasks : Send(t)
    \/ \E w \in Workers : CommitPlan(w)
    \/ \E r \in Requests : CommitReport(r) \/ RecordReported(r) \/ CommitChunk(r)
<1>1. DeliveryWorkers \subseteq Workers /\ ExpiryWorkers \subseteq Workers
  BY DEF Workers
<1>. QED
  BY <1>1 DEF Next, Quiet

(* What a step can do to the status of a task.                             *)
LEMMA StatusSteps ==
  ASSUME TypeOK, [Next]_vars, NEW t \in Tasks
  PROVE  \/ status'[t] = status[t]
         \/ status[t] = "absent" /\ status'[t] = "pending"
         \/ status'[t] \in TaskStatus \ {"pending"}
<1>0. status \in [Tasks -> TaskStatus \cup {"absent"}]
  BY DEF TypeOK
<1>1. CASE Quiet
  BY <1>1, QuietLeavesTasks DEF taskRow
<1>2. CASE Tick
  BY <1>2 DEF Tick
<1>3. CASE \E u \in Tasks : Send(u)
  BY <1>0, <1>3 DEF Send
<1>4. ASSUME NEW w \in Workers, CommitPlan(w)
      PROVE  status'[t] = status[t] \/ status'[t] \in TaskStatus \ {"pending"}
  <2>1. status'[t] = StatusAfter(plan[w][t], status[t])
    BY <1>4 DEF CommitPlan
  <2>. QED
    BY <2>1 DEF StatusAfter, TaskStatus, Terminal, Reported
<1>5. ASSUME NEW r \in Requests, CommitReport(r)
      PROVE  status'[t] = status[t] \/ status'[t] \in TaskStatus \ {"pending"}
  <2>1. req[r].says \in Reported
    BY DEF TypeOK, Request
  <2>. QED
    BY <1>0, <1>5, <2>1 DEF CommitReport, TaskStatus, Terminal, Reported
<1>6. ASSUME NEW r \in Requests, RecordReported(r)
      PROVE  status'[t] = status[t]
  BY <1>6 DEF RecordReported, taskRow
<1>7. ASSUME NEW r \in Requests, CommitChunk(r)
      PROVE  status'[t] = status[t] \/ status'[t] \in TaskStatus \ {"pending"}
  BY <1>0, <1>7 DEF CommitChunk, TaskStatus
<1>. QED
  BY <1>1, <1>2, <1>3, <1>4, <1>5, <1>6, <1>7, StepKinds

(* Nothing ever puts a task back into the pool of pending ones, however    *)
(* many replicas, requests and stale sessions there are.                   *)
THEOREM OneWayDelivery == Spec => NeverPendingAgain
<1>1. TypeOK /\ [Next]_vars =>
        [\A t \in Tasks : status'[t] = "pending" => status[t] \in {"pending", "absent"}]_vars
  BY StatusSteps DEF TaskStatus
<1>. QED
  BY <1>1, TypeCorrect, PTL DEF Spec, NeverPendingAgain

(***************************************************************************)
(* Platform closures reach the trust service.                              *)
(***************************************************************************)

LEMMA OutcomesNeverShrink ==
  ASSUME TypeOK, [Next]_vars, NEW t \in Tasks
  PROVE  outcomes'[t].bad >= outcomes[t].bad
<1>0. outcomes \in [Tasks -> [good : Nat, bad : Nat]]
  BY DEF TypeOK
<1>1. CASE Quiet
  BY <1>0, <1>1, QuietLeavesTasks DEF ledger
<1>2. CASE Tick \/ \E u \in Tasks : Send(u)
  BY <1>0, <1>2 DEF Tick, Send, ledger
<1>3. ASSUME NEW w \in Workers, CommitPlan(w)
      PROVE  outcomes'[t].bad >= outcomes[t].bad
  <2>1. outcomes'[t] = OutcomeAfter(plan[w][t], outcomes[t])
    BY <1>3 DEF CommitPlan
  <2>. QED
    BY <1>0, <2>1 DEF OutcomeAfter
<1>4. ASSUME NEW r \in Requests, CommitReport(r) \/ CommitChunk(r)
      PROVE  outcomes'[t].bad >= outcomes[t].bad
  BY <1>0, <1>4 DEF CommitReport, CommitChunk, ledger
<1>5. ASSUME NEW r \in Requests, RecordReported(r)
      PROVE  outcomes'[t].bad >= outcomes[t].bad
  <2>1. CASE req[r].says = "success"
    BY <1>0, <1>5, <2>1 DEF RecordReported
  <2>2. CASE req[r].says # "success"
    BY <1>0, <1>5, <2>2 DEF RecordReported
  <2>. QED
    BY <2>1, <2>2
<1>. QED
  BY <1>1, <1>2, <1>3, <1>4, <1>5, StepKinds

(* A worker's error code enters a row only together with the outcome.      *)
LEMMA ClosureCarriesOutcome ==
  ASSUME TypeOK, PlatformClosureRecorded, [Next]_vars
  PROVE  PlatformClosureRecorded'
<1>0. /\ outcomes \in [Tasks -> [good : Nat, bad : Nat]]
      /\ outcomes' \in [Tasks -> [good : Nat, bad : Nat]]
      /\ error \in [Tasks -> ErrorCode]
  BY NextTypeOK DEF TypeOK
<1>. SUFFICES ASSUME NEW t \in Tasks,
                     error'[t] \in {"RECIPIENT_INACTIVE", "DEAD_ENDPOINT", "TIMEOUT"}
              PROVE  outcomes'[t].bad > 0
  BY DEF PlatformClosureRecorded
<1>1. CASE error'[t] = error[t]
  <2>1. outcomes[t].bad > 0
    BY <1>1 DEF PlatformClosureRecorded
  <2>2. outcomes'[t].bad >= outcomes[t].bad
    BY OutcomesNeverShrink
  <2>3. outcomes[t].bad \in Nat /\ outcomes'[t].bad \in Nat
    BY <1>0
  <2>. QED
    BY <2>1, <2>2, <2>3
<1>2. ASSUME NEW w \in Workers, CommitPlan(w), error'[t] # error[t]
      PROVE  outcomes'[t].bad > 0
  <2>1. /\ error'[t] = ErrorAfter(plan[w][t], error[t])
        /\ outcomes'[t] = OutcomeAfter(plan[w][t], outcomes[t])
    BY <1>2 DEF CommitPlan
  <2>2. plan[w][t] \in Closing
    BY <1>2, <2>1 DEF ErrorAfter, Closing
  <2>3. outcomes'[t] = [outcomes[t] EXCEPT !.bad = outcomes[t].bad + 1]
    BY <2>1, <2>2 DEF OutcomeAfter
  <2>. QED
    BY <1>0, <2>3
<1>3. ASSUME NEW r \in Requests, CommitReport(r), error'[t] # error[t]
      PROVE  FALSE
  BY <1>0, <1>3 DEF CommitReport
<1>4. ASSUME \/ Quiet \/ Tick \/ \E u \in Tasks : Send(u)
             \/ \E r \in Requests : RecordReported(r) \/ CommitChunk(r)
      PROVE  error'[t] = error[t]
  BY <1>4, QuietLeavesTasks DEF taskRow, Tick, Send, RecordReported, CommitChunk
<1>. QED
  BY <1>1, <1>2, <1>3, <1>4, StepKinds

(* A row that carries one of the workers' error codes has an outcome.      *)
THEOREM ClosuresAreRecorded == Spec => []PlatformClosureRecorded
<1>1. Init => PlatformClosureRecorded
  BY DEF Init, PlatformClosureRecorded
<1>2. TypeOK /\ PlatformClosureRecorded /\ [Next]_vars => PlatformClosureRecorded'
  BY ClosureCarriesOutcome
<1>. QED
  BY <1>1, <1>2, TypeCorrect, PTL DEF Spec

(***************************************************************************)
(* The delivery journal.                                                   *)
(*                                                                         *)
(* JournalBelowCap is not inductive: a journal is written from a snapshot  *)
(* that may be older than the row.  What makes it true is what the actors  *)
(* in flight hold: they only hold tasks that were inserted, a retry is     *)
(* only planned below the cap, and a report that does not write the status *)
(* column loaded a status that was not pending, hence is not pending now.  *)
(***************************************************************************)

(* Before its row is inserted a task has no journal.                       *)
AbsentIsEmpty ==
  \A t \in Tasks : status[t] = "absent" => result[t] = Empty

(* A worker's batch holds inserted tasks, loaded without a reported result *)
BatchesSound ==
  \A w \in Workers, t \in Tasks :
    /\ t \in todo[w] => status[t] # "absent" /\ ~snap[w][t].reply
    /\ plan[w][t] # "none" => status[t] # "absent"
    /\ plan[w][t] = "retry" =>
         /\ snap[w][t].attempts + 1 < MAX_DELIVERY_ATTEMPTS
         /\ ~snap[w][t].reply

(* A request in flight holds an inserted task; a closed or running one is  *)
(* still not pending when the request commits.                             *)
RequestsSound ==
  \A r \in Requests :
    /\ req[r].kind \in {"report", "chunk"} =>
         /\ req[r].task \in Tasks
         /\ status[req[r].task] # "absent"
    /\ req[r].kind = "report" /\ req[r].was # "pending" =>
         status[req[r].task] # "pending"

JournalInv ==
  TypeOK /\ JournalBelowCap /\ AbsentIsEmpty /\ BatchesSound /\ RequestsSound

LEMMA JournalInvInit == Init => JournalInv
<1>. SUFFICES ASSUME Init PROVE JournalInv
  OBVIOUS
<1>1. TypeOK
  BY InitTypeOK
<1>2. JournalBelowCap /\ AbsentIsEmpty
  BY DEF Init, JournalBelowCap, AbsentIsEmpty
<1>3. BatchesSound
  BY DEF Init, BatchesSound, NoPlan
<1>4. RequestsSound
  BY DEF Init, RequestsSound, Idle
<1>. QED
  BY <1>1, <1>2, <1>3, <1>4 DEF JournalInv

(* The steps that leave the workers' batches alone.                        *)
LEMMA BatchSteps ==
  [Next]_vars =>
    \/ UNCHANGED <<todo, snap, plan>>
    \/ \E w \in Workers :
         \/ SelectBatch(w) \/ SelectExpired(w) \/ CommitPlan(w) \/ AbortIteration(w)
         \/ \E t \in Tasks : RefuseInactive(w, t) \/ PostAccepted(w, t) \/ PostRejected(w, t)
<1>1. DeliveryWorkers \subseteq Workers /\ ExpiryWorkers \subseteq Workers
  BY DEF Workers
<1>. QED
  BY <1>1
  DEF Next, vars, batch, Heartbeat, MarkInactive, Suspend, Deregister, Send, Tick, LoadReport,
      LoadChunk, CommitReport, RecordReported, CommitChunk, DropRequest

LEMMA AbsentStep ==
  ASSUME JournalInv, [Next]_vars
  PROVE  AbsentIsEmpty'
<1>. SUFFICES ASSUME NEW t \in Tasks, status'[t] = "absent"
              PROVE  result'[t] = Empty
  BY DEF AbsentIsEmpty
<1>. TypeOK
  BY DEF JournalInv
<1>1. status[t] = "absent"
  BY StatusSteps DEF TaskStatus, Terminal, Reported
<1>2. result[t] = Empty
  BY <1>1 DEF JournalInv, AbsentIsEmpty
<1>3. ASSUME \/ Quiet \/ Tick \/ \E u \in Tasks : Send(u)
             \/ \E r \in Requests : RecordReported(r) \/ CommitChunk(r)
      PROVE  result'[t] = Empty
  BY <1>2, <1>3, QuietLeavesTasks DEF taskRow, Tick, Send, RecordReported, CommitChunk
<1>4. ASSUME NEW w \in Workers, CommitPlan(w) PROVE result'[t] = Empty
  <2>1. plan[w][t] = "none"
    BY <1>1 DEF JournalInv, BatchesSound
  <2>2. result'[t] = ResultAfter(plan[w][t], snap[w][t], result[t])
    BY <1>4 DEF CommitPlan
  <2>. QED
    BY <1>2, <2>1, <2>2 DEF ResultAfter
<1>5. ASSUME NEW r \in Requests, CommitReport(r) PROVE result'[t] = Empty
  <2>1. req[r].task # t
    BY <1>1, <1>5 DEF CommitReport, JournalInv, RequestsSound
  <2>. QED
    BY <1>2, <1>5, <2>1 DEF CommitReport, TypeOK
<1>. QED
  BY <1>3, <1>4, <1>5, StepKinds

LEMMA JournalStep ==
  ASSUME JournalInv, [Next]_vars
  PROVE  JournalBelowCap'
<1>. SUFFICES ASSUME NEW t \in Tasks, status'[t] = "pending"
              PROVE  result'[t].attempts < MAX_DELIVERY_ATTEMPTS /\ ~result'[t].reply
  BY DEF JournalBelowCap
<1>. TypeOK
  BY DEF JournalInv
<1>0. /\ status \in [Tasks -> TaskStatus \cup {"absent"}]
      /\ result \in [Tasks -> Result]
  BY DEF TypeOK
<1>1. status[t] = "pending" =>
        result[t].attempts < MAX_DELIVERY_ATTEMPTS /\ ~result[t].reply
  BY DEF JournalInv, JournalBelowCap
<1>2. ASSUME Quiet \/ Tick \/ \E r \in Requests : RecordReported(r)
      PROVE  status'[t] = status[t] /\ result'[t] = result[t]
  BY <1>2, QuietLeavesTasks DEF taskRow, Tick, RecordReported
<1>3. ASSUME NEW u \in Tasks, Send(u)
      PROVE  result'[t].attempts < MAX_DELIVERY_ATTEMPTS /\ ~result'[t].reply
  <2>1. CASE u = t
    <3>1. result'[t] = Empty
      BY <1>3, <2>1 DEF Send, JournalInv, AbsentIsEmpty
    <3>. QED
      BY <3>1, ConstantsAssumption DEF Empty
  <2>2. CASE u # t
    BY <1>0, <1>1, <1>3, <2>2 DEF Send
  <2>. QED
    BY <2>1, <2>2
<1>4. ASSUME NEW w \in Workers, CommitPlan(w)
      PROVE  result'[t].attempts < MAX_DELIVERY_ATTEMPTS /\ ~result'[t].reply
  <2>1. /\ status'[t] = StatusAfter(plan[w][t], status[t])
        /\ result'[t] = ResultAfter(plan[w][t], snap[w][t], result[t])
    BY <1>4 DEF CommitPlan
  <2>2. plan[w][t] \in {"none", "retry"} /\ status[t] = "pending"
    BY <2>1 DEF StatusAfter, TypeOK, Verdict
  <2>3. CASE plan[w][t] = "none"
    BY <1>1, <2>1, <2>2, <2>3 DEF ResultAfter
  <2>4. CASE plan[w][t] = "retry"
    <3>1. /\ snap[w][t].attempts + 1 < MAX_DELIVERY_ATTEMPTS
          /\ ~snap[w][t].reply
      BY <2>4 DEF JournalInv, BatchesSound
    <3>2. snap[w][t] \in Result
      BY DEF TypeOK
    <3>3. result'[t] = [snap[w][t] EXCEPT !.attempts = snap[w][t].attempts + 1]
      BY <2>1, <2>4 DEF ResultAfter
    <3>4. /\ result'[t].attempts = snap[w][t].attempts + 1
          /\ result'[t].reply = snap[w][t].reply
      BY <3>2, <3>3 DEF Result
    <3>. QED
      BY <3>1, <3>4
  <2>. QED
    BY <2>2, <2>3, <2>4
<1>5. ASSUME NEW r \in Requests, CommitReport(r)
      PROVE  status'[t] = status[t] /\ result'[t] = result[t]
  <2>1. CASE req[r].task = t
    <3>1. req[r].says # "pending"
      BY DEF TypeOK, Request, Reported
    <3>2. req[r].says = req[r].was
      BY <1>0, <1>5, <2>1, <3>1 DEF CommitReport
    <3>3. status[t] # "pending" /\ status'[t] = status[t]
      BY <1>5, <2>1, <3>1, <3>2 DEF CommitReport, JournalInv, RequestsSound
    <3>. QED
      BY <3>3
  <2>2. CASE req[r].task # t
    BY <1>0, <1>5, <2>2 DEF CommitReport
  <2>. QED
    BY <2>1, <2>2
<1>6. ASSUME NEW r \in Requests, CommitChunk(r)
      PROVE  status'[t] = status[t] /\ result'[t] = result[t]
  BY <1>0, <1>6 DEF CommitChunk
<1>. QED
  BY <1>1, <1>2, <1>3, <1>4, <1>5, <1>6, StepKinds

LEMMA BatchesStep ==
  ASSUME JournalInv, [Next]_vars
  PROVE  BatchesSound'
<1>. TypeOK
  BY DEF JournalInv
<1>0. /\ todo \in [Workers -> SUBSET Tasks]
      /\ plan \in [Workers -> [Tasks -> Verdict]]
      /\ snap \in [Workers -> [Tasks -> Result]]
  BY DEF TypeOK
<1>1. \A t \in Tasks : status[t] # "absent" => status'[t] # "absent"
  BY StatusSteps DEF TaskStatus, Terminal, Reported
<1>2. CASE UNCHANGED <<todo, snap, plan>>
  BY <1>1, <1>2 DEF JournalInv, BatchesSound
<1>3. ASSUME NEW w \in Workers, SelectBatch(w) PROVE BatchesSound'
  <2>1. \A t \in todo'[w] : status[t] = "pending"
    BY <1>0, <1>3 DEF SelectBatch, Deliverable
  <2>2. \A t \in todo'[w] : ~snap'[w][t].reply
    BY <1>0, <1>3, <2>1 DEF SelectBatch, Deliverable, JournalInv, JournalBelowCap
  <2>3. \A t \in Tasks : plan'[w][t] = "none"
    BY <1>3 DEF SelectBatch, WorkerIdle, NoPlan
  <2>4. \A x \in Workers \ {w} :
          todo'[x] = todo[x] /\ snap'[x] = snap[x] /\ plan'[x] = plan[x]
    BY <1>0, <1>3 DEF SelectBatch
  <2>. QED
    BY <1>1, <2>1, <2>2, <2>3, <2>4 DEF JournalInv, BatchesSound
<1>4. ASSUME NEW w \in Workers, SelectExpired(w) PROVE BatchesSound'
  <2>1. \A t \in Tasks :
          /\ plan'[w][t] \in {"timeout", "none"}
          /\ plan'[w][t] = "timeout" => status[t] = "pending"
    BY <1>0, <1>4 DEF SelectExpired, Expired
  <2>2. \A x \in Workers \ {w} : plan'[x] = plan[x]
    BY <1>0, <1>4 DEF SelectExpired
  <2>3. todo' = todo /\ snap' = snap
    BY <1>4 DEF SelectExpired
  <2>. QED
    BY <1>1, <2>1, <2>2, <2>3 DEF JournalInv, BatchesSound
<1>5. ASSUME NEW w \in Workers, CommitPlan(w) \/ AbortIteration(w)
      PROVE  BatchesSound'
  <2>1. todo'[w] = {} /\ \A t \in Tasks : plan'[w][t] = "none"
    BY <1>0, <1>5 DEF CommitPlan, AbortIteration, NoPlan
  <2>2. \A x \in Workers \ {w} :
          todo'[x] = todo[x] /\ snap'[x] = snap[x] /\ plan'[x] = plan[x]
    BY <1>0, <1>5 DEF CommitPlan, AbortIteration
  <2>. QED
    BY <1>1, <2>1, <2>2 DEF JournalInv, BatchesSound
<1>6. ASSUME NEW w \in Workers, NEW u \in Tasks,
             RefuseInactive(w, u) \/ PostAccepted(w, u) \/ PostRejected(w, u)
      PROVE  BatchesSound'
  <2>1. PICK v \in {"inactive", "running", "dead", "retry"} :
          /\ Judge(w, u, v)
          /\ v = "retry" => ~(snap[w][u].attempts + 1 >= MAX_DELIVERY_ATTEMPTS)
    BY <1>6 DEF RefuseInactive, PostAccepted, PostRejected, GivesUp
  <2>2. /\ todo' = [todo EXCEPT ![w] = todo[w] \ {u}]
        /\ plan' = [plan EXCEPT ![w] = [plan[w] EXCEPT ![u] = v]]
        /\ snap' = snap
        /\ u \in todo[w]
    BY <1>6, <2>1 DEF Judge, RefuseInactive, PostAccepted, PostRejected
  <2>3. status[u] # "absent" /\ ~snap[w][u].reply
    BY <2>2 DEF JournalInv, BatchesSound
  <2>4. v = "retry" => snap[w][u].attempts + 1 < MAX_DELIVERY_ATTEMPTS
    <3>1. snap[w][u].attempts \in Nat /\ MAX_DELIVERY_ATTEMPTS \in Nat
      BY <1>0, ConstantsAssumption DEF Result
    <3>. QED
      BY <2>1, <3>1
  <2>5. ASSUME NEW x \in Workers, NEW t \in Tasks
        PROVE  /\ t \in todo'[x] => t \in todo[x]
               /\ plan'[x][t] # plan[x][t] => x = w /\ t = u /\ plan'[x][t] = v
    <3>1. /\ todo'[x] = IF x = w THEN todo[w] \ {u} ELSE todo[x]
          /\ plan'[x] = IF x = w THEN [plan[w] EXCEPT ![u] = v] ELSE plan[x]
      BY <1>0, <2>2
    <3>2. plan[x] \in [Tasks -> Verdict]
      BY <1>0
    <3>. QED
      BY <3>1, <3>2
  <2>. QED
    BY <1>1, <2>2, <2>3, <2>4, <2>5 DEF JournalInv, BatchesSound
<1>. QED
  BY <1>2, <1>3, <1>4, <1>5, <1>6, BatchSteps

LEMMA RequestsStep ==
  ASSUME JournalInv, [Next]_vars
  PROVE  RequestsSound'
<1>. TypeOK
  BY DEF JournalInv
<1>0. req \in [Requests -> Request]
  BY DEF TypeOK
<1>1. \A t \in Tasks :
        /\ status[t] # "absent" => status'[t] # "absent"
        /\ status[t] \notin {"absent", "pending"} => status'[t] # "pending"
  BY StatusSteps DEF TaskStatus, Terminal, Reported
<1>2. CASE UNCHANGED req
  BY <1>1, <1>2 DEF JournalInv, RequestsSound
<1>3. ASSUME NEW r \in Requests, req' = [req EXCEPT ![r] = req'[r]],
             \/ req'[r].kind \in {"idle", "outcome"}
             \/ /\ req'[r].task \in Tasks
                /\ status[req'[r].task] # "absent"
                /\ req'[r].was = status[req'[r].task]
      PROVE  RequestsSound'
  <2>1. \A x \in Requests \ {r} : req'[x] = req[x]
    BY <1>0, <1>3
  <2>. QED
    BY <1>1, <1>3, <2>1 DEF JournalInv, RequestsSound
<1>4. ASSUME NEW r \in Requests,
             \/ \E t \in Tasks, s \in Reports : LoadReport(r, t, s)
             \/ \E t \in Tasks : LoadChunk(r, t)
             \/ CommitReport(r) \/ RecordReported(r) \/ CommitChunk(r) \/ DropRequest(r)
      PROVE  RequestsSound'
  <2>1. CASE \/ \E t \in Tasks, s \in Reports : LoadReport(r, t, s)
             \/ \E t \in Tasks : LoadChunk(r, t)
    BY <1>0, <1>3, <2>1 DEF LoadReport, LoadChunk
  <2>2. CASE CommitReport(r)
    BY <1>0, <1>3, <2>2 DEF CommitReport, Request
  <2>3. CASE RecordReported(r) \/ CommitChunk(r) \/ DropRequest(r)
    BY <1>0, <1>3, <2>3 DEF RecordReported, CommitChunk, DropRequest, Idle
  <2>. QED
    BY <1>4, <2>1, <2>2, <2>3
<1>5. \/ UNCHANGED req
      \/ \E r \in Requests :
           \/ \E t \in Tasks, s \in Reports : LoadReport(r, t, s)
           \/ \E t \in Tasks : LoadChunk(r, t)
           \/ CommitReport(r) \/ RecordReported(r) \/ CommitChunk(r) \/ DropRequest(r)
  BY DEF Next, vars, Heartbeat, MarkInactive, Suspend, Deregister, Send, Tick, SelectBatch,
         SelectExpired, RefuseInactive, PostAccepted, PostRejected, CommitPlan,
         AbortIteration
<1>. QED
  BY <1>2, <1>4, <1>5

LEMMA JournalInvNext == JournalInv /\ [Next]_vars => JournalInv'
  BY NextTypeOK, JournalStep, AbsentStep, BatchesStep, RequestsStep DEF JournalInv

(* A pending task's journal stays below the cap of MAX_DELIVERY_ATTEMPTS,  *)
(* whatever stale journals the replicas write.                             *)
THEOREM JournalsStayBelowCap == Spec => []JournalBelowCap
<1>1. JournalInv => JournalBelowCap
  BY DEF JournalInv
<1>. QED
  BY <1>1, JournalInvInit, JournalInvNext, PTL DEF Spec

(***************************************************************************)
(* A closed task at rest.                                                  *)
(***************************************************************************)

RestingStep ==
  \A t \in Tasks : AtRest(t) =>
    /\ UNCHANGED <<status[t], result[t], error[t]>>
    /\ \/ AtRest(t)'
       \/ \E r \in Requests : req'[r].kind = "report" /\ req'[r].task = t

(* The workers cannot touch a task at rest.                                *)
LEMMA RestingWorkers ==
  ASSUME TypeOK, NEW t \in Tasks, AtRest(t), [Next]_vars
  PROVE  \A w \in Workers : t \notin todo'[w] /\ plan'[w][t] = "none"
<1>0. /\ todo \in [Workers -> SUBSET Tasks]
      /\ plan \in [Workers -> [Tasks -> Verdict]]
      /\ status[t] # "pending"
  BY DEF TypeOK, AtRest, Terminal, Reported
<1>1. \A w \in Workers : t \notin todo[w] /\ plan[w][t] = "none"
  BY DEF AtRest
<1>2. CASE UNCHANGED <<todo, snap, plan>>
  BY <1>1, <1>2
<1>3. ASSUME NEW w \in Workers, NEW x \in Workers,
             SelectBatch(w) \/ SelectExpired(w) \/ CommitPlan(w) \/ AbortIteration(w)
      PROVE  t \notin todo'[x] /\ plan'[x][t] = "none"
  <2>1. CASE SelectBatch(w)
    BY <1>0, <1>1, <2>1 DEF SelectBatch, Deliverable
  <2>2. CASE SelectExpired(w)
    BY <1>0, <1>1, <2>2 DEF SelectExpired, Expired
  <2>3. CASE CommitPlan(w) \/ AbortIteration(w)
    BY <1>0, <1>1, <2>3 DEF CommitPlan, AbortIteration, NoPlan
  <2>. QED
    BY <1>3, <2>1, <2>2, <2>3
<1>4. ASSUME NEW w \in Workers, NEW x \in Workers, NEW u \in Tasks,
             RefuseInactive(w, u) \/ PostAccepted(w, u) \/ PostRejected(w, u)
      PROVE  t \notin todo'[x] /\ plan'[x][t] = "none"
  <2>1. u \in todo[w] /\ u # t
    BY <1>1, <1>4 DEF RefuseInactive, PostAccepted, PostRejected
  <2>2. PICK v : /\ todo' = [todo EXCEPT ![w] = todo[w] \ {u}]
                 /\ plan' = [plan EXCEPT ![w] = [plan[w] EXCEPT ![u] = v]]
    BY <1>4 DEF RefuseInactive, PostAccepted, PostRejected, Judge
  <2>3. plan[w] \in [Tasks -> Verdict]
    BY <1>0
  <2>. QED
    BY <1>0, <1>1, <2>1, <2>2, <2>3
<1>. QED
  BY <1>2, <1>3, <1>4, BatchSteps

LEMMA RestingPreserved ==
  ASSUME TypeOK, [Next]_vars
  PROVE  RestingStep
<1>. SUFFICES ASSUME NEW t \in Tasks, AtRest(t)
              PROVE  /\ UNCHANGED <<status[t], result[t], error[t]>>
                     /\ \/ AtRest(t)'
                        \/ \E r \in Requests : req'[r].kind = "report" /\ req'[r].task = t
  BY DEF RestingStep
<1>0. /\ status \in [Tasks -> TaskStatus \cup {"absent"}]
      /\ result \in [Tasks -> Result]
      /\ error \in [Tasks -> ErrorCode]
      /\ req \in [Requests -> Request]
      /\ status[t] \in Terminal
      /\ status[t] \notin {"absent", "pending"}
  BY DEF TypeOK, AtRest, Terminal, Reported
<1>1. \A r \in Requests :
        req[r].task = t =>
          \/ req[r].kind = "outcome"
          \/ req[r].kind = "chunk" /\ req[r].was # "pending"
  BY DEF AtRest
<1>2. UNCHANGED <<status[t], result[t], error[t]>>
  <2>1. CASE Quiet
    BY <2>1, QuietLeavesTasks DEF taskRow
  <2>2. CASE Tick \/ \E u \in Tasks : Send(u)
    BY <1>0, <2>2 DEF Tick, Send
  <2>3. ASSUME NEW w \in Workers, CommitPlan(w)
        PROVE  UNCHANGED <<status[t], result[t], error[t]>>
    BY <2>3 DEF CommitPlan, AtRest, StatusAfter, ResultAfter, ErrorAfter
  <2>4. ASSUME NEW r \in Requests, CommitReport(r) \/ RecordReported(r) \/ CommitChunk(r)
        PROVE  UNCHANGED <<status[t], result[t], error[t]>>
    <3>1. CASE CommitReport(r)
      <4>1. req[r].task # t
        BY <1>1, <3>1 DEF CommitReport
      <4>. QED
        BY <1>0, <3>1, <4>1 DEF CommitReport
    <3>2. CASE RecordReported(r)
      BY <3>2 DEF RecordReported, taskRow
    <3>3. CASE CommitChunk(r)
      BY <1>0, <1>1, <3>3 DEF CommitChunk
    <3>. QED
      BY <2>4, <3>1, <3>2, <3>3
  <2>. QED
    BY <2>1, <2>2, <2>3, <2>4, StepKinds
<1>3. \/ \A r \in Requests :
           req'[r].task = t =>
             \/ req'[r].kind = "outcome"
             \/ req'[r].kind = "chunk" /\ req'[r].was # "pending"
      \/ \E r \in Requests : req'[r].kind = "report" /\ req'[r].task = t
  <2>1. CASE UNCHANGED req
    BY <1>1, <2>1
  <2>2. ASSUME NEW r \in Requests, NEW u \in Tasks, NEW s \in Reports, LoadReport(r, u, s)
        PROVE  <1>3
    BY <1>0, <1>1, <2>2 DEF LoadReport
  <2>3. ASSUME NEW r \in Requests, NEW u \in Tasks, LoadChunk(r, u)
        PROVE  <1>3
    BY <1>0, <1>1, <2>3 DEF LoadChunk
  <2>4. ASSUME NEW r \in Requests, CommitReport(r)
        PROVE  <1>3
    BY <1>0, <1>1, <2>4 DEF CommitReport, Request
  <2>5. ASSUME NEW r \in Requests, RecordReported(r) \/ CommitChunk(r) \/ DropRequest(r)
        PROVE  <1>3
    BY <1>0, <1>1, <2>5, ConstantsAssumption
    DEF RecordReported, CommitChunk, DropRequest, Idle
  <2>. QED
    BY <2>1, <2>2, <2>3, <2>4, <2>5
    DEF Next, vars, Heartbeat, MarkInactive, Suspend, Deregister, Send, Tick, SelectBatch,
        SelectExpired, RefuseInactive, PostAccepted, PostRejected, CommitPlan,
        AbortIteration
<1>. QED
  BY <1>0, <1>2, <1>3, RestingWorkers DEF AtRest

(* Everything that overwrites a closed task was already in flight when it  *)
(* was closed, or is a new result report.                                  *)
THEOREM RestingTasksAreStable == Spec => RestingTaskIsStable
<1>1. TypeOK /\ [Next]_vars => [RestingStep]_vars
  BY RestingPreserved
<1>. QED
  BY <1>1, TypeCorrect, PTL DEF Spec, RestingTaskIsStable, RestingStep

(***************************************************************************)
(* What a task costs its recipient.                                        *)
(*                                                                         *)
(* OutcomesBounded is not inductive: it has to count what is still to come. *)
(* A worker that holds a task may charge it once, when it commits, and can *)
(* take it up only while it is pending; as long as it is, nobody has been  *)
(* charged.  A report that has been committed owes one outcome.            *)
(***************************************************************************)
Charged(t) == outcomes[t].good + outcomes[t].bad
Owing(t)   == {r \in Requests : req[r].kind = "outcome" /\ req[r].task = t}
Holding(t) == {w \in Workers : t \in todo[w] \/ plan[w][t] # "none"}

(* Until a task leaves the pool of pending ones it costs nothing.          *)
WaitingIsFree ==
  \A t \in Tasks : status[t] \in {"absent", "pending"} => Charged(t) = 0 /\ Owing(t) = {}

(* Outcomes committed, owed, and possibly planned.                         *)
ChargesBounded ==
  \A t \in Tasks :
    Charged(t) + Cardinality(Owing(t)) + Cardinality(Holding(t))
      <= Cardinality(Workers) + reports[t]

ChargesInv == JournalInv /\ WaitingIsFree /\ ChargesBounded

LEMMA CountsFinite ==
  ASSUME TypeOK, NEW t \in Tasks
  PROVE  /\ IsFiniteSet(Workers) /\ Cardinality(Workers) \in Nat
         /\ IsFiniteSet(Owing(t)) /\ Cardinality(Owing(t)) \in Nat
         /\ IsFiniteSet(Holding(t)) /\ Cardinality(Holding(t)) \in Nat
         /\ Cardinality(Holding(t)) <= Cardinality(Workers)
         /\ Charged(t) \in Nat /\ reports[t] \in Nat
<1>1. IsFiniteSet(Workers)
  BY FinitenessAssumption, FS_Union DEF Workers
<1>2. IsFiniteSet(Owing(t))
  BY FinitenessAssumption, FS_Subset DEF Owing
<1>3. IsFiniteSet(Holding(t)) /\ Cardinality(Holding(t)) <= Cardinality(Workers)
  BY <1>1, FS_Subset DEF Holding
<1>4. Charged(t) \in Nat /\ reports[t] \in Nat
  BY DEF Charged, TypeOK
<1>. QED
  BY <1>1, <1>2, <1>3, <1>4, FS_CardinalityType

LEMMA CountsFiniteNext ==
  ASSUME TypeOK', NEW t \in Tasks
  PROVE  /\ IsFiniteSet(Owing(t)') /\ Cardinality(Owing(t)') \in Nat
         /\ Cardinality(Holding(t)') \in Nat /\ Cardinality(Holding(t)') <= Cardinality(Workers)
         /\ Charged(t)' \in Nat /\ reports'[t] \in Nat
<1>1. IsFiniteSet(Workers)
  BY FinitenessAssumption, FS_Union DEF Workers
<1>2. IsFiniteSet(Owing(t)')
  BY FinitenessAssumption, FS_Subset DEF Owing
<1>3. IsFiniteSet(Holding(t)') /\ Cardinality(Holding(t)') <= Cardinality(Workers)
  BY <1>1, FS_Subset DEF Holding
<1>4. Charged(t)' \in Nat /\ reports'[t] \in Nat
  BY DEF Charged, TypeOK
<1>. QED
  BY <1>2, <1>3, <1>4, FS_CardinalityType

LEMMA InitCharges == Init => ChargesInv
<1>. SUFFICES ASSUME Init PROVE ChargesInv
  OBVIOUS
<1>1. JournalInv
  BY JournalInvInit
<1>2. ASSUME NEW t \in Tasks PROVE Charged(t) = 0 /\ Owing(t) = {}
  BY DEF Init, Charged, Owing, Idle
<1>3. ASSUME NEW t \in Tasks
      PROVE  Charged(t) + Cardinality(Owing(t)) + Cardinality(Holding(t))
               <= Cardinality(Workers) + reports[t]
  <2>1. Cardinality(Owing(t)) = 0
    BY <1>2, FS_EmptySet
  <2>. QED
    BY <1>1, <1>2, <2>1, CountsFinite DEF JournalInv
<1>. QED
  BY <1>1, <1>2, <1>3 DEF ChargesInv, WaitingIsFree, ChargesBounded

(* What the steps do to the counts of one task.                            *)
LEMMA ChargeSteps ==
  ASSUME TypeOK, RequestsSound, [Next]_vars, NEW t \in Tasks
  PROVE  \/ /\ Charged(t)' = Charged(t) /\ reports'[t] = reports[t] /\ Owing(t)' \subseteq Owing(t)
            /\ Holding(t)' \subseteq Holding(t) \/ status'[t] = "pending"
         \/ \E w \in Holding(t) :
              /\ Charged(t)' \in {Charged(t), Charged(t) + 1} /\ reports'[t] = reports[t]
              /\ Owing(t)' = Owing(t) /\ Holding(t)' = Holding(t) \ {w}
              /\ status'[t] \in {"absent", "pending"} => Charged(t)' = Charged(t)
         \/ \E r \in Requests :
              /\ Charged(t)' = Charged(t) /\ reports'[t] = reports[t] + 1
              /\ Owing(t)' = Owing(t) \cup {r} /\ Holding(t)' = Holding(t)
              /\ status'[t] \notin {"absent", "pending"}
         \/ \E r \in Owing(t) :
              /\ Charged(t)' = Charged(t) + 1 /\ reports'[t] = reports[t]
              /\ Owing(t)' = Owing(t) \ {r} /\ Holding(t)' = Holding(t)
              /\ status'[t] = status[t]
<1>0. /\ status \in [Tasks -> TaskStatus \cup {"absent"}]
      /\ outcomes \in [Tasks -> [good : Nat, bad : Nat]]
      /\ reports \in [Tasks -> Nat]
      /\ todo \in [Workers -> SUBSET Tasks]
      /\ plan \in [Workers -> [Tasks -> Verdict]]
      /\ req \in [Requests -> Request]
  BY DEF TypeOK
<1>1. UNCHANGED <<outcomes, reports>> => Charged(t)' = Charged(t) /\ reports'[t] = reports[t]
  BY DEF Charged
<1>2. UNCHANGED req => Owing(t)' = Owing(t)
  BY DEF Owing
<1>3. UNCHANGED <<todo, plan>> => Holding(t)' = Holding(t)
  BY DEF Holding
<1>4. CASE Tick \/ (\E u \in Tasks : Send(u)) \/ UNCHANGED vars
           \/ \E a \in Agents : Heartbeat(a) \/ MarkInactive(a) \/ Suspend(a) \/ Deregister(a)
  BY <1>1, <1>2, <1>3, <1>4
  DEF Tick, Send, Heartbeat, MarkInactive, Suspend, Deregister, ledger, batch, vars
<1>5. ASSUME NEW w \in Workers, SelectBatch(w) PROVE Holding(t)' \subseteq Holding(t) \/ status'[t] = "pending"
  <2>1. plan' = plan /\ \A x \in Workers \ {w} : todo'[x] = todo[x]
    BY <1>0, <1>5 DEF SelectBatch
  <2>2. t \in todo'[w] => status'[t] = "pending"
    BY <1>0, <1>5 DEF SelectBatch, Deliverable, taskRow
  <2>. QED
    BY <2>1, <2>2 DEF Holding
<1>6. ASSUME NEW w \in Workers, SelectExpired(w) PROVE Holding(t)' \subseteq Holding(t) \/ status'[t] = "pending"
  <2>1. todo' = todo /\ \A x \in Workers \ {w} : plan'[x] = plan[x]
    BY <1>0, <1>6 DEF SelectExpired
  <2>2. plan'[w][t] # "none" => status'[t] = "pending"
    BY <1>0, <1>6 DEF SelectExpired, Expired, taskRow
  <2>. QED
    BY <2>1, <2>2 DEF Holding
<1>7. ASSUME NEW w \in Workers, NEW u \in Tasks,
             RefuseInactive(w, u) \/ PostAccepted(w, u) \/ PostRejected(w, u)
      PROVE  Holding(t)' \subseteq Holding(t)
  <2>1. PICK v \in Verdict : Judge(w, u, v)
    BY <1>7 DEF RefuseInactive, PostAccepted, PostRejected, Verdict
  <2>2. /\ todo' = [todo EXCEPT ![w] = todo[w] \ {u}]
        /\ plan' = [plan EXCEPT ![w] = [plan[w] EXCEPT ![u] = v]]
        /\ u \in todo[w]
    BY <1>7, <2>1 DEF Judge, RefuseInactive, PostAccepted, PostRejected
  <2>3. ASSUME NEW x \in Workers
        PROVE  /\ t \in todo'[x] => t \in todo[x]
               /\ plan'[x][t] # plan[x][t] => x = w /\ t = u
    <3>1. /\ todo'[x] = IF x = w THEN todo[w] \ {u} ELSE todo[x]
          /\ plan'[x] = IF x = w THEN [plan[w] EXCEPT ![u] = v] ELSE plan[x]
      BY <1>0, <2>2
    <3>2. plan[x] \in [Tasks -> Verdict]
      BY <1>0
    <3>. QED
      BY <3>1, <3>2
  <2>. QED
    BY <2>2, <2>3 DEF Holding
<1>8. CASE \E w \in Workers :
             \/ SelectBatch(w) \/ SelectExpired(w)
             \/ \E u \in Tasks : RefuseInactive(w, u) \/ PostAccepted(w, u) \/ PostRejected(w, u)
  <2>1. UNCHANGED <<outcomes, reports, req>>
    BY <1>8 DEF SelectBatch, SelectExpired, RefuseInactive, PostAccepted, PostRejected, ledger
  <2>. QED
    BY <1>1, <1>2, <1>5, <1>6, <1>7, <1>8, <2>1
<1>9. ASSUME NEW w \in Workers, AbortIteration(w) PROVE Holding(t)' \subseteq Holding(t)
  <2>1. \A x \in Workers \ {w} : todo'[x] = todo[x] /\ plan'[x] = plan[x]
    BY <1>0, <1>9 DEF AbortIteration
  <2>2. todo'[w] = {} /\ plan'[w][t] = "none"
    BY <1>0, <1>9 DEF AbortIteration, NoPlan
  <2>. QED
    BY <2>1, <2>2 DEF Holding
<1>10. CASE \E w \in Workers : AbortIteration(w)
  <2>1. UNCHANGED <<outcomes, reports, req>>
    BY <1>10 DEF AbortIteration, ledger
  <2>. QED
    BY <1>1, <1>2, <1>9, <1>10, <2>1
<1>11. ASSUME NEW w \in Workers, CommitPlan(w)
       PROVE  \/ /\ Charged(t)' = Charged(t) /\ reports'[t] = reports[t] /\ Owing(t)' \subseteq Owing(t)
                 /\ Holding(t)' \subseteq Holding(t)
              \/ /\ w \in Holding(t)
                 /\ Charged(t)' \in {Charged(t), Charged(t) + 1} /\ reports'[t] = reports[t]
                 /\ Owing(t)' = Owing(t) /\ Holding(t)' = Holding(t) \ {w}
                 /\ status'[t] \in {"absent", "pending"} => Charged(t)' = Charged(t)
  <2>1. /\ todo' = todo /\ todo[w] = {}
        /\ plan'[w][t] = "none"
        /\ \A x \in Workers \ {w} : plan'[x] = plan[x]
    BY <1>0, <1>11 DEF CommitPlan, NoPlan
  <2>2. Holding(t)' = Holding(t) \ {w}
    BY <2>1 DEF Holding
  <2>3. reports' = reports /\ Owing(t)' = Owing(t)
    BY <1>2, <1>11 DEF CommitPlan
  <2>4. /\ outcomes'[t] = OutcomeAfter(plan[w][t], outcomes[t])
        /\ status'[t] = StatusAfter(plan[w][t], status[t])
    BY <1>11 DEF CommitPlan
  <2>5. outcomes[t] \in [good : Nat, bad : Nat]
    BY <1>0
  <2>6. CASE plan[w][t] \notin Closing
    <3>1. Charged(t)' = Charged(t)
      BY <2>4, <2>6 DEF OutcomeAfter, Charged
    <3>. QED
      BY <2>2, <2>3, <3>1
  <2>7. CASE plan[w][t] \in Closing
    <3>1. w \in Holding(t)
      BY <2>7 DEF Closing, Holding
    <3>2. Charged(t)' = Charged(t) + 1
      BY <2>4, <2>5, <2>7 DEF OutcomeAfter, Charged
    <3>3. status'[t] \notin {"absent", "pending"}
      BY <2>4, <2>7 DEF StatusAfter, Closing
    <3>. QED
      BY <2>2, <2>3, <3>1, <3>2, <3>3
  <2>. QED
    BY <2>6, <2>7
<1>12. ASSUME NEW r \in Requests,
              \/ \E u \in Tasks : LoadChunk(r, u) \/ \E s \in Reports : LoadReport(r, u, s)
              \/ CommitChunk(r) \/ DropRequest(r)
       PROVE  /\ Charged(t)' = Charged(t) /\ reports'[t] = reports[t] /\ Owing(t)' \subseteq Owing(t)
              /\ Holding(t)' \subseteq Holding(t)
  <2>1. UNCHANGED <<outcomes, reports, todo, plan>>
    BY <1>12 DEF LoadChunk, LoadReport, CommitChunk, DropRequest, ledger, batch
  <2>2. /\ req'[r].kind # "outcome"
        /\ \A x \in Requests \ {r} : req'[x] = req[x]
    BY <1>0, <1>12 DEF LoadChunk, LoadReport, CommitChunk, DropRequest, Idle
  <2>3. Owing(t)' \subseteq Owing(t)
    BY <2>2 DEF Owing
  <2>. QED
    BY <1>1, <1>3, <2>1, <2>3
<1>13. ASSUME NEW r \in Requests, CommitReport(r)
       PROVE  \/ /\ Charged(t)' = Charged(t) /\ reports'[t] = reports[t] /\ Owing(t)' \subseteq Owing(t)
                 /\ Holding(t)' \subseteq Holding(t)
              \/ /\ Charged(t)' = Charged(t) /\ reports'[t] = reports[t] + 1
                 /\ Owing(t)' = Owing(t) \cup {r} /\ Holding(t)' = Holding(t)
                 /\ status'[t] \notin {"absent", "pending"}
  <2>1. UNCHANGED <<outcomes, todo, plan>>
    BY <1>13 DEF CommitReport, batch
  <2>2. /\ req' = [req EXCEPT ![r] = [req[r] EXCEPT !.kind = "outcome", !.was = "absent"]]
        /\ req[r] \in Request /\ req[r].kind = "report"
    BY <1>0, <1>13 DEF CommitReport
  <2>3. /\ req'[r].kind = "outcome" /\ req'[r].task = req[r].task
        /\ \A x \in Requests \ {r} : req'[x] = req[x]
    BY <1>0, <2>2 DEF Request
  <2>4. Owing(t)' = IF req[r].task = t THEN Owing(t) \cup {r} ELSE Owing(t)
    BY <2>2, <2>3 DEF Owing
  <2>5. reports'[t] = IF req[r].task = t THEN reports[t] + 1 ELSE reports[t]
    BY <1>0, <1>13 DEF CommitReport
  <2>6. req[r].task = t => status'[t] \notin {"absent", "pending"}
    <3>1. req[r].says \notin {"absent", "pending"}
      BY <2>2 DEF Request, Reported
    <3>2. CASE req[r].says # req[r].was
      BY <1>0, <1>13, <3>1, <3>2 DEF CommitReport
    <3>3. CASE req[r].says = req[r].was
      BY <1>13, <2>2, <3>1, <3>3 DEF CommitReport, RequestsSound
    <3>. QED
      BY <3>2, <3>3
  <2>7. Charged(t)' = Charged(t)
    BY <2>1 DEF Charged
  <2>. QED
    BY <1>3, <2>1, <2>4, <2>5, <2>6, <2>7
<1>14. ASSUME NEW r \in Requests, RecordReported(r)
       PROVE  \/ /\ Charged(t)' = Charged(t) /\ reports'[t] = reports[t] /\ Owing(t)' \subseteq Owing(t)
                 /\ Holding(t)' \subseteq Holding(t)
              \/ /\ r \in Owing(t)
                 /\ Charged(t)' = Charged(t) + 1 /\ reports'[t] = reports[t]
                 /\ Owing(t)' = Owing(t) \ {r} /\ Holding(t)' = Holding(t)
                 /\ status'[t] = status[t]
  <2>1. UNCHANGED <<reports, todo, plan, status>>
    BY <1>14 DEF RecordReported, batch, taskRow
  <2>2. /\ req[r].kind = "outcome" /\ req'[r].kind # "outcome"
        /\ \A x \in Requests \ {r} : req'[x] = req[x]
    BY <1>0, <1>14 DEF RecordReported, Idle
  <2>3. Owing(t)' = Owing(t) \ {r} /\ (req[r].task = t <=> r \in Owing(t))
    BY <2>2 DEF Owing
  <2>4. outcomes[t] \in [good : Nat, bad : Nat]
    BY <1>0
  <2>5. Charged(t)' = IF req[r].task = t THEN Charged(t) + 1 ELSE Charged(t)
    <3>1. CASE req[r].task = t /\ req[r].says = "success"
      BY <1>0, <1>14, <2>4, <3>1 DEF RecordReported, Charged
    <3>2. CASE req[r].task = t /\ req[r].says # "success"
      BY <1>0, <1>14, <2>4, <3>2 DEF RecordReported, Charged
    <3>3. CASE req[r].task # t
      BY <1>0, <1>14, <2>4, <3>3 DEF RecordReported, Charged
    <3>. QED
      BY <3>1, <3>2, <3>3
  <2>. QED
    BY <1>3, <2>1, <2>3, <2>5
<1>. QED
  BY <1>4, <1>8, <1>10, <1>11, <1>12, <1>13, <1>14, StepKinds DEF Quiet

LEMMA ChargesStep ==
  ASSUME ChargesInv, [Next]_vars
  PROVE  WaitingIsFree' /\ ChargesBounded'
<1>. SUFFICES ASSUME NEW t \in Tasks
              PROVE  /\ status'[t] \in {"absent", "pending"} => Charged(t)' = 0 /\ Owing(t)' = {}
                     /\ Charged(t)' + Cardinality(Owing(t)') + Cardinality(Holding(t)')
                          <= Cardinality(Workers) + reports'[t]
  BY DEF WaitingIsFree, ChargesBounded
<1>. TypeOK /\ TypeOK' /\ RequestsSound
  BY NextTypeOK DEF ChargesInv, JournalInv
<1>1. status'[t] \in {"absent", "pending"} => status[t] \in {"absent", "pending"}
  BY StatusSteps DEF TaskStatus, Terminal, Reported, TypeOK
<1>2. status[t] \in {"absent", "pending"} => Charged(t) = 0 /\ Owing(t) = {}
  BY DEF ChargesInv, WaitingIsFree
<1>3. Charged(t) + Cardinality(Owing(t)) + Cardinality(Holding(t))
        <= Cardinality(Workers) + reports[t]
  BY DEF ChargesInv, ChargesBounded
<1>4. /\ IsFiniteSet(Owing(t)) /\ Cardinality(Owing(t)) \in Nat
      /\ IsFiniteSet(Holding(t)) /\ Cardinality(Holding(t)) \in Nat
      /\ Cardinality(Workers) \in Nat /\ Charged(t) \in Nat /\ reports[t] \in Nat
  BY CountsFinite
<1>5. /\ IsFiniteSet(Owing(t)') /\ Cardinality(Owing(t)') \in Nat
      /\ Cardinality(Holding(t)') \in Nat /\ Cardinality(Holding(t)') <= Cardinality(Workers)
      /\ Charged(t)' \in Nat /\ reports'[t] \in Nat
  BY CountsFiniteNext
<1>6. CASE /\ Charged(t)' = Charged(t) /\ reports'[t] = reports[t] /\ Owing(t)' \subseteq Owing(t)
           /\ Holding(t)' \subseteq Holding(t) \/ status'[t] = "pending"
  <2>1. status'[t] \in {"absent", "pending"} => Charged(t)' = 0 /\ Owing(t)' = {}
    BY <1>1, <1>2, <1>6
  <2>2. Cardinality(Owing(t)') <= Cardinality(Owing(t))
    BY <1>4, <1>6, FS_Subset
  <2>3. CASE Holding(t)' \subseteq Holding(t)
    <3>1. Cardinality(Holding(t)') <= Cardinality(Holding(t))
      BY <1>4, <2>3, FS_Subset
    <3>. QED
      BY <1>3, <1>4, <1>5, <1>6, <2>1, <2>2, <3>1
  <2>4. CASE status'[t] = "pending"
    <3>1. Charged(t)' = 0 /\ Cardinality(Owing(t)') = 0
      BY <2>1, <2>4, FS_EmptySet
    <3>. QED
      BY <1>4, <1>5, <2>1, <3>1
  <2>. QED
    BY <1>6, <2>3, <2>4
<1>7. ASSUME NEW w \in Holding(t),
             Charged(t)' \in {Charged(t), Charged(t) + 1}, reports'[t] = reports[t],
             Owing(t)' = Owing(t), Holding(t)' = Holding(t) \ {w},
             status'[t] \in {"absent", "pending"} => Charged(t)' = Charged(t)
      PROVE  /\ status'[t] \in {"absent", "pending"} => Charged(t)' = 0 /\ Owing(t)' = {}
             /\ Charged(t)' + Cardinality(Owing(t)') + Cardinality(Holding(t)')
                  <= Cardinality(Workers) + reports'[t]
  <2>1. Cardinality(Holding(t)') = Cardinality(Holding(t)) - 1
    BY <1>4, <1>7, FS_RemoveElement
  <2>2. Charged(t)' <= Charged(t) + 1
    BY <1>4, <1>7
  <2>. QED
    BY <1>1, <1>2, <1>3, <1>4, <1>5, <1>7, <2>1, <2>2
<1>8. ASSUME NEW r \in Requests,
             Charged(t)' = Charged(t), reports'[t] = reports[t] + 1,
             Owing(t)' = Owing(t) \cup {r}, Holding(t)' = Holding(t),
             status'[t] \notin {"absent", "pending"}
      PROVE  Charged(t)' + Cardinality(Owing(t)') + Cardinality(Holding(t)')
               <= Cardinality(Workers) + reports'[t]
  <2>1. Cardinality(Owing(t) \cup {r}) <= Cardinality(Owing(t)) + 1
    <3>1. Cardinality(Owing(t) \cup {r}) =
            IF r \in Owing(t) THEN Cardinality(Owing(t)) ELSE Cardinality(Owing(t)) + 1
      BY <1>4, FS_AddElement
    <3>. QED
      BY <1>4, <3>1
  <2>. QED
    BY <1>3, <1>4, <1>5, <1>8, <2>1
<1>9. ASSUME NEW r \in Owing(t),
             Charged(t)' = Charged(t) + 1, reports'[t] = reports[t],
             Owing(t)' = Owing(t) \ {r}, Holding(t)' = Holding(t), status'[t] = status[t]
      PROVE  /\ status'[t] \notin {"absent", "pending"}
             /\ Charged(t)' + Cardinality(Owing(t)') + Cardinality(Holding(t)')
                  <= Cardinality(Workers) + reports'[t]
  <2>1. Cardinality(Owing(t)') = Cardinality(Owing(t)) - 1
    BY <1>4, <1>9, FS_RemoveElement
  <2>. QED
    BY <1>1, <1>2, <1>3, <1>4, <1>9, <2>1
<1>. QED
  BY <1>6, <1>7, <1>8, <1>9, ChargeSteps

(* A task is charged to its recipient at most once per replica's worker    *)
(* and once per committed report, for any number of replicas and requests. *)
THEOREM ChargesAreBounded == Spec => []OutcomesBounded
<1>1. Init => ChargesInv
  BY InitCharges
<1>2. ChargesInv /\ [Next]_vars => ChargesInv'
  BY JournalInvNext, ChargesStep DEF ChargesInv
<1>3. ChargesInv => OutcomesBounded
  <2>. SUFFICES ASSUME ChargesInv, NEW t \in Tasks
                PROVE  Charged(t) <= Cardinality(Workers) + reports[t]
    BY DEF OutcomesBounded, Charged
  <2>1. TypeOK
    BY DEF ChargesInv, JournalInv
  <2>. QED
    BY <2>1, CountsFinite DEF ChargesInv, ChargesBounded
<1>. QED
  BY <1>1, <1>2, <1>3, PTL DEF Spec

(***************************************************************************)
(* The POSTs of the delivery workers.                                      *)
(*                                                                         *)
(* PostsAccounted bounds what is made from journals of k attempts by what  *)
(* was made from journals of k - 1, and says nothing of who may still POST.*)
(* Inductive is this: of the POSTs that were not rolled back, count those  *)
(* whose verdict is committed.  They and the workers that hold the journal *)
(* stay within its worth, and while a pending row shows the journal, one   *)
(* more round of all workers fits in: the commit that wrote it again was a *)
(* further verdict one level below.                                        *)
(***************************************************************************)
(* The workers whose POST from a journal of k attempts is not committed,   *)
(* and those and the ones that have such a journal to try.                 *)
Posting(t, k) ==
  {w \in DeliveryWorkers : Posted(w, t) /\ snap[w][t].attempts = k}
Trying(t, k) ==
  {w \in DeliveryWorkers : (t \in todo[w] \/ Posted(w, t)) /\ snap[w][t].attempts = k}

Tried(t, k) == posts[t][k] - lost[t][k] - Cardinality(Posting(t, k))
Worth(t, k) == Cardinality(DeliveryWorkers) * (IF k = 0 THEN 1 ELSE Tried(t, k - 1))

(* A task of the batch is not judged yet.                                  *)
BatchesDisjoint ==
  \A w \in Workers, t \in Tasks : t \in todo[w] => plan[w][t] = "none"

TriesBounded ==
  \A t \in Tasks, k \in Levels :
    /\ Tried(t, k) \in Nat
    /\ Tried(t, k) + Cardinality(Trying(t, k)) <= Worth(t, k)
    /\ status[t] = "absent" => Tried(t, k) = 0
    /\ status[t] = "pending" /\ result[t].attempts = k =>
         Tried(t, k) + Cardinality(DeliveryWorkers) <= Worth(t, k)

(* An expiry worker has no batch, and only times tasks out.                *)
ExpiryPlans ==
  \A w \in ExpiryWorkers :
    todo[w] = {} /\ \A t \in Tasks : plan[w][t] \in {"none", "timeout"}

LEMMA ExpiryPlansStep ==
  ASSUME TypeOK, ExpiryPlans, [Next]_vars
  PROVE  ExpiryPlans'
<1>0. /\ todo \in [Workers -> SUBSET Tasks]
      /\ plan \in [Workers -> [Tasks -> Verdict]]
      /\ ExpiryWorkers \cap DeliveryWorkers = {} /\ ExpiryWorkers \subseteq Workers
  BY ConstantsAssumption DEF TypeOK, Workers
<1>1. ASSUME NEW w \in DeliveryWorkers,
             \/ SelectBatch(w)
             \/ \E t \in Tasks : RefuseInactive(w, t) \/ PostAccepted(w, t) \/ PostRejected(w, t)
      PROVE  ExpiryPlans'
  <2>1. \A x \in Workers \ {w} : todo'[x] = todo[x] /\ plan'[x] = plan[x]
    BY <1>0, <1>1 DEF SelectBatch, RefuseInactive, PostAccepted, PostRejected, Judge
  <2>. QED
    BY <1>0, <2>1 DEF ExpiryPlans
<1>2. ASSUME NEW w \in ExpiryWorkers, SelectExpired(w) PROVE ExpiryPlans'
  <2>1. todo' = todo /\ \A x \in Workers \ {w} : plan'[x] = plan[x]
    BY <1>0, <1>2 DEF SelectExpired
  <2>2. \A t \in Tasks : plan'[w][t] \in {"none", "timeout"}
    BY <1>0, <1>2 DEF SelectExpired
  <2>. QED
    BY <1>0, <2>1, <2>2 DEF ExpiryPlans
<1>3. ASSUME NEW w \in Workers, CommitPlan(w) \/ AbortIteration(w) PROVE ExpiryPlans'
  <2>1. \A x \in Workers \ {w} : todo'[x] = todo[x] /\ plan'[x] = plan[x]
    BY <1>0, <1>3 DEF CommitPlan, AbortIteration
  <2>2. todo'[w] = {} /\ \A t \in Tasks : plan'[w][t] = "none"
    BY <1>0, <1>3 DEF CommitPlan, AbortIteration, NoPlan
  <2>. QED
    BY <1>0, <2>1, <2>2 DEF ExpiryPlans
<1>4. CASE UNCHANGED <<todo, plan>>
  BY <1>4 DEF ExpiryPlans
<1>5. \/ UNCHANGED <<todo, plan>>
      \/ \E w \in ExpiryWorkers : SelectExpired(w)
      \/ \E w \in Workers : CommitPlan(w) \/ AbortIteration(w)
      \/ \E w \in DeliveryWorkers :
           \/ SelectBatch(w)
           \/ \E t \in Tasks : RefuseInactive(w, t) \/ PostAccepted(w, t) \/ PostRejected(w, t)
  BY DEF Next, vars, batch, Heartbeat, MarkInactive, Suspend, Deregister, Send, Tick, LoadReport,
         LoadChunk, CommitReport, RecordReported, CommitChunk, DropRequest
<1>. QED
  BY <1>1, <1>2, <1>3, <1>4, <1>5

(* The row of a pending task changes only when it is inserted, and by a    *)
(* worker's commit.                                                        *)
LEMMA PendingRow ==
  ASSUME JournalInv, [Next]_vars, NEW t \in Tasks, status'[t] = "pending"
  PROVE  \/ status[t] = "pending" /\ result'[t] = result[t]
         \/ /\ status[t] = "absent" /\ result'[t] = Empty
            /\ UNCHANGED batch
         \/ \E w \in Workers : CommitPlan(w) /\ status[t] = "pending"
<1>. TypeOK
  BY DEF JournalInv
<1>0. status \in [Tasks -> TaskStatus \cup {"absent"}] /\ result \in [Tasks -> Result]
  BY DEF TypeOK
<1>1. ASSUME Quiet \/ Tick \/ \E r \in Requests : RecordReported(r)
      PROVE  status'[t] = status[t] /\ result'[t] = result[t]
  BY <1>1, QuietLeavesTasks DEF taskRow, Tick, RecordReported
<1>2. ASSUME NEW u \in Tasks, Send(u), u = t
      PROVE  status[t] = "absent" /\ result'[t] = Empty /\ UNCHANGED batch
  BY <1>2 DEF Send, JournalInv, AbsentIsEmpty
<1>3. ASSUME NEW u \in Tasks, Send(u), u # t
      PROVE  status'[t] = status[t] /\ result'[t] = result[t]
  BY <1>0, <1>3 DEF Send
<1>4. ASSUME NEW w \in Workers, CommitPlan(w) PROVE status[t] = "pending"
  <2>1. status'[t] = StatusAfter(plan[w][t], status[t])
    BY <1>4 DEF CommitPlan
  <2>. QED
    BY <2>1 DEF StatusAfter
<1>5. ASSUME NEW r \in Requests, CommitReport(r)
      PROVE  status'[t] = status[t] /\ result'[t] = result[t]
  <2>1. CASE req[r].task = t
    <3>1. req[r].says # "pending"
      BY DEF TypeOK, Request, Reported
    <3>2. req[r].says = req[r].was
      BY <1>0, <1>5, <2>1, <3>1 DEF CommitReport
    <3>3. status[t] # "pending" /\ status'[t] = status[t]
      BY <1>5, <2>1, <3>1, <3>2 DEF CommitReport, JournalInv, RequestsSound
    <3>. QED
      BY <3>3
  <2>2. CASE req[r].task # t
    BY <1>0, <1>5, <2>2 DEF CommitReport
  <2>. QED
    BY <2>1, <2>2
<1>6. ASSUME NEW r \in Requests, CommitChunk(r)
      PROVE  status'[t] = status[t] /\ result'[t] = result[t]
  BY <1>0, <1>6 DEF CommitChunk
<1>. QED
  BY <1>1, <1>2, <1>3, <1>4, <1>5, <1>6, StepKinds

LEMMA BatchesDisjointStep ==
  ASSUME TypeOK, BatchesDisjoint, [Next]_vars
  PROVE  BatchesDisjoint'
<1>0. /\ todo \in [Workers -> SUBSET Tasks]
      /\ plan \in [Workers -> [Tasks -> Verdict]]
  BY DEF TypeOK
<1>1. CASE UNCHANGED <<todo, snap, plan>>
  BY <1>1 DEF BatchesDisjoint
<1>2. ASSUME NEW w \in Workers,
             SelectBatch(w) \/ SelectExpired(w) \/ CommitPlan(w) \/ AbortIteration(w)
      PROVE  BatchesDisjoint'
  <2>1. \A x \in Workers \ {w} : todo'[x] = todo[x] /\ plan'[x] = plan[x]
    BY <1>0, <1>2 DEF SelectBatch, SelectExpired, CommitPlan, AbortIteration
  <2>2. todo'[w] = {} \/ \A t \in Tasks : plan'[w][t] = "none"
    BY <1>0, <1>2
    DEF SelectBatch, SelectExpired, CommitPlan, AbortIteration, WorkerIdle, NoPlan
  <2>. QED
    BY <1>0, <2>1, <2>2 DEF BatchesDisjoint
<1>3. ASSUME NEW w \in Workers, NEW u \in Tasks,
             RefuseInactive(w, u) \/ PostAccepted(w, u) \/ PostRejected(w, u)
      PROVE  BatchesDisjoint'
  <2>1. /\ \A x \in Workers \ {w} : todo'[x] = todo[x] /\ plan'[x] = plan[x]
        /\ todo'[w] = todo[w] \ {u}
        /\ \A t \in Tasks \ {u} : plan'[w][t] = plan[w][t]
    BY <1>0, <1>3 DEF RefuseInactive, PostAccepted, PostRejected, Judge
  <2>. QED
    BY <1>0, <2>1 DEF BatchesDisjoint
<1>. QED
  BY <1>1, <1>2, <1>3, BatchSteps

LEMMA PostsFinite ==
  ASSUME NEW t, NEW k
  PROVE  /\ IsFiniteSet(Posting(t, k)) /\ Cardinality(Posting(t, k)) \in Nat
         /\ IsFiniteSet(Trying(t, k)) /\ Cardinality(Trying(t, k)) \in Nat
         /\ IsFiniteSet(Trying(t, k)') /\ Cardinality(Trying(t, k)') \in Nat
         /\ Cardinality(Trying(t, k)') <= Cardinality(DeliveryWorkers)
         /\ Cardinality(DeliveryWorkers) \in Nat
         /\ Cardinality(Posting(t, k)) <= Cardinality(Trying(t, k))
<1>1. /\ Posting(t, k) \subseteq DeliveryWorkers /\ Trying(t, k) \subseteq DeliveryWorkers
      /\ Trying(t, k)' \subseteq DeliveryWorkers /\ Posting(t, k) \subseteq Trying(t, k)
  BY DEF Posting, Trying
<1>2. /\ IsFiniteSet(Posting(t, k)) /\ IsFiniteSet(Trying(t, k)) /\ IsFiniteSet(Trying(t, k)')
      /\ Cardinality(Trying(t, k)') <= Cardinality(DeliveryWorkers)
  BY <1>1, FinitenessAssumption, FS_Subset
<1>3. Cardinality(Posting(t, k)) <= Cardinality(Trying(t, k))
  BY <1>1, <1>2, FS_Subset
<1>. QED
  BY <1>2, <1>3, FinitenessAssumption, FS_CardinalityType

(* What a step does to the POSTs from journals of k attempts.              *)
LEMMA TriedSteps ==
  ASSUME TypeOK, BatchesDisjoint, ExpiryPlans, [Next]_vars, NEW t \in Tasks, NEW k \in Levels
  PROVE  \/ /\ Tried(t, k)' = Tried(t, k)
            /\ \/ Cardinality(Trying(t, k)') <= Cardinality(Trying(t, k))
               \/ status[t] = "pending" /\ result[t].attempts = k
            /\ ~\E w \in Posting(t, k) : CommitPlan(w)
         \/ \E w \in Posting(t, k) :
              /\ CommitPlan(w)
              /\ Tried(t, k)' = Tried(t, k) + 1
              /\ Cardinality(Trying(t, k)') = Cardinality(Trying(t, k)) - 1
<1>0. /\ todo \in [Workers -> SUBSET Tasks]
      /\ plan \in [Workers -> [Tasks -> Verdict]]
      /\ snap \in [Workers -> [Tasks -> Result]]
      /\ posts \in [Tasks -> [Levels -> Nat]] /\ lost \in [Tasks -> [Levels -> Nat]]
      /\ DeliveryWorkers \subseteq Workers /\ Workers = DeliveryWorkers \cup ExpiryWorkers
      /\ DeliveryWorkers \cap ExpiryWorkers = {}
  BY ConstantsAssumption DEF TypeOK, Workers
<1>1. /\ posts[t][k] \in Nat /\ lost[t][k] \in Nat
      /\ IsFiniteSet(Posting(t, k)) /\ Cardinality(Posting(t, k)) \in Nat
      /\ IsFiniteSet(Trying(t, k)) /\ Cardinality(Trying(t, k)) \in Nat
      /\ IsFiniteSet(Trying(t, k)') /\ Cardinality(Trying(t, k)') \in Nat
  BY <1>0, PostsFinite
<1>2. ASSUME NEW w \in Posting(t, k), CommitPlan(w) PROVE todo[w] = {} /\ plan'[w] = NoPlan
  BY <1>0, <1>2 DEF CommitPlan, Posting
<1>3. ASSUME UNCHANGED <<todo, snap, plan, posts, lost>>
      PROVE  /\ Tried(t, k)' = Tried(t, k) /\ Trying(t, k)' = Trying(t, k)
             /\ ~\E w \in Posting(t, k) : CommitPlan(w)
  <2>1. Posting(t, k)' = Posting(t, k) /\ Trying(t, k)' = Trying(t, k)
    BY <1>3 DEF Posting, Trying, Posted
  <2>2. ASSUME NEW w \in Posting(t, k), CommitPlan(w) PROVE FALSE
    BY <1>0, <1>3, <2>2 DEF CommitPlan, Posting
  <2>. QED
    BY <1>3, <2>1, <2>2 DEF Tried
<1>4. ASSUME NEW w \in ExpiryWorkers, SelectExpired(w) \/ CommitPlan(w) \/ AbortIteration(w)
      PROVE  /\ Tried(t, k)' = Tried(t, k) /\ Trying(t, k)' = Trying(t, k)
             /\ ~\E x \in Posting(t, k) : CommitPlan(x)
  <2>1. ~Posted(w, t)
    BY DEF ExpiryPlans, Posted
  <2>2. /\ \A x \in DeliveryWorkers :
             todo'[x] = todo[x] /\ plan'[x] = plan[x] /\ snap'[x] = snap[x]
        /\ posts'[t] = posts[t] /\ lost'[t] = lost[t]
    BY <1>0, <1>4, <2>1 DEF SelectExpired, CommitPlan, AbortIteration
  <2>3. Posting(t, k)' = Posting(t, k) /\ Trying(t, k)' = Trying(t, k)
    BY <2>2 DEF Posting, Trying, Posted
  <2>4. ASSUME NEW x \in Posting(t, k), CommitPlan(x) PROVE FALSE
    <3>1. x \in DeliveryWorkers /\ Posted(x, t) /\ plan'[x] = NoPlan
      BY <1>2, <2>4 DEF Posting
    <3>. QED
      BY <2>2, <3>1 DEF Posted, NoPlan
  <2>. QED
    BY <2>2, <2>3, <2>4 DEF Tried
<1>5. ASSUME NEW w \in DeliveryWorkers, SelectBatch(w)
      PROVE  /\ Tried(t, k)' = Tried(t, k)
             /\ \/ Trying(t, k)' = Trying(t, k)
                \/ status[t] = "pending" /\ result[t].attempts = k
             /\ ~\E x \in Posting(t, k) : CommitPlan(x)
  <2>1. /\ plan' = plan /\ plan[w] = NoPlan /\ todo[w] = {} /\ snap'[w] = result
        /\ \A x \in DeliveryWorkers \ {w} : todo'[x] = todo[x] /\ snap'[x] = snap[x]
        /\ UNCHANGED <<posts, lost>>
    BY <1>0, <1>5 DEF SelectBatch, WorkerIdle
  <2>2. ~Posted(w, t) /\ ~Posted(w, t)'
    BY <2>1 DEF Posted, NoPlan
  <2>3. Posting(t, k)' = Posting(t, k)
    BY <2>1, <2>2 DEF Posting, Posted
  <2>4. Trying(t, k)' \ {w} = Trying(t, k) /\ w \notin Trying(t, k)
    BY <2>1, <2>2 DEF Trying, Posted
  <2>5. w \in Trying(t, k)' => status[t] = "pending" /\ result[t].attempts = k
    BY <1>0, <1>5, <2>1, <2>2 DEF SelectBatch, Deliverable, Trying
  <2>6. ASSUME NEW x \in Posting(t, k), CommitPlan(x) PROVE FALSE
    <3>1. x \in DeliveryWorkers /\ Posted(x, t) /\ plan'[x] = NoPlan
      BY <1>2, <2>6 DEF Posting
    <3>. QED
      BY <2>1, <3>1 DEF Posted, NoPlan
  <2>. QED
    BY <2>1, <2>3, <2>4, <2>5, <2>6 DEF Tried
<1>6. ASSUME NEW w \in DeliveryWorkers, NEW u \in Tasks,
             RefuseInactive(w, u) \/ PostAccepted(w, u) \/ PostRejected(w, u)
      PROVE  /\ Tried(t, k)' = Tried(t, k)
             /\ Cardinality(Trying(t, k)') <= Cardinality(Trying(t, k))
             /\ ~\E x \in Posting(t, k) : CommitPlan(x)
  <2>1. PICK v \in {"inactive", "running", "dead", "retry"} :
          /\ Judge(w, u, v)
          /\ posts' = IF v = "inactive" THEN posts
                      ELSE [posts EXCEPT ![u][snap[w][u].attempts] = @ + 1]
    BY <1>6 DEF RefuseInactive, PostAccepted, PostRejected
  <2>2. /\ todo'[w] = todo[w] \ {u}
        /\ plan'[w] = [plan[w] EXCEPT ![u] = v]
        /\ u \in todo[w] /\ plan[w][u] = "none"
        /\ UNCHANGED <<snap, lost>>
        /\ \A x \in DeliveryWorkers \ {w} : todo'[x] = todo[x] /\ plan'[x] = plan[x]
    BY <1>0, <1>6, <2>1
    DEF Judge, RefuseInactive, PostAccepted, PostRejected, BatchesDisjoint
  <2>3. plan[w] \in [Tasks -> Verdict] /\ plan'[w][u] = v
    BY <1>0, <2>2
  <2>4. ASSUME NEW x \in Posting(t, k), CommitPlan(x) PROVE FALSE
    <3>1. x \in DeliveryWorkers /\ Posted(x, t) /\ plan'[x] = NoPlan
      BY <1>2, <2>4 DEF Posting
    <3>2. x = w
      BY <2>2, <3>1 DEF Posted, NoPlan
    <3>. QED
      BY <2>3, <3>1, <3>2 DEF NoPlan
  <2>5. CASE t # u
    <3>1. /\ plan'[w][t] = plan[w][t] /\ (t \in todo'[w] <=> t \in todo[w])
          /\ posts'[t] = posts[t]
      BY <1>0, <2>1, <2>2, <2>3, <2>5
    <3>2. Posting(t, k)' = Posting(t, k) /\ Trying(t, k)' = Trying(t, k)
      BY <2>2, <3>1 DEF Posting, Trying, Posted
    <3>. QED
      BY <1>1, <2>2, <2>4, <3>1, <3>2 DEF Tried
  <2>6. CASE t = u /\ snap[w][u].attempts # k
    <3>1. posts'[t][k] = posts[t][k]
      BY <1>0, <2>1, <2>6
    <3>2. Posting(t, k)' = Posting(t, k) /\ Trying(t, k)' = Trying(t, k)
      BY <2>2, <2>6 DEF Posting, Trying, Posted
    <3>. QED
      BY <1>1, <2>2, <2>4, <3>1, <3>2 DEF Tried
  <2>7. CASE t = u /\ snap[w][u].attempts = k /\ v = "inactive"
    <3>1. ~Posted(w, t) /\ ~Posted(w, t)' /\ posts' = posts
      BY <2>1, <2>2, <2>3, <2>7 DEF Posted
    <3>2. Posting(t, k)' = Posting(t, k) /\ Trying(t, k)' \subseteq Trying(t, k)
      BY <2>2, <3>1 DEF Posting, Trying, Posted
    <3>3. Cardinality(Trying(t, k)') <= Cardinality(Trying(t, k))
      BY <1>1, <3>2, FS_Subset
    <3>. QED
      BY <2>2, <2>4, <3>1, <3>2, <3>3 DEF Tried
  <2>8. CASE t = u /\ snap[w][u].attempts = k /\ v # "inactive"
    <3>1. ~Posted(w, t) /\ Posted(w, t)'
      BY <2>1, <2>2, <2>3, <2>8 DEF Posted
    <3>2. posts'[t][k] = posts[t][k] + 1
      BY <1>0, <2>1, <2>8
    <3>3. /\ Posting(t, k)' = Posting(t, k) \cup {w} /\ w \notin Posting(t, k)
          /\ Trying(t, k)' = Trying(t, k)
      BY <2>2, <2>8, <3>1 DEF Posting, Trying, Posted
    <3>4. Cardinality(Posting(t, k)') = Cardinality(Posting(t, k)) + 1
      BY <1>1, <3>3, FS_AddElement
    <3>5. lost'[t][k] = lost[t][k]
      BY <2>2
    <3>. QED
      BY <1>1, <2>4, <3>2, <3>3, <3>4, <3>5 DEF Tried
  <2>. QED
    BY <2>5, <2>6, <2>7, <2>8
<1>7. ASSUME NEW w \in DeliveryWorkers, AbortIteration(w)
      PROVE  /\ Tried(t, k)' = Tried(t, k)
             /\ Cardinality(Trying(t, k)') <= Cardinality(Trying(t, k))
             /\ ~\E x \in Posting(t, k) : CommitPlan(x)
  <2>1. /\ todo'[w] = {} /\ plan'[w] = NoPlan /\ posts' = posts
        /\ lost'[t] = IF Posted(w, t) THEN [lost[t] EXCEPT ![snap[w][t].attempts] = @ + 1]
                      ELSE lost[t]
        /\ \A x \in DeliveryWorkers \ {w} :
             todo'[x] = todo[x] /\ plan'[x] = plan[x] /\ snap'[x] = snap[x]
        /\ aborts' = aborts + 1
    BY <1>0, <1>7 DEF AbortIteration
  <2>2. ~Posted(w, t)' /\ t \notin todo'[w]
    BY <2>1 DEF Posted, NoPlan
  <2>3. /\ Posting(t, k)' = Posting(t, k) \ {w}
        /\ Trying(t, k)' \subseteq Trying(t, k)
    BY <2>1, <2>2 DEF Posting, Trying, Posted
  <2>4. Cardinality(Trying(t, k)') <= Cardinality(Trying(t, k))
    BY <1>1, <2>3, FS_Subset
  <2>5. ASSUME NEW x \in Posting(t, k), CommitPlan(x) PROVE FALSE
    <3>1. aborts \in Nat
      BY DEF TypeOK
    <3>. QED
      BY <2>1, <2>5, <3>1 DEF CommitPlan
  <2>6. CASE w \in Posting(t, k)
    <3>1. lost'[t][k] = lost[t][k] + 1
      BY <1>0, <2>1, <2>6 DEF Posting
    <3>2. Cardinality(Posting(t, k)') = Cardinality(Posting(t, k)) - 1
      BY <1>1, <2>3, <2>6, FS_RemoveElement
    <3>3. posts'[t][k] = posts[t][k]
      BY <2>1
    <3>. QED
      BY <1>1, <2>4, <2>5, <3>1, <3>2, <3>3 DEF Tried
  <2>7. CASE w \notin Posting(t, k)
    <3>1. lost'[t][k] = lost[t][k] /\ Posting(t, k)' = Posting(t, k)
      BY <1>0, <2>1, <2>3, <2>7 DEF Posting
    <3>. QED
      BY <2>1, <2>4, <2>5, <3>1 DEF Tried
  <2>. QED
    BY <2>6, <2>7
<1>8. ASSUME NEW w \in DeliveryWorkers, CommitPlan(w)
      PROVE  \/ /\ Tried(t, k)' = Tried(t, k) /\ Trying(t, k)' = Trying(t, k)
                /\ ~\E x \in Posting(t, k) : CommitPlan(x)
             \/ /\ w \in Posting(t, k)
                /\ Tried(t, k)' = Tried(t, k) + 1
                /\ Cardinality(Trying(t, k)') = Cardinality(Trying(t, k)) - 1
  <2>1. /\ todo' = todo /\ todo[w] = {} /\ plan'[w] = NoPlan /\ plan[w] # NoPlan
        /\ UNCHANGED <<posts, lost>>
        /\ \A x \in DeliveryWorkers \ {w} : plan'[x] = plan[x] /\ snap'[x] = snap[x]
    BY <1>0, <1>8 DEF CommitPlan
  <2>2. ~Posted(w, t)' /\ t \notin todo[w]
    BY <2>1 DEF Posted, NoPlan
  <2>3. /\ Posting(t, k)' = Posting(t, k) \ {w}
        /\ Trying(t, k)' = Trying(t, k) \ {w}
        /\ w \in Trying(t, k) <=> w \in Posting(t, k)
    BY <2>1, <2>2 DEF Posting, Trying, Posted
  <2>4. CASE w \in Posting(t, k)
    <3>1. /\ Cardinality(Posting(t, k)') = Cardinality(Posting(t, k)) - 1
          /\ Cardinality(Trying(t, k)') = Cardinality(Trying(t, k)) - 1
      BY <1>1, <2>3, <2>4, FS_RemoveElement
    <3>2. posts'[t][k] = posts[t][k] /\ lost'[t][k] = lost[t][k]
      BY <2>1
    <3>. QED
      BY <1>1, <2>4, <3>1, <3>2 DEF Tried
  <2>5. CASE w \notin Posting(t, k)
    <3>1. Posting(t, k)' = Posting(t, k) /\ Trying(t, k)' = Trying(t, k)
      BY <2>3, <2>5
    <3>2. ASSUME NEW x \in Posting(t, k), CommitPlan(x) PROVE FALSE
      <4>1. x \in DeliveryWorkers \ {w} /\ Posted(x, t) /\ plan'[x] = NoPlan
        BY <1>2, <2>5, <3>2 DEF Posting
      <4>. QED
        BY <2>1, <4>1 DEF Posted, NoPlan
    <3>. QED
      BY <2>1, <3>1, <3>2 DEF Tried
  <2>. QED
    BY <2>4, <2>5
<1>9. \/ UNCHANGED <<todo, snap, plan, posts, lost>>
      \/ \E w \in ExpiryWorkers : SelectExpired(w) \/ CommitPlan(w) \/ AbortIteration(w)
      \/ \E w \in DeliveryWorkers :
           \/ SelectBatch(w) \/ CommitPlan(w) \/ AbortIteration(w)
           \/ \E u \in Tasks : RefuseInactive(w, u) \/ PostAccepted(w, u) \/ PostRejected(w, u)
  BY <1>0 DEF Next, vars, batch, Heartbeat, MarkInactive, Suspend, Deregister, Send, Tick,
              LoadReport, LoadChunk, CommitReport, RecordReported, CommitChunk, DropRequest
<1>. QED
  BY <1>1, <1>3, <1>4, <1>5, <1>6, <1>7, <1>8, <1>9

(* Multiplication by a number of workers.                                  *)
LEMMA Multiples ==
  ASSUME NEW n \in Nat, NEW a \in Nat, NEW b \in Nat, a <= b
  PROVE  n * a <= n * b /\ n * (a + 1) = n * a + n /\ n * a \in Nat
<1>1. n * a \in Nat /\ n * (b - a) \in Nat /\ b - a \in Nat
  OBVIOUS
<1>2. n * b = n * a + n * (b - a) /\ n * (a + 1) = n * a + n
  BY <1>1
<1>. QED
  BY <1>1, <1>2

LEMMA InitTries == Init => BatchesDisjoint /\ ExpiryPlans /\ TriesBounded
<1>. SUFFICES ASSUME Init PROVE BatchesDisjoint /\ ExpiryPlans /\ TriesBounded
  OBVIOUS
<1>1. BatchesDisjoint /\ ExpiryPlans
  BY DEF Init, BatchesDisjoint, ExpiryPlans, NoPlan, Workers
<1>2. ASSUME NEW t \in Tasks, NEW k \in Levels
      PROVE  Trying(t, k) = {} /\ Posting(t, k) = {} /\ Tried(t, k) = 0
  <2>1. Trying(t, k) = {} /\ Posting(t, k) = {}
    BY DEF Init, Trying, Posting, Posted, NoPlan, Workers
  <2>2. posts[t][k] = 0 /\ lost[t][k] = 0
    BY DEF Init
  <2>. QED
    BY <2>1, <2>2, FS_EmptySet DEF Tried
<1>3. ASSUME NEW t \in Tasks, NEW k \in Levels
      PROVE  Cardinality(Trying(t, k)) = 0 /\ Worth(t, k) \in Nat
  <2>1. k # 0 => k - 1 \in Levels
    BY ConstantsAssumption DEF Levels
  <2>2. (IF k = 0 THEN 1 ELSE Tried(t, k - 1)) \in Nat
    BY <1>2, <2>1
  <2>. QED
    BY <1>2, <2>2, FS_EmptySet, PostsFinite DEF Worth
<1>4. \A t \in Tasks : status[t] = "absent"
  BY DEF Init
<1>. QED
  BY <1>1, <1>2, <1>3, <1>4 DEF TriesBounded

LEMMA TriesStep ==
  ASSUME JournalInv, BatchesDisjoint, ExpiryPlans, TriesBounded, [Next]_vars
  PROVE  TriesBounded'
<1>. TypeOK
  BY DEF JournalInv
<1>. DEFINE n == Cardinality(DeliveryWorkers)
<1>. SUFFICES ASSUME NEW t \in Tasks, NEW k \in Levels
              PROVE  /\ Tried(t, k)' \in Nat
                     /\ Tried(t, k)' + Cardinality(Trying(t, k)') <= Worth(t, k)'
                     /\ status'[t] = "absent" => Tried(t, k)' = 0
                     /\ status'[t] = "pending" /\ result'[t].attempts = k =>
                          Tried(t, k)' + n <= Worth(t, k)'
  BY DEF TriesBounded
<1>0. /\ n \in Nat /\ Cardinality(Trying(t, k)) \in Nat /\ Cardinality(Trying(t, k)') \in Nat
      /\ Cardinality(Trying(t, k)') <= n
      /\ k \in Nat /\ (k # 0 => k - 1 \in Levels /\ k - 1 \in Nat)
  BY PostsFinite, ConstantsAssumption DEF Levels
<1>1. ASSUME NEW j \in Levels
      PROVE  /\ Tried(t, j) \in Nat
             /\ \/ Tried(t, j)' = Tried(t, j)
                \/ Tried(t, j)' = Tried(t, j) + 1
  BY TriedSteps DEF TriesBounded
<1>2. Tried(t, k)' \in Nat
  BY <1>1
<1>3. /\ Worth(t, k) \in Nat /\ Worth(t, k)' \in Nat /\ Worth(t, k) <= Worth(t, k)'
      /\ k # 0 /\ Tried(t, k - 1)' = Tried(t, k - 1) + 1 => Worth(t, k)' = Worth(t, k) + n
  <2>1. CASE k = 0
    BY <1>0, <2>1 DEF Worth
  <2>2. CASE k # 0
    <3>1. Tried(t, k - 1) \in Nat /\ Tried(t, k - 1)' \in Nat
          /\ Tried(t, k - 1) <= Tried(t, k - 1)'
      BY <1>0, <1>1, <2>2
    <3>2. Worth(t, k) = n * Tried(t, k - 1) /\ Worth(t, k)' = n * Tried(t, k - 1)'
      BY <2>2 DEF Worth
    <3>. HIDE DEF n
    <3>. QED
      BY <1>0, <3>1, <3>2, Multiples
  <2>. QED
    BY <2>1, <2>2
<1>4. /\ Tried(t, k) + Cardinality(Trying(t, k)) <= Worth(t, k)
      /\ status[t] = "absent" => Tried(t, k) = 0
      /\ status[t] = "pending" /\ result[t].attempts = k => Tried(t, k) + n <= Worth(t, k)
  BY DEF TriesBounded
<1>. HIDE DEF n
<1>5. Tried(t, k)' + Cardinality(Trying(t, k)') <= Worth(t, k)'
  BY <1>0, <1>1, <1>3, <1>4, TriedSteps
<1>6. ASSUME status'[t] = "absent" PROVE Tried(t, k)' = 0
  <2>1. status[t] = "absent"
    BY <1>6, StatusSteps DEF TaskStatus, Terminal, Reported
  <2>2. Posting(t, k) = {}
    BY <2>1 DEF JournalInv, BatchesSound, Posting, Posted, Workers
  <2>. QED
    BY <1>4, <2>1, <2>2, TriedSteps
<1>7. ASSUME status'[t] = "pending", result'[t].attempts = k
      PROVE  Tried(t, k)' + n <= Worth(t, k)'
  <2>0. result \in [Tasks -> Result] /\ plan \in [Workers -> [Tasks -> Verdict]]
        /\ snap \in [Workers -> [Tasks -> Result]]
    BY DEF TypeOK
  <2>1. ASSUME NEW w \in Workers, CommitPlan(w) PROVE Tried(t, k)' + n <= Worth(t, k)'
    <3>1. /\ status'[t] = StatusAfter(plan[w][t], status[t])
          /\ result'[t] = ResultAfter(plan[w][t], snap[w][t], result[t])
          /\ plan[w][t] \in Verdict /\ plan' = [plan EXCEPT ![w] = NoPlan]
      BY <2>0, <2>1 DEF CommitPlan
    <3>2. status[t] = "pending" /\ plan[w][t] \in {"none", "retry"}
      BY <1>7, <3>1 DEF StatusAfter, Verdict
    <3>3. ASSUME NEW x \in Workers, CommitPlan(x), Posted(x, t) PROVE x = w
      <4>1. plan'[x] = NoPlan
        BY <2>0, <3>3 DEF CommitPlan
      <4>. QED
        BY <2>0, <3>1, <3>3, <4>1 DEF Posted, NoPlan
    <3>4. CASE plan[w][t] = "none"
      <4>1. result[t].attempts = k
        BY <1>7, <3>1, <3>4 DEF ResultAfter
      <4>2. ~\E x \in Posting(t, k) : CommitPlan(x)
        BY <3>3, <3>4 DEF Posting, Posted, Workers
      <4>3. Tried(t, k)' = Tried(t, k)
        BY <4>2, TriedSteps
      <4>. QED
        BY <1>0, <1>1, <1>3, <1>4, <3>2, <4>1, <4>3
    <3>5. CASE plan[w][t] = "retry"
      <4>1. /\ snap[w][t].attempts \in Nat /\ k = snap[w][t].attempts + 1
            /\ w \in DeliveryWorkers /\ Posted(w, t)
        <5>1. snap[w][t] \in Result
          BY <2>0
        <5>2. k = snap[w][t].attempts + 1 /\ snap[w][t].attempts \in Nat
          BY <1>7, <3>1, <3>5, <5>1 DEF ResultAfter, Result
        <5>3. w \in DeliveryWorkers /\ Posted(w, t)
          BY <3>5 DEF ExpiryPlans, Posted, Workers
        <5>. QED
          BY <5>2, <5>3
      <4>2. w \in Posting(t, k - 1) /\ w \notin Posting(t, k)
        BY <4>1 DEF Posting
      <4>3. ~\E x \in Posting(t, k) : CommitPlan(x)
        BY <3>3, <4>2 DEF Posting, Workers
      <4>4. Tried(t, k)' = Tried(t, k)
        BY <4>3, TriedSteps
      <4>5. k # 0 /\ k - 1 \in Levels
        BY <1>0, <4>1
      <4>6. Tried(t, k - 1)' = Tried(t, k - 1) + 1
        BY <2>1, <4>2, <4>5, TriedSteps
      <4>. QED
        BY <1>0, <1>1, <1>3, <1>4, <4>4, <4>5, <4>6
    <3>. QED
      BY <3>2, <3>4, <3>5
  <2>2. CASE ~\E w \in Workers : CommitPlan(w)
    <3>1. Tried(t, k)' = Tried(t, k)
      BY <2>2, TriedSteps DEF Posting, Workers
    <3>2. CASE status[t] = "pending" /\ result'[t] = result[t]
      BY <1>0, <1>1, <1>3, <1>4, <1>7, <3>1, <3>2
    <3>3. CASE status[t] = "absent" /\ result'[t] = Empty
      <4>1. k = 0 /\ Tried(t, k) = 0
        BY <1>4, <1>7, <3>3 DEF Empty
      <4>2. Worth(t, k)' = n
        BY <1>0, <4>1 DEF Worth, n
      <4>. QED
        BY <1>0, <3>1, <4>1, <4>2
    <3>. QED
      BY <1>7, <2>2, <3>2, <3>3, PendingRow
  <2>. QED
    BY <2>1, <2>2
<1>. QED
  BY <1>2, <1>5, <1>6, <1>7 DEF n

(* With any number of delivery workers, at most that many POSTs are made   *)
(* from the empty journal of a task, and at most that many from a journal  *)
(* of k attempts for each POST made from one of k - 1, apart from POSTs of *)
(* iterations that were rolled back.                                       *)
THEOREM PostsAreAccounted == Spec => []PostsAccounted
<1>. DEFINE Inv == JournalInv /\ BatchesDisjoint /\ ExpiryPlans /\ TriesBounded
<1>1. Init => Inv
  BY JournalInvInit, InitTries
<1>2. Inv /\ [Next]_vars => Inv'
  BY JournalInvNext, BatchesDisjointStep, ExpiryPlansStep, TriesStep DEF JournalInv
<1>3. Inv => PostsAccounted
  <2>. SUFFICES ASSUME Inv, NEW t \in Tasks, NEW k \in Levels
                PROVE  posts[t][k] <= lost[t][k] + Cardinality(DeliveryWorkers) *
                         (IF k = 0 THEN 1 ELSE posts[t][k - 1] - lost[t][k - 1])
    BY DEF PostsAccounted
  <2>1. ASSUME NEW j \in Levels
        PROVE  /\ posts[t][j] \in Nat /\ lost[t][j] \in Nat /\ Tried(t, j) \in Nat
               /\ Cardinality(Posting(t, j)) \in Nat
               /\ Tried(t, j) = posts[t][j] - lost[t][j] - Cardinality(Posting(t, j))
    BY PostsFinite DEF JournalInv, TypeOK, TriesBounded, Tried
  <2>2. /\ Cardinality(Posting(t, k)) <= Cardinality(Trying(t, k))
        /\ Cardinality(Trying(t, k)) \in Nat /\ Cardinality(DeliveryWorkers) \in Nat
        /\ k \in Nat /\ (k # 0 => k - 1 \in Levels)
    BY PostsFinite, ConstantsAssumption DEF Levels
  <2>3. Tried(t, k) + Cardinality(Trying(t, k)) <= Worth(t, k)
    BY DEF TriesBounded
  <2>4. Worth(t, k) <= Cardinality(DeliveryWorkers) *
                         (IF k = 0 THEN 1 ELSE posts[t][k - 1] - lost[t][k - 1])
        /\ Worth(t, k) \in Nat
    <3>1. CASE k = 0
      BY <2>2, <3>1 DEF Worth
    <3>2. CASE k # 0
      <4>1. /\ posts[t][k - 1] - lost[t][k - 1] \in Nat /\ Tried(t, k - 1) \in Nat
            /\ Tried(t, k - 1) <= posts[t][k - 1] - lost[t][k - 1]
        BY <2>1, <2>2, <3>2
      <4>2. Worth(t, k) = Cardinality(DeliveryWorkers) * Tried(t, k - 1)
        BY <3>2 DEF Worth
      <4>. QED
        BY <2>2, <3>2, <4>1, <4>2, Multiples
    <3>. QED
      BY <3>1, <3>2
  <2>5. posts[t][k] <= lost[t][k] + Worth(t, k)
    BY <2>1, <2>2, <2>3, <2>4
  <2>6. (IF k = 0 THEN 1 ELSE posts[t][k - 1] - lost[t][k - 1]) \in Int
    BY <2>1, <2>2
  <2>. DEFINE cap == Cardinality(DeliveryWorkers) *
                         (IF k = 0 THEN 1 ELSE posts[t][k - 1] - lost[t][k - 1])
  <2>7. cap \in Int /\ Worth(t, k) <= cap
    BY <2>2, <2>4, <2>6
  <2>. HIDE DEF cap
  <2>8. posts[t][k] <= lost[t][k] + cap
    BY <2>1, <2>4, <2>5, <2>7
  <2>. QED
    BY <2>8 DEF cap
<1>. QED
  BY <1>1, <1>2, <1>3, PTL DEF Spec
================================================================================
