----------------------------- MODULE TaskLifecycle -----------------------------
(***************************************************************************)
(* The life of a row of the "tasks" table, from the moment send_message    *)
(* inserts it to the moment somebody closes it, and every actor that       *)
(* writes it meanwhile:                                                    *)
(*                                                                         *)
(*   - the task delivery workers (core/workers.py, task_delivery_worker),  *)
(*     one per running replica of the platform;                            *)
(*   - the TTL expiry workers (ttl_expiry_worker), one per replica;        *)
(*   - HTTP requests that report a result (report_task_result) or append a *)
(*     stream chunk (append_task_stream_chunk);                            *)
(*   - the registry, which changes the status of the recipients.           *)
(*                                                                         *)
(* A worker's iteration, and a request, is one database session at READ    *)
(* COMMITTED: it reads rows, works on its copies across awaits, and writes *)
(* the columns it changed when it commits.  Nothing re-reads a row before  *)
(* writing it and no row carries a version, so the commit overwrites       *)
(* whatever was committed meanwhile.  A column that is assigned the value  *)
(* it was loaded with is not part of the UPDATE.                           *)
(***************************************************************************)
EXTENDS Naturals, FiniteSets

CONSTANTS
  Tasks,                  \* identifiers tasks may get
  Agents,                 \* recipients
  NoTask, NoAgent,        \* neither a task nor an agent
  DeliveryWorkers,        \* task_delivery_worker loops, one per replica
  ExpiryWorkers,          \* ttl_expiry_worker loops, one per replica
  Requests,               \* HTTP requests in flight at the same time
  MAX_DELIVERY_ATTEMPTS,  \* workers.py: MAX_DELIVERY_ATTEMPTS
  BatchLimit,             \* workers.py: limit(50)
  HeartbeatInterval,      \* settings.heartbeat_interval_seconds
  DeliveryWindow,         \* workers.py: timedelta(hours=1)
  Reports,                \* outcomes participants report
  TTLs,                   \* values senders give to ttl_seconds
  MaxAge,                 \* bound: time stops when every task is this old
  MaxAborts,              \* bound: worker iterations that roll back
  MaxReports              \* bound: result reports opened while fewer are committed

ASSUME ConstantsAssumption ==
  /\ MAX_DELIVERY_ATTEMPTS \in Nat \ {0}
  /\ {BatchLimit, HeartbeatInterval, DeliveryWindow, MaxAge, MaxAborts, MaxReports}
        \subseteq Nat
  /\ TTLs \subseteq Nat
  /\ Reports \subseteq {"success", "partial", "failed", "declined"}
  /\ DeliveryWorkers \cap ExpiryWorkers = {}
  /\ NoTask \notin Tasks
  /\ NoAgent \notin Agents

ASSUME FinitenessAssumption ==
  IsFiniteSet(DeliveryWorkers) /\ IsFiniteSet(ExpiryWorkers) /\ IsFiniteSet(Requests)

Workers == DeliveryWorkers \cup ExpiryWorkers

VARIABLES
  agent,     \* agents.status of each recipient
  status,    \* tasks.status, "absent" before the row is inserted
  to,        \* tasks.to_agent_id
  ttl,       \* tasks.ttl_seconds
  age,       \* now - tasks.created_at
  result,    \* tasks.result: the delivery journal and the reported result
  error,     \* tasks.error_code
  completed, \* tasks.completed_at is not null
  outcomes,  \* committed record_outcome calls for the task, by success flag
  reports,   \* committed result reports for the task
  todo,      \* tasks a delivery worker has selected and not yet tried
  snap,      \* tasks.result as the delivery worker loaded it
  seen,      \* the recipient a delivery worker's session loaded last
  plan,      \* what a worker will write about each task when it commits
  posts,     \* delivery POSTs made, by the attempts in the journal they were made from
  lost,      \* those of them whose iteration was rolled back
  aborts,    \* iterations rolled back so far
  req        \* the requests in flight

taskRow == <<status, to, ttl, age, result, error, completed>>
ledger  == <<outcomes, reports>>
batch   == <<todo, snap, seen, plan, posts, lost, aborts>>
vars    == <<agent, taskRow, ledger, batch, req>>

(***************************************************************************)
(* The values of the columns.                                              *)
(***************************************************************************)
AgentStatus  == {"active", "inactive", "suspended", "deregistered"}
Reported     == {"success", "partial", "failed", "declined"}
Terminal     == Reported \cup {"timeout"}
TaskStatus   == Terminal \cup {"pending", "running"}
ErrorCode    == {"none", "reported", "RECIPIENT_INACTIVE", "DEAD_ENDPOINT", "TIMEOUT"}
Verdict      == {"none", "running", "inactive", "dead", "retry", "timeout"}
Result       == [attempts : Nat, reply : BOOLEAN]
Empty        == [attempts |-> 0, reply |-> FALSE]

(* What the journal of a pending task may have counted.                    *)
Levels       == 0 .. MAX_DELIVERY_ATTEMPTS - 1

Idle         == [kind |-> "idle", task |-> NoTask, was |-> "absent", says |-> "success"]
NoPlan       == [t \in Tasks |-> "none"]
NothingSeen  == [agent |-> NoAgent, status |-> "active"]

(* The kinds of a request in flight: it has loaded its task and not committed *)
(* ("report", "chunk"), or a report has committed the task and not yet told   *)
(* the trust service ("outcome").                                             *)
Request == [kind : {"idle", "report", "chunk", "outcome"},
            task : Tasks \cup {NoTask},
            was  : TaskStatus \cup {"absent"},
            says : Reported]

(***************************************************************************)
(* What the rows look like once a worker has committed verdict v.          *)
(***************************************************************************)
Closing == {"inactive", "dead", "timeout"}

(* Mutant: the status the worker's comment warns of.                       *)
StatusAfterDelivered(v, s) == IF v = "running" THEN "delivered" ELSE s

(* Mutant: a retry writes its status although it did not change it.        *)
StatusAfterRetryWritten(v, s) ==
  CASE v \in {"running", "timeout"} -> v
    [] v \in {"inactive", "dead"}   -> "failed"
    [] v = "retry"                  -> "pending"
    [] OTHER                        -> s

StatusAfter(v, s) ==
  CASE v = "running"            -> "running"
    [] v \in {"inactive","dead"} -> "failed"
    [] v = "timeout"            -> "timeout"
    [] OTHER                    -> s

ErrorAfter(v, e) ==
  CASE v = "inactive" -> "RECIPIENT_INACTIVE"
    [] v = "dead"     -> "DEAD_ENDPOINT"
    [] v = "timeout"  -> "TIMEOUT"
    [] OTHER          -> e

(* Mutant: the attempt is not counted.                                     *)
ResultAfterUncounted(v, loaded, r) == IF v = "retry" THEN loaded ELSE r

ResultAfter(v, loaded, r) ==
  IF v = "retry" THEN [loaded EXCEPT !.attempts = @ + 1] ELSE r

(* Mutant: giving an endpoint up is not reported to the trust service.     *)
OutcomeAfterForgotten(v, o) ==
  IF v \in {"inactive", "timeout"} THEN [o EXCEPT !.bad = @ + 1] ELSE o

OutcomeAfter(v, o) ==
  IF v \in Closing THEN [o EXCEPT !.bad = @ + 1] ELSE o

--------------------------------------------------------------------------------

Init ==
  /\ agent     = [a \in Agents |-> "active"]
  /\ status    = [t \in Tasks |-> "absent"]
  /\ to        \in [Tasks -> Agents]
  /\ ttl       \in [Tasks -> TTLs]
  /\ age       = [t \in Tasks |-> 0]
  /\ result    = [t \in Tasks |-> Empty]
  /\ error     = [t \in Tasks |-> "none"]
  /\ completed = [t \in Tasks |-> FALSE]
  /\ outcomes  = [t \in Tasks |-> [good |-> 0, bad |-> 0]]
  /\ reports   = [t \in Tasks |-> 0]
  /\ todo      = [w \in Workers |-> {}]
  /\ snap      = [w \in Workers |-> [t \in Tasks |-> Empty]]
  /\ seen      = [w \in Workers |-> NothingSeen]
  /\ plan      = [w \in Workers |-> NoPlan]
  /\ posts     = [t \in Tasks |-> [k \in Levels |-> 0]]
  /\ lost      = [t \in Tasks |-> [k \in Levels |-> 0]]
  /\ aborts    = 0
  /\ req       = [r \in Requests |-> Idle]

(***************************************************************************)
(* The platform around the task table.                                     *)
(***************************************************************************)

(* send_heartbeat: a heartbeat makes any agent that is not deleted active. *)
Heartbeat(a) ==
  /\ agent[a] # "deregistered"
  /\ agent' = [agent EXCEPT ![a] = "active"]
  /\ UNCHANGED <<taskRow, ledger, batch, req>>

(* mark_inactive_agents: an active agent whose last heartbeat is too old.  *)
(* How old is not modelled: any active agent may have fallen silent.       *)
MarkInactive(a) ==
  /\ agent[a] = "active"
  /\ agent' = [agent EXCEPT ![a] = "inactive"]
  /\ UNCHANGED <<taskRow, ledger, batch, req>>

(* suspend_agent, an administrator's; his reinstate_agent sets the status  *)
(* as a heartbeat does.                                                    *)
Suspend(a) ==
  /\ agent[a] # "deregistered"
  /\ agent' = [agent EXCEPT ![a] = "suspended"]
  /\ UNCHANGED <<taskRow, ledger, batch, req>>

(* deregister_agent: no guard on the status, and the row stays.            *)
Deregister(a) ==
  /\ agent' = [agent EXCEPT ![a] = "deregistered"]
  /\ UNCHANGED <<taskRow, ledger, batch, req>>

(* send_message, once its checks have passed: the recipient is active, and *)
(* the new row is committed as pending.  Its recipient and its ttl are the *)
(* ones Init chose for the identifier.                                     *)
Send(t) ==
  /\ status[t] = "absent"
  /\ agent[to[t]] = "active"
  /\ status' = [status EXCEPT ![t] = "pending"]
  /\ UNCHANGED <<agent, to, ttl, age, result, error, completed, ledger, batch, req>>

(* Time passes for every task that exists.                                 *)
Tick ==
  /\ \E t \in Tasks : status[t] # "absent" /\ age[t] < MaxAge
  /\ age' = [t \in Tasks |-> IF status[t] # "absent" /\ age[t] < MaxAge
                             THEN age[t] + 1 ELSE age[t]]
  /\ UNCHANGED <<agent, status, to, ttl, result, error, completed, ledger, batch, req>>

(***************************************************************************)
(* One iteration of a delivery worker: select a batch of pending tasks,    *)
(* try each of them, commit all verdicts together.                         *)
(***************************************************************************)
WorkerIdle(w) == todo[w] = {} /\ plan[w] = NoPlan

(* Mutant: the query forgets the status.                                   *)
DeliverableAnyStatus == {t \in Tasks : status[t] # "absent" /\ age[t] <= DeliveryWindow}

Deliverable == {t \in Tasks : status[t] = "pending" /\ age[t] <= DeliveryWindow}

(* The query has a limit and no order: any BatchLimit of the tasks.        *)
SelectBatch(w) ==
  /\ WorkerIdle(w)
  /\ \E B \in SUBSET Deliverable :
       /\ B # {}
       /\ \/ B = Deliverable /\ Cardinality(B) <= BatchLimit
          \/ Cardinality(B) = BatchLimit
       /\ todo' = [todo EXCEPT ![w] = B]
  /\ snap' = [snap EXCEPT ![w] = result]
  /\ UNCHANGED <<agent, taskRow, ledger, seen, plan, posts, lost, aborts, req>>

(* The recipient's status as the worker's session sees it.  The agent that *)
(* was loaded for the previous task is still in the session's identity     *)
(* map, and a second SELECT of the same row does not refresh it.           *)
RecipientStatus(w, t) ==
  IF seen[w].agent = to[t] THEN seen[w].status ELSE agent[to[t]]

Judge(w, t, v) ==
  /\ todo' = [todo EXCEPT ![w] = @ \ {t}]
  /\ plan' = [plan EXCEPT ![w][t] = v]
  /\ seen' = [seen EXCEPT ![w] = [agent |-> to[t], status |-> RecipientStatus(w, t)]]

(* The recipient is not active: the task fails without an attempt.         *)
RefuseInactive(w, t) ==
  /\ t \in todo[w]
  /\ RecipientStatus(w, t) # "active"
  /\ Judge(w, t, "inactive")
  /\ UNCHANGED <<agent, taskRow, ledger, snap, posts, lost, aborts, req>>

(* deliver_task_http returns "delivered".                                  *)
PostAccepted(w, t) ==
  /\ t \in todo[w]
  /\ RecipientStatus(w, t) = "active"
  /\ Judge(w, t, "running")
  /\ posts' = [posts EXCEPT ![t][snap[w][t].attempts] = @ + 1]
  /\ UNCHANGED <<agent, taskRow, ledger, snap, lost, aborts, req>>

(* The journal the worker loaded says that this attempt is the last one.   *)
(* Mutant: one attempt late.                                               *)
GivesUpLate(w, t) == snap[w][t].attempts + 1 > MAX_DELIVERY_ATTEMPTS

GivesUp(w, t) == snap[w][t].attempts + 1 >= MAX_DELIVERY_ATTEMPTS

(* deliver_task_http returns "queued": the attempt is journalled, or the   *)
(* endpoint is given up when the journal the worker loaded says so.        *)
PostRejected(w, t) ==
  /\ t \in todo[w]
  /\ RecipientStatus(w, t) = "active"
  /\ Judge(w, t, IF GivesUp(w, t) THEN "dead" ELSE "retry")
  /\ posts' = [posts EXCEPT ![t][snap[w][t].attempts] = @ + 1]
  /\ UNCHANGED <<agent, taskRow, ledger, snap, lost, aborts, req>>

(* A worker's commit: all its verdicts, with the outcomes that             *)
(* _record_terminal_outcome put in the same transaction.                   *)
CommitPlan(w) ==
  /\ todo[w] = {}
  /\ plan[w] # NoPlan
  /\ status'    = [t \in Tasks |-> StatusAfter(plan[w][t], status[t])]
  /\ error'     = [t \in Tasks |-> ErrorAfter(plan[w][t], error[t])]
  /\ result'    = [t \in Tasks |-> ResultAfter(plan[w][t], snap[w][t], result[t])]
  /\ completed' = [t \in Tasks |-> completed[t] \/ plan[w][t] \in Closing]
  /\ outcomes'  = [t \in Tasks |-> OutcomeAfter(plan[w][t], outcomes[t])]
  /\ plan' = [plan EXCEPT ![w] = NoPlan]
  /\ snap' = [snap EXCEPT ![w] = [t \in Tasks |-> Empty]]
  /\ seen' = [seen EXCEPT ![w] = NothingSeen]
  /\ UNCHANGED <<agent, to, ttl, age, reports, todo, posts, lost, aborts, req>>

(* An exception anywhere in the iteration, or the death of the replica:    *)
(* the transaction is rolled back, the POSTs are not.                      *)
Posted(w, t) == plan[w][t] \in {"running", "dead", "retry"}

AbortIteration(w) ==
  /\ ~WorkerIdle(w)
  /\ aborts < MaxAborts
  /\ aborts' = aborts + 1
  /\ lost' = [t \in Tasks |->
               IF Posted(w, t) THEN [lost[t] EXCEPT ![snap[w][t].attempts] = @ + 1]
               ELSE lost[t]]
  /\ todo' = [todo EXCEPT ![w] = {}]
  /\ plan' = [plan EXCEPT ![w] = NoPlan]
  /\ snap' = [snap EXCEPT ![w] = [t \in Tasks |-> Empty]]
  /\ seen' = [seen EXCEPT ![w] = NothingSeen]
  /\ UNCHANGED <<agent, taskRow, ledger, posts, req>>

(***************************************************************************)
(* One iteration of a TTL expiry worker.  The query compares the age with  *)
(* the heartbeat interval, not with the task's own ttl_seconds.            *)
(***************************************************************************)
(* Mutants: the query forgets the status; it looks only where the delivery *)
(* worker looks.                                                           *)
ExpiredAnyStatus == {t \in Tasks : status[t] # "absent" /\ age[t] >= HeartbeatInterval}

ExpiredInWindow ==
  {t \in Tasks : status[t] = "pending" /\ age[t] \in HeartbeatInterval..DeliveryWindow}

Expired == {t \in Tasks : status[t] = "pending" /\ age[t] >= HeartbeatInterval}

SelectExpired(w) ==
  /\ WorkerIdle(w)
  /\ Expired # {}
  /\ plan' = [plan EXCEPT ![w] = [t \in Tasks |->
                 IF t \in Expired THEN "timeout" ELSE "none"]]
  /\ UNCHANGED <<agent, taskRow, ledger, todo, snap, seen, posts, lost, aborts, req>>

(***************************************************************************)
(* Requests of the participants.                                           *)
(***************************************************************************)

(* report_task_result loads the task.  It does not look at the status.     *)
LoadReport(r, t, s) ==
  /\ req[r] = Idle
  /\ status[t] # "absent"
  /\ reports[t] < MaxReports
  /\ req' = [req EXCEPT ![r] =
               [kind |-> "report", task |-> t, was |-> status[t], says |-> s]]
  /\ UNCHANGED <<agent, taskRow, ledger, batch>>

(* It commits the reported status: the column is written only if it        *)
(* differs from the value that was loaded.  A report may carry a result    *)
(* and, when it says "failed", an error code.                              *)
CommitReport(r) ==
  LET t == req[r].task  s == req[r].says IN
  /\ req[r].kind = "report"
  /\ status' = IF s # req[r].was THEN [status EXCEPT ![t] = s] ELSE status
  /\ \/ result' = [result EXCEPT ![t] = [attempts |-> 0, reply |-> TRUE]]
     \/ UNCHANGED result
  /\ \/ s = "failed" /\ error' = [error EXCEPT ![t] = "reported"]
     \/ UNCHANGED error
  /\ completed' = [completed EXCEPT ![t] = TRUE]
  /\ reports' = [reports EXCEPT ![t] = @ + 1]
  /\ req' = [req EXCEPT ![r] = [@ EXCEPT !.kind = "outcome", !.was = "absent"]]
  /\ UNCHANGED <<agent, to, ttl, age, outcomes, batch>>

(* Only then, in a second transaction, the trust service hears of it.      *)
RecordReported(r) ==
  LET t == req[r].task IN
  /\ req[r].kind = "outcome"
  /\ outcomes' = IF req[r].says = "success"
                 THEN [outcomes EXCEPT ![t].good = @ + 1]
                 ELSE [outcomes EXCEPT ![t].bad = @ + 1]
  /\ req' = [req EXCEPT ![r] = Idle]
  /\ UNCHANGED <<agent, taskRow, reports, batch>>

(* append_task_stream_chunk loads the task ...                             *)
LoadChunk(r, t) ==
  /\ req[r] = Idle
  /\ status[t] # "absent"
  /\ req' = [req EXCEPT ![r] =
               [kind |-> "chunk", task |-> t, was |-> status[t], says |-> "success"]]
  /\ UNCHANGED <<agent, taskRow, ledger, batch>>

(* ... and, if it was pending when loaded, commits it as running.          *)
CommitChunk(r) ==
  LET t == req[r].task IN
  /\ req[r].kind = "chunk"
  /\ status' = IF req[r].was = "pending" THEN [status EXCEPT ![t] = "running"] ELSE status
  /\ req' = [req EXCEPT ![r] = Idle]
  /\ UNCHANGED <<agent, to, ttl, age, result, error, completed, ledger, batch>>

(* The request dies where it stands: what it committed stays committed.    *)
DropRequest(r) ==
  /\ req[r] # Idle
  /\ req' = [req EXCEPT ![r] = Idle]
  /\ UNCHANGED <<agent, taskRow, ledger, batch>>

Next ==
  \/ \E a \in Agents : Heartbeat(a) \/ MarkInactive(a) \/ Suspend(a) \/ Deregister(a)
  \/ \E t \in Tasks : Send(t)
  \/ Tick
  \/ \E w \in DeliveryWorkers :
       \/ SelectBatch(w)
       \/ \E t \in Tasks : RefuseInactive(w, t) \/ PostAccepted(w, t) \/ PostRejected(w, t)
  \/ \E w \in ExpiryWorkers : SelectExpired(w)
  \/ \E w \in Workers : CommitPlan(w) \/ AbortIteration(w)
  \/ \E r \in Requests :
       \/ \E t \in Tasks, s \in Reports : LoadReport(r, t, s)
       \/ \E t \in Tasks : LoadChunk(r, t)
       \/ CommitReport(r) \/ RecordReported(r) \/ CommitChunk(r) \/ DropRequest(r)

Spec == Init /\ [][Next]_vars

(***************************************************************************)
(* Time passes, and an expiry worker keeps iterating: its loop survives    *)
(* every exception and sleeps 30 s between iterations.  Nothing is assumed *)
(* of the delivery workers, of the agents or of the requests.              *)
(***************************************************************************)
Fairness ==
  /\ WF_vars(Tick)
  /\ \A w \in ExpiryWorkers : WF_vars(SelectExpired(w)) /\ WF_vars(CommitPlan(w))

FairSpec == Spec /\ Fairness

--------------------------------------------------------------------------------
(***************************************************************************)
(* Properties.                                                             *)
(***************************************************************************)

TypeOK ==
  /\ agent     \in [Agents -> AgentStatus]
  /\ status    \in [Tasks -> TaskStatus \cup {"absent"}]
  /\ to        \in [Tasks -> Agents]
  /\ ttl       \in [Tasks -> TTLs]
  /\ age       \in [Tasks -> Nat]
  /\ result    \in [Tasks -> Result]
  /\ error     \in [Tasks -> ErrorCode]
  /\ completed \in [Tasks -> BOOLEAN]
  /\ outcomes  \in [Tasks -> [good : Nat, bad : Nat]]
  /\ reports   \in [Tasks -> Nat]
  /\ todo      \in [Workers -> SUBSET Tasks]
  /\ snap      \in [Workers -> [Tasks -> Result]]
  /\ seen      \in [Workers -> [agent : Agents \cup {NoAgent}, status : AgentStatus]]
  /\ plan      \in [Workers -> [Tasks -> Verdict]]
  /\ posts     \in [Tasks -> [Levels -> Nat]]
  /\ lost      \in [Tasks -> [Levels -> Nat]]
  /\ aborts    \in Nat
  /\ req       \in [Requests -> Request]

(* The platform never closes a task without telling the trust service: a   *)
(* row that carries one of the workers' error codes has at least one       *)
(* failure outcome committed, whatever was overwritten before or since.    *)
PlatformClosureRecorded ==
  \A t \in Tasks :
    error[t] \in {"RECIPIENT_INACTIVE", "DEAD_ENDPOINT", "TIMEOUT"} =>
      outcomes[t].bad > 0

(* However many replicas deliver the same task, and however late they      *)
(* commit, a task still waiting for delivery has a journal below the cap   *)
(* of MAX_DELIVERY_ATTEMPTS and no reported result in its row.             *)
JournalBelowCap ==
  \A t \in Tasks :
    status[t] = "pending" =>
      result[t].attempts < MAX_DELIVERY_ATTEMPTS /\ ~result[t].reply

(* A task is charged to its recipient at most once per replica's worker    *)
(* and once per committed report, although timeouts, dead endpoints and    *)
(* reports race for the same row.                                          *)
OutcomesBounded ==
  \A t \in Tasks :
    outcomes[t].good + outcomes[t].bad <= Cardinality(Workers) + reports[t]

(* A journal is worth at most one POST per replica each time somebody      *)
(* writes it: with n delivery workers, at most n POSTs are made from the   *)
(* empty journal, and at most n from a journal of k attempts for each POST *)
(* made from one of k - 1, whatever stale snapshot a worker writes over a  *)
(* longer journal.  POSTs whose iteration was rolled back come on top.     *)
(* One replica thus makes MAX_DELIVERY_ATTEMPTS POSTs at most.             *)
PostsAccounted ==
  \A t \in Tasks, k \in Levels :
    posts[t][k] <= lost[t][k] + Cardinality(DeliveryWorkers) *
                     (IF k = 0 THEN 1 ELSE posts[t][k - 1] - lost[t][k - 1])

(* Delivery is one-way: no overlap of selects, journals, reports, chunks   *)
(* and timeouts ever puts a task back into the pool of pending ones.       *)
NeverPendingAgain ==
  [][\A t \in Tasks : status'[t] = "pending" => status[t] \in {"pending", "absent"}]_vars

(* A closed task is at rest when nobody who saw it pending still has a     *)
(* write to commit and no result report for it is in flight.               *)
AtRest(t) ==
  /\ status[t] \in Terminal
  /\ \A w \in Workers : t \notin todo[w] /\ plan[w][t] = "none"
  /\ \A r \in Requests :
       req[r].task = t =>
         \/ req[r].kind = "outcome"
         \/ req[r].kind = "chunk" /\ req[r].was # "pending"

(* A task at rest keeps its status, result and error code, and stays at    *)
(* rest, until a participant opens another result report: everything that  *)
(* overwrites a closed task was in flight when it was closed.              *)
RestingTaskIsStable ==
  [][\A t \in Tasks : AtRest(t) =>
        /\ UNCHANGED <<status[t], result[t], error[t]>>
        /\ \/ AtRest(t)'
           \/ \E r \in Requests : req'[r].kind = "report" /\ req'[r].task = t]_vars

(* Every task leaves the pool of pending tasks: even if its recipient      *)
(* never answers and no delivery worker runs, the expiry worker closes it. *)
PendingIsTemporary ==
  \A t \in Tasks : status[t] = "pending" ~> status[t] # "pending"

--------------------------------------------------------------------------------
(***************************************************************************)
(* What the repository says and the code does not do.                      *)
(***************************************************************************)

(* workers.py:11: the expiry worker marks as timeout the tasks that        *)
(* "exceeded ttl_seconds".                                                 *)
TimeoutMeansExceededTTL ==
  \A t \in Tasks : error[t] = "TIMEOUT" => age[t] >= ttl[t]

(* workers.py:12: a timeout is "a definitive outcome".                     *)
TimeoutIsDefinitive ==
  [][\A t \in Tasks : status[t] = "timeout" => status'[t] = "timeout"]_vars
================================================================================
