----------------------------- MODULE WorkflowEngine -----------------------------
(***************************************************************************)
(* The orchestration engine (services/orchestration/service.py) around one *)
(* workflow.  The dispatch worker of every replica (core/workers.py) polls *)
(* for pending workflows and runs the engine on them.  A run claims the    *)
(* row FOR UPDATE and works in one long session, which send_message        *)
(* commits under its feet: the claim, and what the run has written since,  *)
(* become durable with the next task that is sent, and only the claim's    *)
(* row lock keeps other runs out until then.                               *)
(*                                                                         *)
(* Workflows share no rows: one stands for all.  Contexts, payloads and    *)
(* results are left out; the events published are best effort and nothing  *)
(* reads them.                                                             *)
(***************************************************************************)
EXTENDS Dag

CONSTANTS
  Engines, NoEngine,  \* the dispatch workers of the replicas
  Definition,         \* the steps of the workflow, as create_workflow got them
  MAX_RETRIES,
  MaxPolls,           \* bound: polls of a task before the deadline
  MaxFaults,          \* bound: sessions lost by the runs and their last resort
  MaxCrashes          \* bound: replicas that die

ASSUME ConstantsAssumption ==
  /\ NoEngine \notin Engines
  /\ MAX_RETRIES \in Nat
  /\ MaxPolls \in Nat \ {0}
  /\ MaxFaults \in Nat
  /\ MaxCrashes \in Nat

(* create_workflow stores a definition only if it is valid.                *)
ASSUME DefinitionAssumption ==
  /\ Definition \in Seq([id : Ids(Definition), depends_on : Seq(Ids(Definition))])
  /\ Accepted(Definition)

Nodes == Ids(Definition)
Order == TopologicalOrder(Definition)

VARIABLES
  wf,       \* workflows.status
  step,     \* workflow_tasks.status of each node
  task,     \* tasks.status of the last task sent for each node
  sent,     \* tasks sent for each node
  lock,     \* the run that has the row of the workflow FOR UPDATE
  engine,   \* the runs
  owner,    \* the run whose claim was committed
  faults, crashes,
  abandoned \* history: the run that had claimed it lost its last resort as well

vars == <<wf, step, task, sent, lock, engine, owner, faults, crashes, abandoned>>

Ended      == {"success", "partial", "failed"}
StepStatus == {"pending"} \cup Ended
TaskStatus == {"none", "open"} \cup Ended  \* declined, timeout: as failed

(* A run: "waiting" for the row; "running" the step at position at;        *)
(* "polling" the task it sent for it; "broken", its session is lost and    *)
(* the handler of last resort begins; "judged", that one found the         *)
(* workflow running.  view is what the session sees of the steps, seen     *)
(* the object its polls look at.                                           *)
Run == [pc      : {"idle", "waiting", "running", "polling", "broken", "judged"},
        at      : 1 .. Len(Order) + 1,
        attempt : 0 .. MAX_RETRIES,
        polls   : 0 .. MaxPolls,
        seen    : TaskStatus,
        view    : [Nodes -> StepStatus]]

Pending == [n \in Nodes |-> "pending"]
Idle    == [pc |-> "idle", at |-> 1, attempt |-> 0, polls |-> 0, seen |-> "none", view |-> Pending]

Init ==
  /\ wf      = "pending"
  /\ step    = Pending
  /\ task    = [n \in Nodes |-> "none"]
  /\ sent    = [n \in Nodes |-> 0]
  /\ lock    = NoEngine
  /\ engine  = [e \in Engines |-> Idle]
  /\ owner   = NoEngine
  /\ faults  = 0
  /\ crashes = 0
  /\ abandoned = FALSE

Node(e)   == Order[engine[e].at]
Unlock(e) == IF lock = e THEN NoEngine ELSE lock

--------------------------------------------------------------------------------
(***************************************************************************)
(* Dispatch and claim.                                                     *)
(***************************************************************************)

(* workflow_dispatch_worker finds the workflow pending; in_flight keeps it *)
(* from starting a second run of it.                                       *)
Dispatch(e) ==
  /\ engine[e] = Idle
  /\ wf = "pending"
  /\ engine' = [engine EXCEPT ![e].pc = "waiting"]
  /\ UNCHANGED <<wf, step, task, sent, lock, owner, faults, crashes, abandoned>>

(* Mutant: the row is selected without FOR UPDATE.                         *)
UnlockedRow == TRUE

RowFree == lock = NoEngine

Claim(e) ==
  /\ engine[e].pc = "waiting"
  /\ RowFree
  /\ IF wf = "pending"
     THEN engine' = [engine EXCEPT ![e].pc = "running", ![e].view = step] /\ lock' = e
     ELSE engine' = [engine EXCEPT ![e] = Idle] /\ UNCHANGED lock
  /\ UNCHANGED <<wf, step, task, sent, owner, faults, crashes, abandoned>>

--------------------------------------------------------------------------------
(***************************************************************************)
(* The steps, in topological order.  All of them are pending when a run    *)
(* claims the workflow: its loop's guard against finished ones never bites. *)
(***************************************************************************)

(* Mutant: a failed dependency does not matter.                            *)
DepsTried(view, n) == \A d \in Deps(Definition)[n] : view[d] # "pending"

DepsOk(view, n) == \A d \in Deps(Definition)[n] : view[d] \in {"success", "partial"}

Runs(e) == engine[e].pc = "running" /\ engine[e].at <= Len(Order)

(* The step at hand gets its outcome, and the run turns to the next one.   *)
Settle(e, outcome) ==
  [Idle EXCEPT !.pc   = "running",
               !.at   = engine[e].at + 1,
               !.view = [engine[e].view EXCEPT ![Node(e)] = outcome]]

AttemptsLeft(e) == engine[e].attempt < MAX_RETRIES

(* An attempt raised: another one, or the step has failed.                 *)
AttemptFails(e) ==
  IF AttemptsLeft(e)
  THEN [Idle EXCEPT !.pc      = "running",
                    !.at      = engine[e].at,
                    !.attempt = engine[e].attempt + 1,
                    !.view    = engine[e].view]
  ELSE Settle(e, "failed")

(* A step with a failed dependency is not tried.                           *)
FailDependent(e) ==
  /\ Runs(e)
  /\ ~DepsOk(engine[e].view, Node(e))
  /\ engine' = [engine EXCEPT ![e] = Settle(e, "failed")]
  /\ UNCHANGED <<wf, step, task, sent, lock, owner, faults, crashes, abandoned>>

(* No agent has the capability, or send_message refuses.                   *)
SendFails(e) ==
  /\ Runs(e)
  /\ DepsOk(engine[e].view, Node(e))
  /\ engine' = [engine EXCEPT ![e] = AttemptFails(e)]
  /\ UNCHANGED <<wf, step, task, sent, lock, owner, faults, crashes, abandoned>>

(* send_message inserts a task and commits the session it was given: with  *)
(* the first one the claim, later the steps settled since the last one.    *)
Send(e) ==
  /\ Runs(e)
  /\ DepsOk(engine[e].view, Node(e))
  /\ task' = [task EXCEPT ![Node(e)] = "open"]
  /\ sent' = [sent EXCEPT ![Node(e)] = @ + 1]
  /\ IF lock = e THEN wf' = "running" /\ owner' = e ELSE UNCHANGED <<wf, owner>>
  /\ step' = engine[e].view
  /\ lock' = Unlock(e)
  /\ engine' = [engine EXCEPT ![e].pc = "polling"]
  /\ UNCHANGED <<faults, crashes, abandoned>>

(* The first poll loads the task.  The session then knows the row as an    *)
(* object, which the loop's variable keeps alive, and later polls get that *)
(* object again with the attributes it had.                                *)
Polled(e) == IF engine[e].polls = 0 THEN task[Node(e)] ELSE engine[e].seen

(* A result is the step's outcome, and its fields decide, whatever the     *)
(* status: one with an error fails the step, without another attempt, and  *)
(* the field partial replaces the flag that a partial task is given.       *)
Verdicts(status) ==
  IF status \in {"success", "partial"} THEN {"success", "partial", "failed"} ELSE {}

Poll(e) ==
  /\ engine[e].pc = "polling"
  /\ engine[e].polls < MaxPolls
  /\ \/ \E outcome \in Verdicts(Polled(e)) :
          engine' = [engine EXCEPT ![e] = Settle(e, outcome)]
     \/ /\ Polled(e) = "failed"
        /\ engine' = [engine EXCEPT ![e] = AttemptFails(e)]
     \/ /\ Polled(e) = "open"
        /\ engine' = [engine EXCEPT ![e].polls = @ + 1, ![e].seen = "open"]
  /\ UNCHANGED <<wf, step, task, sent, lock, owner, faults, crashes, abandoned>>

(* MAX_STEP_RUN_TIME_SECONDS have passed, after one poll at least.         *)
GiveUp(e) ==
  /\ engine[e].pc = "polling"
  /\ engine[e].polls > 0
  /\ engine' = [engine EXCEPT ![e] = AttemptFails(e)]
  /\ UNCHANGED <<wf, step, task, sent, lock, owner, faults, crashes, abandoned>>

--------------------------------------------------------------------------------
(***************************************************************************)
(* The end of a run.                                                       *)
(***************************************************************************)

FailedIn(view) == {n \in Nodes : view[n] = "failed"}

(* Mutant: a workflow without a success is partial too.                   *)
AggregateOffByOne(view) == IF FailedIn(view) = {} THEN "success" ELSE "partial"

Aggregate(view) ==
  CASE FailedIn(view) = {} -> "success"
    [] Cardinality(FailedIn(view)) \in 1 .. Len(Order) - 1 -> "partial"
    [] Cardinality(FailedIn(view)) = Len(Order) -> "failed"

Finish(e) ==
  /\ engine[e].pc = "running"
  /\ engine[e].at = Len(Order) + 1
  /\ wf' = Aggregate(engine[e].view)
  /\ step' = engine[e].view
  /\ lock' = Unlock(e)
  /\ engine' = [engine EXCEPT ![e] = Idle]
  /\ UNCHANGED <<task, sent, owner, faults, crashes, abandoned>>

(* The session is lost (no connection is to be had, or a closed one fails  *)
(* every attempt of every step, and then the flush): what it has not       *)
(* committed is gone, and its lock with it.                                *)
Break(e) ==
  /\ faults < MaxFaults
  /\ engine[e].pc \in {"waiting", "running", "polling"}
  /\ engine' = [engine EXCEPT ![e] = [Idle EXCEPT !.pc = "broken"]]
  /\ lock' = Unlock(e)
  /\ faults' = faults + 1
  /\ UNCHANGED <<wf, step, task, sent, owner, crashes, abandoned>>

(* The handler of last resort, in a session of its own and without a lock: *)
(* it reads the workflow, and fails it if it is running.                   *)
ReadBack(e) ==
  /\ engine[e].pc = "broken"
  /\ engine' = [engine EXCEPT ![e] = IF wf = "running" THEN [Idle EXCEPT !.pc = "judged"] ELSE Idle]
  /\ UNCHANGED <<wf, step, task, sent, lock, owner, faults, crashes, abandoned>>

(* Mutant: the handler of last resort forgets to commit.                   *)
LeftRunning == wf

MarkFailed == "failed"

FailWorkflow(e) ==
  /\ engine[e].pc = "judged"
  /\ RowFree
  /\ wf' = MarkFailed
  /\ engine' = [engine EXCEPT ![e] = Idle]
  /\ UNCHANGED <<step, task, sent, lock, owner, faults, crashes, abandoned>>

(* The handler of last resort loses its session too, before its commit:    *)
(* that is only logged, and the workflow stays as it is.                   *)
LoseHandler(e) ==
  /\ faults < MaxFaults
  /\ engine[e].pc \in {"broken", "judged"}
  /\ engine' = [engine EXCEPT ![e] = Idle]
  /\ faults' = faults + 1
  /\ abandoned' = (abandoned \/ owner = e)
  /\ UNCHANGED <<wf, step, task, sent, lock, owner, crashes>>

(* The replica dies, and starts again.                                     *)
Crash(e) ==
  /\ crashes < MaxCrashes
  /\ engine[e] # Idle
  /\ engine' = [engine EXCEPT ![e] = Idle]
  /\ lock' = Unlock(e)
  /\ crashes' = crashes + 1
  /\ UNCHANGED <<wf, step, task, sent, owner, faults, abandoned>>

(* The recipient of a task answers, or the platform closes it (see         *)
(* TaskLifecycle); tasks of earlier attempts are no longer looked at.      *)
TaskEnds(n) ==
  /\ task[n] = "open"
  /\ \E s \in Ended : task' = [task EXCEPT ![n] = s]
  /\ UNCHANGED <<wf, step, sent, lock, engine, owner, faults, crashes, abandoned>>

Advance(e) ==
  \/ Dispatch(e) \/ Claim(e)
  \/ FailDependent(e) \/ SendFails(e) \/ Send(e) \/ Poll(e) \/ GiveUp(e)
  \/ Finish(e) \/ ReadBack(e) \/ FailWorkflow(e)

Next ==
  \/ \E e \in Engines : Advance(e) \/ Break(e) \/ LoseHandler(e) \/ Crash(e)
  \/ \E n \in Nodes : TaskEnds(n)

Spec == Init /\ [][Next]_vars

(* The event loop of a replica keeps running its dispatch worker and its   *)
(* runs; nothing obliges recipients to answer.                             *)
FairSpec == Spec /\ \A e \in Engines : WF_vars(Advance(e))

--------------------------------------------------------------------------------
(***************************************************************************)
(* Properties.                                                             *)
(***************************************************************************)

TypeOK ==
  /\ wf      \in {"pending", "running"} \cup Ended
  /\ step    \in [Nodes -> StepStatus]
  /\ task    \in [Nodes -> TaskStatus]
  /\ sent    \in [Nodes -> Nat]
  /\ lock    \in Engines \cup {NoEngine}
  /\ engine  \in [Engines -> Run]
  /\ owner   \in Engines \cup {NoEngine}
  /\ faults  \in 0 .. MaxFaults
  /\ crashes \in 0 .. MaxCrashes
  /\ abandoned \in BOOLEAN

(* However many replicas find the workflow pending, one run sends its      *)
(* tasks: no step is tried more often than its retries allow.              *)
AttemptsBounded == \A n \in Nodes : sent[n] <= MAX_RETRIES + 1

(* A task is sent only when the steps it depends on have succeeded for     *)
(* good: their results are committed no later than the task itself.        *)
DependenciesFirst ==
  [][\A n \in Nodes : sent'[n] > sent[n] =>
       \A d \in Deps(Definition)[n] : step'[d] \in {"success", "partial"}]_vars

(* The outcome of a workflow agrees with the committed outcomes of its     *)
(* steps, whoever else has had a hand in it.                               *)
OutcomeAgreesWithSteps ==
  /\ wf = "success" => FailedIn(step) = {} /\ \A n \in Nodes : step[n] # "pending"
  /\ wf = "partial" => FailedIn(step) \notin {{}, Nodes} /\ \A n \in Nodes : step[n] # "pending"

(* A workflow ends, whatever the recipients do and whichever run loses its *)
(* session, unless a replica dies or the run that has claimed the workflow *)
(* loses its session and then the one in which it would fail the workflow: *)
(* nothing looks at a running workflow again.                              *)
EveryWorkflowEnds == <>(wf \in Ended \/ crashes > 0 \/ abandoned)

--------------------------------------------------------------------------------
(***************************************************************************)
(* What the repository says and the code does not do.                      *)
(***************************************************************************)

(* service.py:420: "The task row must be fetched fresh on every iteration." *)
PollsAreFresh ==
  [][\A e \in Engines : engine'[e].polls > engine[e].polls =>
       engine'[e].seen = task[Node(e)]]_vars
================================================================================
