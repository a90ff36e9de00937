----------------------------- MODULE MessageIntake -----------------------------
(***************************************************************************)
(* From POST /messages or /tasks to rows of "tasks" and the first attempts *)
(* to reach the recipients (services/messaging/service.py, send_message    *)
(* and broadcast_to_team), and the listener that is to forward what NATS   *)
(* holds for an inbox (core/workers.py, nats_inbox_listener).              *)
(*                                                                         *)
(* A session reads whether the envelope is a repetition, then who gets it, *)
(* commits the tasks, calls the recipients and NATS, and commits the audit *)
(* event when the request ends; it may be lost anywhere.  What becomes of  *)
(* a task afterwards is TaskLifecycle's.  Signatures, schemas and          *)
(* contracts are conditions on the envelope and rows that do not change:   *)
(* an envelope here is one that satisfies them.                            *)
(***************************************************************************)
EXTENDS Integers, FiniteSets, Sequences, FiniteSetsExt

CONSTANTS
  Sessions,
  Agents,
  Team,          \* the destination team:<id>
  MessageIds,    \* message ids senders choose
  NoId,          \* an envelope without message_id
  Envelopes,     \* [content, id, to]: equal envelopes have equal hashes
  MaxTasks       \* bound: tasks in the table when a send arrives

ASSUME IntakeAssumption ==
  /\ Team \notin Agents /\ NoId \notin MessageIds /\ "+" \notin Agents
  /\ \A e \in Envelopes : e.id \in MessageIds \cup {NoId} /\ e.to \in Agents \cup {Team}
  /\ MaxTasks \in Nat
  /\ IsFiniteSet(Sessions) /\ IsFiniteSet(Envelopes) /\ IsFiniteSet(Agents)

VARIABLES
  reachable,  \* agents that are active and not deleted; all are members of
              \* the team, and leaving it is like becoming inactive
  tasks,      \* tasks of an envelope for an agent
  session,
  posted,     \* calls of the agent's endpoint with the envelope
  inbox,      \* messages of OAN_TASKS with the envelope
  audited,    \* committed audit events of sends of the envelope
  lost        \* sends of it whose session was lost after the commit

vars == <<reachable, tasks, session, posted, inbox, audited, lost>>

Stage   == {"received", "committing", "posting", "publishing", "ending"}
Idle    == [pc |-> "idle"]
Working == [pc : Stage, envelope : Envelopes, left : SUBSET Agents]

Init ==
  /\ reachable = Agents
  /\ tasks = [e \in Envelopes |-> [a \in Agents |-> 0]]
  /\ session = [s \in Sessions |-> Idle]
  /\ posted = tasks
  /\ inbox = [e \in Envelopes |-> 0]
  /\ audited = inbox
  /\ lost = inbox

(***************************************************************************)
(* The conditions of a request, and the order of what it does.             *)
(***************************************************************************)
Count(e)     == SumFunction(tasks[e])
TotalTasks   == MapThenSumSet(Count, Envelopes)

(* A broadcast gives its tasks ids of their own.                           *)
IdTaken(id) == \E e \in Envelopes :
  e.to # Team /\ e.id = id /\ \E a \in Agents : tasks[e][a] > 0

(* Mutant: only ids chosen by the sender are looked up.                    *)
RepeatedById(e) == e.to # Team /\ e.id # NoId /\ IdTaken(e.id)

(* FR-MSG-005, by id or by hash; a broadcast is never a repetition.        *)
Repeated(e) ==
  /\ e.to # Team
  /\ IF e.id # NoId THEN IdTaken(e.id) ELSE \E a \in Agents : tasks[e][a] > 0

Recipients(e) == IF e.to = Team THEN reachable ELSE reachable \cap {e.to}

(* Mutant: the agent is called before the commit.                          *)
PostsFirst(e) == <<"received", "posting", "committing", "publishing", "ending">>

Order(e) == IF e.to = Team THEN <<"received", "committing", "publishing", "posting", "ending">>
                           ELSE <<"received", "committing", "posting", "publishing", "ending">>

After(e, pc) == Order(e)[1 + CHOOSE i \in 1 .. 4 : Order(e)[i] = pc]

Proceed(s) == [session EXCEPT ![s].pc = After(session[s].envelope, session[s].pc)]

--------------------------------------------------------------------------------
(***************************************************************************)
(* A request.                                                              *)
(***************************************************************************)
Send(s, e) ==
  /\ session[s] = Idle /\ TotalTasks < MaxTasks
  /\ ~Repeated(e)
  /\ session' = [session EXCEPT ![s] = [pc |-> "received", envelope |-> e, left |-> {}]]
  /\ UNCHANGED <<reachable, tasks, posted, inbox, audited, lost>>

Resolve(s) ==
  /\ session[s].pc = "received"
  /\ session' = IF Recipients(session[s].envelope) = {} THEN [session EXCEPT ![s] = Idle]
                ELSE [Proceed(s) EXCEPT ![s].left = Recipients(session[s].envelope)]
  /\ UNCHANGED <<reachable, tasks, posted, inbox, audited, lost>>

(* message_id becomes the primary key of the task: the second insertion of *)
(* an id waits for the first and fails.  A broadcast ignores it and makes  *)
(* a task of its own for every member.                                     *)
Commit(s) ==
  LET e == session[s].envelope
  IN  /\ session[s].pc = "committing"
      /\ IF e.to # Team /\ e.id # NoId /\ IdTaken(e.id)
         THEN session' = [session EXCEPT ![s] = Idle] /\ UNCHANGED tasks
         ELSE /\ session' = Proceed(s)
              /\ tasks' = [tasks EXCEPT ![e] = [a \in Agents |-> IF a \in session[s].left THEN @[a] + 1 ELSE @[a]]]
      /\ UNCHANGED <<reachable, posted, inbox, audited, lost>>

(* One POST; its failure is ignored.                                       *)
Post(s, a) ==
  LET e == session[s].envelope
  IN  /\ session[s].pc = "posting" /\ a \in session[s].left
      /\ posted' = [posted EXCEPT ![e][a] = @ + 1]
      /\ session' = IF session[s].left = {a} THEN [Proceed(s) EXCEPT ![s].left = {}]
                    ELSE [session EXCEPT ![s].left = @ \ {a}]
      /\ UNCHANGED <<reachable, tasks, inbox, audited, lost>>

(* NATS has the envelope, or is not available.                             *)
Publish(s) ==
  /\ session[s].pc = "publishing"
  /\ inbox' \in {inbox, [inbox EXCEPT ![session[s].envelope] = @ + 1]}
  /\ session' = Proceed(s)
  /\ UNCHANGED <<reachable, tasks, posted, audited, lost>>

(* The session commits the audit event.                                    *)
End(s) ==
  /\ session[s].pc = "ending"
  /\ audited' = [audited EXCEPT ![session[s].envelope] = @ + 1]
  /\ session' = [session EXCEPT ![s] = Idle]
  /\ UNCHANGED <<reachable, tasks, posted, inbox, lost>>

Committed(s) == session[s].pc \in {"posting", "publishing", "ending"}

(* The request is cancelled, the replica dies, or a statement fails: what  *)
(* was not committed is not, and nobody takes up the rest.                 *)
Lose(s) ==
  /\ session[s] # Idle
  /\ lost' = IF Committed(s) THEN [lost EXCEPT ![session[s].envelope] = @ + 1] ELSE lost
  /\ session' = [session EXCEPT ![s] = Idle]
  /\ UNCHANGED <<reachable, tasks, posted, inbox, audited>>

--------------------------------------------------------------------------------
(***************************************************************************)
(* Others.                                                                 *)
(***************************************************************************)
(* NATS subjects: "*" stands for one token, and any other token for        *)
(* itself, "+" too.                                                        *)
Subject(e) == IF e.to = Team THEN <<"oan", "messages", "team", Team>>
                             ELSE <<"oan", "messages", e.to, "inbox">>
Filter == <<"oan", "messages", "+", "inbox">>

Matches(subject) ==
  /\ Len(subject) = Len(Filter)
  /\ \A i \in 1 .. Len(Filter) : Filter[i] \in {"*", subject[i]}

(* The listener forwards what it fetches and acknowledges it whether or    *)
(* not that worked.  Its filter matches no agent's inbox: it fetches       *)
(* nothing, and a message stays until the stream drops it.                 *)
Listen ==
  LET fetched == {e \in Envelopes : inbox[e] > 0 /\ Matches(Subject(e))}
  IN  /\ posted' = [e \in Envelopes |-> [a \in Agents |->
                      IF e \in fetched /\ a = e.to THEN posted[e][a] + inbox[e] ELSE posted[e][a]]]
      /\ inbox' = [e \in Envelopes |-> IF e \in fetched THEN 0 ELSE inbox[e]]
      /\ UNCHANGED <<reachable, tasks, session, audited, lost>>

(* The registry and the teams, between any two steps.                      *)
AgentChanges(a) ==
  /\ reachable' = IF a \in reachable THEN reachable \ {a} ELSE reachable \cup {a}
  /\ UNCHANGED <<tasks, session, posted, inbox, audited, lost>>

Next ==
  \/ \E s \in Sessions :
       \/ \E e \in Envelopes : Send(s, e)
       \/ Resolve(s) \/ Commit(s) \/ Publish(s) \/ End(s) \/ Lose(s)
       \/ \E a \in Agents : Post(s, a)
  \/ Listen
  \/ \E a \in Agents : AgentChanges(a)

Spec == Init /\ [][Next]_vars

--------------------------------------------------------------------------------
(***************************************************************************)
(* Properties.                                                             *)
(***************************************************************************)
TypeOK ==
  /\ reachable \subseteq Agents 
  /\ tasks \in [Envelopes -> [Agents -> Nat]]
  /\ session \in [Sessions -> {Idle} \cup Working]
  /\ posted \in [Envelopes -> [Agents -> Nat]]
  /\ {inbox, audited, lost} \subseteq [Envelopes -> Nat]

Sending(e) == {s \in Sessions : session[s] # Idle /\ session[s].envelope = e}
Sent(e)    == {s \in Sending(e) : Committed(s)}

(* Repetitions become tasks only together: there is one task at most with  *)
(* a message id its sender chose, and of an envelope without id no more    *)
(* than the sessions that had looked for it before the first of them       *)
(* committed, whatever is sent again later.                                *)
RepeatsOnlyTogether ==
  /\ \A e, f \in Envelopes : e.to # Team /\ f.to # Team /\ e.id = f.id /\ e.id # NoId =>
       /\ tasks[e][e.to] <= 1
       /\ tasks[e][e.to] > 0 /\ tasks[f][f.to] > 0 => e = f
  /\ \A e \in Envelopes : e.to # Team /\ e.id = NoId =>
       tasks[e][e.to] + Cardinality(Sending(e) \ Sent(e)) <= Cardinality(Sessions)

(* The books of a send agree whatever fails: there is a task of the        *)
(* envelope for an agent only from a committed send, which is audited,     *)
(* lost or still at work, and a send to one agent has exactly one; a send  *)
(* calls an agent once at most for each of its tasks, and not before the   *)
(* task is committed.  (The delivery workers call it too: TaskLifecycle.)  *)
SendsAccounted == \A e \in Envelopes :
  /\ e.to # Team => tasks[e][e.to] = audited[e] + lost[e] + Cardinality(Sent(e))
  /\ \A a \in Agents :
       /\ tasks[e][a] <= audited[e] + lost[e] + Cardinality(Sent(e))
       /\ posted[e][a] + Cardinality({s \in Sent(e) : a \in session[s].left}) <= tasks[e][a]
===============================================================================
