------------------------------ MODULE TrustLedger ------------------------------
(***************************************************************************)
(* The trust service (services/trust/service.py) behind its routes         *)
(* (api/v1/trust.py) and behind the workers and reports that record        *)
(* outcomes of tasks.  Every request reads the trust record of an agent    *)
(* without a lock, computes on its copy and commits the columns it has     *)
(* changed; records are created by whoever misses one first.               *)
(*                                                                         *)
(* Numbers are in thousandths.  The age component of a score changes with  *)
(* the clock only: it stays at its initial value.                          *)
(* Weights of endorsements, comments, anomaly events and the index of      *)
(* scores (module Directory) are left out.                                 *)
(***************************************************************************)
EXTENDS Integers, FiniteSets

CONSTANTS
  Agents, Disputes,
  Subjects,      \* bound: the agents whose records the sessions are about
  Requests,      \* the sessions that may be open at the same time
  NoRecord,      \* an agent without a row in trust_records
  ReportedAgent, \* the agent each dispute is about
  Observations,  \* the <<execution_ms, target_ms>> an outcome may come with
  MaxOutcomes    \* bound: no outcome is reported once so many are committed

ASSUME TrustAssumption ==
  /\ Subjects \subseteq Agents
  /\ ReportedAgent \in [Disputes -> Subjects]
  /\ Observations \subseteq Int \X Int
  /\ MaxOutcomes \in Nat

VARIABLES
  trust,     \* trust_records
  endorsed,  \* endorsements: <<from, to>>
  dispute,   \* disputes.status
  reviewed,  \* the disputes with a reviewed_at
  req,       \* the sessions
  hist       \* history: what was committed about an agent that has a record

vars == <<trust, endorsed, dispute, reviewed, req, hist>>

Fraction == 0 .. 1000

(* component_scores is one column: empty, or what a score was made of.     *)
NoComponents == [latency |-> 500]
Components   == [outcome : Fraction, latency : Fraction, health : Fraction]

Record == [total      : Nat,            \* total_tasks
           good       : Nat,            \* successful_tasks
           rate       : Nat,            \* outcome_rate
           penalty    : Fraction,       \* dispute_penalty
           disputes   : Nat,            \* dispute_count
           endorsers  : SUBSET Agents,  \* whom endorsement_score is the mean of
           components : Components \cup {NoComponents},
           score      : Fraction]       \* trust_score, with its CHECK constraint

NewRecord == [total |-> 0, good |-> 0, rate |-> 500, penalty |-> 0, disputes |-> 0,
              endorsers |-> {}, components |-> NoComponents, score |-> 500]

Endorsement == {p \in Agents \X Agents : p[1] # p[2]}

Reviewable    == {"open", "under_review"}
Verdict       == {"resolved_valid", "resolved_invalid", "withdrawn"}
DisputeStatus == {"none"} \cup Reviewable \cup Verdict

Recorded == Record \cup {NoRecord}

ASSUME NoRecordAssumption == NoRecord \notin Record

(* Sessions.  was is the record as the session loaded it, and fresh says   *)
(* that it has inserted it itself.  Recording is an outcome to fold in, or *)
(* a look at the record; Endorsing is an endorsement before and after its  *)
(* row is inserted, when it has seen the endorsers of the agent; Judging   *)
(* is a dispute that has been read, and then written, to get the status to. *)
Idle      == [pc |-> "idle"]
Recording == [pc : {"success", "failure", "view"}, agent : Agents, was : Recorded, fresh : BOOLEAN]
Endorsing == [pc : {"endorse", "endorsed"}, agent : Agents, from : Agents, seen : SUBSET Agents,
              was : Recorded, fresh : BOOLEAN]
Judging   == [pc : {"read", "written"}, d : Disputes, to : DisputeStatus, was : Recorded]

History == [outcomes : Nat, successes : Nat, verdicts : Nat, flags : Nat]
NoHistory == [outcomes |-> 0, successes |-> 0, verdicts |-> 0, flags |-> 0]

Init ==
  /\ trust    = [a \in Agents |-> NoRecord]
  /\ endorsed = {}
  /\ dispute  = [d \in Disputes |-> "none"]
  /\ reviewed = {}
  /\ req      = [r \in Requests |-> Idle]
  /\ hist     = [a \in Agents |-> NoHistory]

Held(r, d) == req[r].pc = "written" /\ req[r].d = d

--------------------------------------------------------------------------------
(***************************************************************************)
(* The record of an agent.                                                 *)
(***************************************************************************)
Clamped(x) == IF x > 1000 THEN 1000 ELSE x

(* _latency_adherence: neutral without an observation or a target.         *)
LatencyAdherence(execution, target) ==
  IF execution < 0 \/ target <= 0 THEN 500
  ELSE Clamped((1000 * target) \div (IF execution = 0 THEN 1 ELSE execution))

(* Mutant: the age is weighed in, its weight is not.                       *)
Lighter(c) == (40 * c.outcome + 25 * c.latency + 25 * c.health + 10 * 100) \div 90

(* combine: the mean of the default components by their default weights.   *)
WeightedMean(c) == (40 * c.outcome + 25 * c.latency + 25 * c.health + 10 * 100) \div 100

(* _compute_trust_score, from the latency the session has observed, or the *)
(* one stored with the last score.                                         *)
Rescored(rec, latency) ==
  LET c == [outcome |-> Clamped(rec.rate), latency |-> latency, health |-> 1000 - rec.penalty]
  IN  [rec EXCEPT !.components = c, !.score = WeightedMean(c)]

Scored(rec) == Rescored(rec, rec.components.latency)

AfterOutcome(rec, success, latency) ==
  LET total == rec.total + 1
      good  == IF success THEN rec.good + 1 ELSE rec.good
  IN  Rescored([rec EXCEPT !.total = total, !.good = good, !.rate = (1000 * good) \div total], latency)

(* Mutant: whatever the verdict, it costs.                                 *)
AnyVerdict(rec, to) == Scored([rec EXCEPT !.penalty = Clamped(@ + 150)])

AfterVerdict(rec, to) ==
  IF to = "resolved_valid" THEN Scored([rec EXCEPT !.penalty = Clamped(@ + 150)]) ELSE Scored(rec)

(* The ORM updates the columns whose value is no longer the loaded one;    *)
(* what others have committed to the rest stays.  A computed score is a    *)
(* float and its column is loaded as a Decimal, so one that is assigned is *)
(* nearly always written, equal or not: here an equal one is left alone.   *)
(* No property relates scores to anything but their range.                 *)
Merge(row, was, now) ==
  [c \in DOMAIN row |-> IF now[c] # was[c] THEN now[c] ELSE row[c]]

(* Mutant: a new record is not added to the session.                       *)
NotAdded(s, now) ==
  trust' = IF s.fresh THEN trust ELSE [trust EXCEPT ![s.agent] = Merge(@, s.was, now)]

(* What the commit of session s makes of the record: an insertion, or an   *)
(* update of the row as it is by now.                                      *)
Store(s, now) ==
  trust' = [trust EXCEPT ![s.agent] = IF s.fresh THEN now ELSE Merge(@, s.was, now)]

(* A session without a record inserts one: it waits for others that do the *)
(* same, and is rolled back, with all it carries, if one of them was first. *)
NewRow(a, r) == \A q \in Requests \ {r} :
  req[q].pc \in {"success", "failure", "view", "endorse", "endorsed"} => ~(req[q].agent = a /\ req[q].fresh)

Create(r) ==
  /\ req[r].pc \in {"success", "failure", "view", "endorse"}
  /\ req[r].was = NoRecord
  /\ NewRow(req[r].agent, r)
  /\ req' = [req EXCEPT ![r] = IF trust[req[r].agent] = NoRecord
                              THEN [req[r] EXCEPT !.was = NewRecord, !.fresh = TRUE]
                              ELSE Idle]
  /\ UNCHANGED <<trust, endorsed, dispute, reviewed, hist>>

Finish(r) == req' = [req EXCEPT ![r] = Idle]

Abort(r) ==
  /\ req[r] # Idle
  /\ Finish(r)
  /\ UNCHANGED <<trust, endorsed, dispute, reviewed, hist>>

--------------------------------------------------------------------------------
(***************************************************************************)
(* Outcomes, and looking at a score.                                       *)
(***************************************************************************)
Load(r, op, a) ==
  /\ req[r] = Idle
  /\ op = "view" \/ hist[a].outcomes < MaxOutcomes
  /\ req' = [req EXCEPT ![r] = [pc |-> op, agent |-> a, was |-> trust[a], fresh |-> FALSE]]
  /\ UNCHANGED <<trust, endorsed, dispute, reviewed, hist>>

GetTrustRecord(r) ==
  /\ req[r].pc = "view"
  /\ req[r].was # NoRecord
  /\ Store(req[r], req[r].was)
  /\ Finish(r)
  /\ UNCHANGED <<endorsed, dispute, reviewed, hist>>

RecordOutcome(r) ==
  /\ req[r].pc \in {"success", "failure"}
  /\ req[r].was # NoRecord
  /\ LET success == req[r].pc = "success"
     IN  /\ \E o \in Observations :
              Store(req[r], AfterOutcome(req[r].was, success, LatencyAdherence(o[1], o[2])))
         /\ hist' = [hist EXCEPT ![req[r].agent].outcomes = @ + 1,
                                ![req[r].agent].successes = IF success THEN @ + 1 ELSE @]
  /\ Finish(r)
  /\ UNCHANGED <<endorsed, dispute, reviewed>>

--------------------------------------------------------------------------------
(***************************************************************************)
(* Endorsements.                                                           *)
(***************************************************************************)
EndorseAgent(r, from, to) ==
  /\ req[r] = Idle
  /\ from # to
  /\ req' = [req EXCEPT ![r] = [pc |-> "endorse", agent |-> to, from |-> from, seen |-> {},
                               was |-> trust[to], fresh |-> FALSE]]
  /\ UNCHANGED <<trust, endorsed, dispute, reviewed, hist>>

(* The unique key: an insertion waits for another of the same endorsement. *)
NewEndorsement(s, r) == \A q \in Requests \ {r} :
  req[q].pc = "endorsed" => ~(req[q].agent = s.agent /\ req[q].from = s.from)

(* endorse refuses what exists; else it inserts the row, and               *)
(* _recompute_endorsement_score reads those it can see.                    *)
Endorse(r) ==
  /\ req[r].pc = "endorse"
  /\ req[r].was # NoRecord
  /\ NewEndorsement(req[r], r)
  /\ req' = [req EXCEPT ![r] =
       IF <<req[r].from, req[r].agent>> \in endorsed THEN Idle
       ELSE [req[r] EXCEPT !.pc = "endorsed",
                           !.seen = {a \in Agents : <<a, req[r].agent>> \in endorsed} \cup {req[r].from}]]
  /\ UNCHANGED <<trust, endorsed, dispute, reviewed, hist>>

RecomputeEndorsements(r) ==
  /\ req[r].pc = "endorsed"
  /\ Store(req[r], Scored([req[r].was EXCEPT !.endorsers = req[r].seen]))
  /\ endorsed' = endorsed \cup {<<req[r].from, req[r].agent>>}
  /\ Finish(r)
  /\ UNCHANGED <<dispute, reviewed, hist>>

--------------------------------------------------------------------------------
(***************************************************************************)
(* Disputes.                                                               *)
(***************************************************************************)

(* flag inserts a dispute, and then loads the record it counts it in.      *)
Flag(r, d) ==
  /\ req[r] = Idle
  /\ dispute[d] = "none"
  /\ \A q \in Requests : ~Held(q, d)
  /\ req' = [req EXCEPT ![r] = [pc |-> "written", d |-> d, to |-> "open", was |-> trust[ReportedAgent[d]]]]
  /\ UNCHANGED <<trust, endorsed, dispute, reviewed, hist>>

(* Both reviews of a dispute check the status of their own copy of it.     *)
ReadDispute(r, d, to) ==
  /\ req[r] = Idle
  /\ req' = [req EXCEPT ![r] = [pc |-> "read", d |-> d, to |-> to, was |-> NoRecord]]
  /\ UNCHANGED <<trust, endorsed, dispute, reviewed, hist>>

ResolveDispute(r, d) == dispute[d] \in Reviewable /\ \E to \in Verdict : ReadDispute(r, d, to)

MarkUnderReview(r, d) == dispute[d] = "open" /\ ReadDispute(r, d, "under_review")

(* The flush waits for the row of the dispute, and looks at it no more.    *)
(* The record is loaded after it.                                          *)
WriteDispute(r) ==
  /\ req[r].pc = "read"
  /\ \A q \in Requests : ~Held(q, req[r].d)
  /\ req' = [req EXCEPT ![r].pc = "written", ![r].was = trust[ReportedAgent[req[r].d]]]
  /\ UNCHANGED <<trust, endorsed, dispute, reviewed, hist>>

(* The record once the session has counted the flag or applied the verdict. *)
AfterDispute(s) ==
  IF s.to = "open" THEN [s.was EXCEPT !.disputes = @ + 1]
  ELSE IF s.to \in Verdict THEN AfterVerdict(s.was, s.to) ELSE s.was

CommitDispute(r) ==
  /\ req[r].pc = "written"
  /\ LET s == req[r]  a == ReportedAgent[s.d]
     IN  /\ dispute' = [dispute EXCEPT ![s.d] = s.to]
         /\ reviewed' = IF s.to \in Verdict THEN reviewed \cup {s.d} ELSE reviewed
         /\ IF s.was = NoRecord THEN UNCHANGED <<trust, hist>>
            ELSE /\ trust' = [trust EXCEPT ![a] = Merge(@, s.was, AfterDispute(s))]
                 /\ hist' = [hist EXCEPT
                      ![a].flags    = IF s.to = "open" THEN @ + 1 ELSE @,
                      ![a].verdicts = IF s.to = "resolved_valid" THEN @ + 1 ELSE @]
  /\ Finish(r)
  /\ UNCHANGED endorsed

--------------------------------------------------------------------------------
(***************************************************************************)
(* The timeline of an agent.                                               *)
(***************************************************************************)
Initialized == <<"trust_initialized">>
Received(e) == <<"endorsement_received", e>>
Filed(d)    == <<"dispute_filed", d>>
Resolved(d) == <<"dispute_resolved", d>>

(* get_events.  What is loaded for an agent without a record cannot be     *)
(* told with its score: the request fails, unless there is nothing to tell. *)
GetEvents(a) ==
  LET filed == {d \in Disputes : ReportedAgent[d] = a /\ dispute[d] # "none"}
  IN  (IF trust[a] = NoRecord THEN {} ELSE {Initialized})
        \cup {Received(e) : e \in {x \in Agents : <<x, a>> \in endorsed}}
        \cup {Filed(d) : d \in filed} \cup {Resolved(d) : d \in filed \cap reviewed}

GetEventsFails(a) == trust[a] = NoRecord /\ GetEvents(a) # {}

Next == \E r \in Requests :
  \/ \E a \in Subjects, op \in {"success", "failure", "view"} : Load(r, op, a)
  \/ \E from \in Agents, to \in Subjects : EndorseAgent(r, from, to)
  \/ \E d \in Disputes : Flag(r, d) \/ ResolveDispute(r, d) \/ MarkUnderReview(r, d)
  \/ Create(r) \/ GetTrustRecord(r) \/ RecordOutcome(r)
  \/ Endorse(r) \/ RecomputeEndorsements(r)
  \/ WriteDispute(r) \/ CommitDispute(r)
  \/ Abort(r)

Spec == Init /\ [][Next]_vars

--------------------------------------------------------------------------------
(***************************************************************************)
(* Properties.                                                             *)
(***************************************************************************)

(* Every row and every session is well-formed.  In particular a score      *)
(* stays in the range its CHECK constraint allows, although outcome_rate   *)
(* may exceed one: a session that loaded the record before others counted  *)
(* their successes takes total_tasks back, and leaves successful_tasks.    *)
TypeOK ==
  /\ trust \in [Agents -> Recorded]
  /\ endorsed \subseteq Endorsement
  /\ dispute \in [Disputes -> DisputeStatus]
  /\ reviewed \subseteq Disputes
  /\ req \in [Requests -> {Idle} \cup Recording \cup Endorsing \cup Judging]
  /\ hist \in [Agents -> History]

(* Whatever the interleaving, a record claims no more than was committed:  *)
(* no more outcomes and successes than were recorded, no more penalties    *)
(* than there were valid verdicts, no more disputes than flags, and no     *)
(* endorser without an endorsement.                                        *)
NothingInvented == \A a \in Agents : trust[a] # NoRecord =>
  /\ trust[a].total <= hist[a].outcomes
  /\ trust[a].good <= hist[a].successes
  /\ trust[a].penalty <= 150 * hist[a].verdicts
  /\ trust[a].disputes <= hist[a].flags
  /\ \A e \in trust[a].endorsers : <<e, a>> \in endorsed

(* Updates get lost, but never all of them: an agent with outcomes has     *)
(* tasks, one with successes has successful tasks, one that lost a dispute *)
(* is penalised, one that was flagged has disputes, and one that was       *)
(* endorsed has an endorser.  The history of an agent is in its record,    *)
(* and the timeline of an endorsed agent shows the endorsement, whoever    *)
(* was first to create the record (the comment in endorse).                *)
NothingForgotten ==
  /\ \A a \in Agents :
       IF trust[a] = NoRecord THEN hist[a] = NoHistory
       ELSE /\ hist[a].outcomes > 0 => trust[a].total > 0
            /\ hist[a].successes > 0 => trust[a].good > 0
            /\ hist[a].verdicts > 0 => trust[a].penalty > 0
            /\ hist[a].flags > 0 => trust[a].disputes > 0
            /\ (\E e \in Agents : <<e, a>> \in endorsed) => trust[a].endorsers # {}
  /\ \A p \in endorsed : ~GetEventsFails(p[2]) /\ Received(p[1]) \in GetEvents(p[2])

(* Of two agents that endorse each other, one endorsement counts: the      *)
(* comment on _recompute_endorsement_score, which the code does not keep.  *)
RingCountsOnce == \A a, e \in Agents :
  trust[a] # NoRecord /\ trust[e] # NoRecord => ~(e \in trust[a].endorsers /\ a \in trust[e].endorsers)

(* A penalty has a dispute that was found valid: what the docstring of     *)
(* resolve_dispute says of dismissed ones, and races of reviews break.     *)
DismissedCostsNothing == \A a \in Agents :
  trust[a] # NoRecord /\ trust[a].penalty > 0 =>
    \E d \in Disputes : ReportedAgent[d] = a /\ dispute[d] = "resolved_valid"
===============================================================================
