-------------------------- MODULE TrustLedgerProofs --------------------------
(***************************************************************************)
(* Proofs about TrustLedger, for any number of agents, disputes and        *)
(* sessions, and any latencies: the record of an agent neither invents nor *)
(* forgets, although nobody locks it.                                      *)
(***************************************************************************)
EXTENDS TrustLedger, TLAPS

(***************************************************************************)
(* The inductive invariant.                                                *)
(***************************************************************************)
Creators == {"success", "failure", "view", "endorse", "endorsed"}

Fresh(r) == req[r].pc \in Creators /\ req[r].fresh

About(r) == IF req[r].pc \in {"read", "written"} THEN ReportedAgent[req[r].d] ELSE req[r].agent

(* What rec says of agent a is in the history of a.                        *)
Fits(rec, a) ==
  /\ rec.total <= hist[a].outcomes
  /\ rec.good <= hist[a].successes
  /\ rec.penalty <= 150 * hist[a].verdicts
  /\ rec.disputes <= hist[a].flags
  /\ \A e \in rec.endorsers : <<e, a>> \in endorsed

Remembers(a) ==
  IF trust[a] = NoRecord THEN hist[a] = NoHistory
  ELSE /\ hist[a].outcomes > 0 => trust[a].total > 0
       /\ hist[a].successes > 0 => trust[a].good > 0
       /\ hist[a].verdicts > 0 => trust[a].penalty > 0
       /\ hist[a].flags > 0 => trust[a].disputes > 0
       /\ (\E e \in Agents : <<e, a>> \in endorsed) => trust[a].endorsers # {}

EndorsedHaveRecords == \A p \in endorsed : trust[p[2]] # NoRecord

(* The copy of a session is the record it will insert, or an older state   *)
(* of the row, which claims no more than the history by now.               *)
CopyOK(r) ==
  /\ Fresh(r) => req[r].was = NewRecord /\ trust[About(r)] = NoRecord
  /\ req[r].pc # "idle" /\ ~Fresh(r) /\ req[r].was # NoRecord =>
       trust[About(r)] # NoRecord /\ Fits(req[r].was, About(r))

SeenOK(r) ==
  /\ req[r].pc \in {"endorse", "endorsed"} => req[r].from # req[r].agent
  /\ req[r].pc = "endorsed" =>
       /\ req[r].was # NoRecord /\ req[r].from \in req[r].seen
       /\ \A e \in req[r].seen : e = req[r].from \/ <<e, req[r].agent>> \in endorsed

OneCreator == \A r, q \in Requests : r # q /\ Fresh(r) /\ Fresh(q) => About(r) # About(q)

IInv ==
  /\ TypeOK /\ NothingInvented /\ EndorsedHaveRecords /\ OneCreator
  /\ \A a \in Agents : Remembers(a)
  /\ \A r \in Requests : CopyOK(r) /\ SeenOK(r)

SessionType == {Idle} \cup Recording \cup Endorsing \cup Judging

(***************************************************************************)
(* The operators on a record.                                              *)
(***************************************************************************)
LEMMA NewRecordType == NewRecord \in Record
  BY DEF NewRecord, Record, Fraction, NoComponents

LEMMA QuotientType ==
  ASSUME NEW x \in Nat, NEW y \in Nat, y > 0
  PROVE  x \div y \in Nat
  OBVIOUS

LEMMA ClampedType == \A x \in Nat : Clamped(x) \in Fraction
  BY DEF Clamped, Fraction

LEMMA LatencyType ==
  ASSUME NEW x \in Int, NEW y \in Int
  PROVE  LatencyAdherence(x, y) \in Fraction
<1>1. CASE x < 0 \/ y <= 0
  BY <1>1 DEF LatencyAdherence, Fraction
<1>2. CASE x >= 0 /\ y > 0
  <2>. DEFINE d == IF x = 0 THEN 1 ELSE x
  <2>1. 1000 * y \in Nat /\ d \in Nat /\ d > 0
    BY <1>2
  <2>2. (1000 * y) \div d \in Nat
    BY <2>1, QuotientType
  <2>3. LatencyAdherence(x, y) = Clamped((1000 * y) \div d)
    BY <1>2 DEF LatencyAdherence
  <2>. HIDE DEF d
  <2>. QED
    BY <2>2, <2>3 DEF Clamped, Fraction
<1>. QED
  BY <1>1, <1>2

LEMMA MeanType ==
  ASSUME NEW o \in Fraction, NEW l \in Fraction, NEW h \in Fraction
  PROVE  (40 * o + 25 * l + 25 * h + 10 * 100) \div 100 \in Fraction
  BY DEF Fraction

LEMMA Complement == ASSUME NEW p \in Fraction PROVE 1000 - p \in Fraction
  BY DEF Fraction

(* A score computed from a well-formed record is in its range.             *)
LEMMA RescoredType ==
  ASSUME NEW rec \in Record, NEW l \in Fraction
  PROVE  /\ Rescored(rec, l) \in Record
         /\ Rescored(rec, l).total = rec.total /\ Rescored(rec, l).good = rec.good
         /\ Rescored(rec, l).penalty = rec.penalty /\ Rescored(rec, l).disputes = rec.disputes
         /\ Rescored(rec, l).endorsers = rec.endorsers
<1>. DEFINE o == Clamped(rec.rate)
            h == 1000 - rec.penalty
            parts == [outcome |-> o, latency |-> l, health |-> h]
            mean  == WeightedMean(parts)
<1>1. rec.rate \in Nat /\ rec.penalty \in Fraction
  BY DEF Record
<1>2. o \in Fraction
  BY <1>1, ClampedType
<1>7. h \in Fraction
  BY <1>1, Complement
<1>3. Rescored(rec, l) = [rec EXCEPT !.components = parts, !.score = mean]
  BY DEF Rescored
<1>. HIDE DEF o, h
<1>4. parts \in Components
  BY <1>2, <1>7 DEF Components
<1>5. mean = (40 * o + 25 * l + 25 * h + 10 * 100) \div 100
  BY DEF WeightedMean
<1>6. mean \in Fraction
  BY <1>2, <1>5, <1>7, MeanType
<1>. HIDE DEF parts, mean
<1>. QED
  BY <1>3, <1>4, <1>6 DEF Record

LEMMA ScoredType ==
  ASSUME NEW rec \in Record
  PROVE  /\ Scored(rec) \in Record
         /\ Scored(rec).total = rec.total /\ Scored(rec).good = rec.good
         /\ Scored(rec).penalty = rec.penalty /\ Scored(rec).disputes = rec.disputes
         /\ Scored(rec).endorsers = rec.endorsers
<1>1. rec.components.latency \in Fraction
  BY DEF Record, Components, NoComponents, Fraction
<1>. QED
  BY <1>1, RescoredType DEF Scored

LEMMA AfterOutcomeType ==
  ASSUME NEW rec \in Record, NEW success \in BOOLEAN, NEW l \in Fraction
  PROVE  LET new == AfterOutcome(rec, success, l)
         IN  /\ new \in Record
             /\ new.total = rec.total + 1
             /\ new.good = IF success THEN rec.good + 1 ELSE rec.good
             /\ new.penalty = rec.penalty /\ new.disputes = rec.disputes
             /\ new.endorsers = rec.endorsers
<1>. DEFINE total == rec.total + 1
            good  == IF success THEN rec.good + 1 ELSE rec.good
            rate  == (1000 * good) \div total
            mid   == [rec EXCEPT !.total = total, !.good = good, !.rate = rate]
<1>1. total \in Nat /\ total > 0 /\ good \in Nat /\ 1000 * good \in Nat
  BY DEF Record
<1>2. rate \in Nat
  BY <1>1, QuotientType
<1>3. /\ mid \in Record /\ mid.total = total /\ mid.good = good
      /\ mid.penalty = rec.penalty /\ mid.disputes = rec.disputes /\ mid.endorsers = rec.endorsers
  <2>. HIDE DEF total, good, rate
  <2>. QED
    BY <1>1, <1>2 DEF Record
<1>4. AfterOutcome(rec, success, l) = Rescored(mid, l)
  BY DEF AfterOutcome
<1>. HIDE DEF mid
<1>. QED
  BY <1>3, <1>4, RescoredType

(* A session writes a column if it has changed it, else the column stays.  *)
LEMMA MergeColumns ==
  ASSUME NEW row \in Record, NEW was \in Record, NEW now \in Record
  PROVE  LET new == Merge(row, was, now)
         IN  /\ new \in Record
             /\ new.total = IF now.total # was.total THEN now.total ELSE row.total
             /\ new.good = IF now.good # was.good THEN now.good ELSE row.good
             /\ new.penalty = IF now.penalty # was.penalty THEN now.penalty ELSE row.penalty
             /\ new.disputes = IF now.disputes # was.disputes THEN now.disputes ELSE row.disputes
             /\ new.endorsers = IF now.endorsers # was.endorsers THEN now.endorsers ELSE row.endorsers
<1>1. Merge(row, was, now) =
        [total |-> IF now.total # was.total THEN now.total ELSE row.total,
         good |-> IF now.good # was.good THEN now.good ELSE row.good,
         rate |-> IF now.rate # was.rate THEN now.rate ELSE row.rate,
         penalty |-> IF now.penalty # was.penalty THEN now.penalty ELSE row.penalty,
         disputes |-> IF now.disputes # was.disputes THEN now.disputes ELSE row.disputes,
         endorsers |-> IF now.endorsers # was.endorsers THEN now.endorsers ELSE row.endorsers,
         components |-> IF now.components # was.components THEN now.components ELSE row.components,
         score |-> IF now.score # was.score THEN now.score ELSE row.score]
  BY DEF Merge, Record
<1>. QED
  BY <1>1 DEF Record

(***************************************************************************)
(* Steps that leave the records alone.                                     *)
(***************************************************************************)
LEMMA InitIInv == Init => IInv
<1>. SUFFICES ASSUME Init PROVE IInv
  OBVIOUS
<1>1. \A r \in Requests : req[r] = Idle /\ req[r].pc = "idle"
  BY DEF Init, Idle
<1>2. TypeOK
  BY DEF Init, TypeOK, Recorded, History, NoHistory, DisputeStatus
<1>3. NothingInvented /\ EndorsedHaveRecords /\ \A a \in Agents : Remembers(a)
  BY DEF Init, NothingInvented, EndorsedHaveRecords, Remembers
<1>4. OneCreator /\ \A r \in Requests : CopyOK(r) /\ SeenOK(r)
  BY <1>1 DEF OneCreator, CopyOK, SeenOK, Fresh, Creators
<1>. QED
  BY <1>2, <1>3, <1>4 DEF IInv

(* What a session r becomes.                                               *)
LEMMA SessionStep ==
  ASSUME IInv, NEW r \in Requests, NEW x \in SessionType,
         UNCHANGED <<trust, endorsed, hist>>,
         dispute' \in [Disputes -> DisputeStatus], reviewed' \subseteq Disputes,
         req' = [req EXCEPT ![r] = x],
         CopyOK(r)', SeenOK(r)',
         \A q \in Requests \ {r} : Fresh(r)' /\ Fresh(q) => About(q) # About(r)'
  PROVE  IInv'
<1>1. req \in [Requests -> SessionType]
  BY DEF IInv, TypeOK, SessionType
<1>2. req'[r] = x /\ \A q \in Requests \ {r} : req'[q] = req[q]
  BY <1>1
<1>3. TypeOK'
  BY <1>1 DEF IInv, TypeOK, SessionType
<1>4. (NothingInvented /\ EndorsedHaveRecords /\ \A a \in Agents : Remembers(a))'
  BY DEF IInv, NothingInvented, EndorsedHaveRecords, Remembers
<1>5. \A q \in Requests \ {r} : /\ (Fresh(q)' <=> Fresh(q)) /\ About(q)' = About(q)
                                /\ CopyOK(q)' /\ SeenOK(q)'
  BY <1>2 DEF IInv, Fresh, About, CopyOK, SeenOK, Fits
<1>6. OneCreator'
  BY <1>5 DEF IInv, OneCreator
<1>. QED
  BY <1>3, <1>4, <1>5, <1>6 DEF IInv

(***************************************************************************)
(* Commits.                                                                *)
(***************************************************************************)

(* A column that counts what the history h of the record counts.           *)
Grows(was, now, h, hNew) == (now # was \/ hNew # h) => now > 0

(* A session that stays what it is.                                        *)
LEMMA SameSession ==
  ASSUME NEW q, req'[q] = req[q]
  PROVE  /\ Fresh(q)' <=> Fresh(q)
         /\ About(q)' = About(q)
<1>1. Fresh(q)' <=> Fresh(q)
  BY DEF Fresh, Creators
<1>2. About(q)' = About(q)
  BY DEF About
<1>. QED
  BY <1>1, <1>2

LEMMA CopyType ==
  ASSUME NEW s \in SessionType, s.pc # "idle"
  PROVE  /\ s.was # NoRecord => s.was \in Record
         /\ (IF s.pc \in {"read", "written"} THEN ReportedAgent[s.d] ELSE s.agent) \in Agents
<1>1. s \in Recording \cup Endorsing \cup Judging
  BY DEF SessionType, Idle
<1>2. CASE s \in Judging
  <2>1. s.was \in Recorded /\ s.d \in Disputes /\ s.pc \in {"read", "written"}
    BY <1>2 DEF Judging
  <2>2. ReportedAgent[s.d] \in Agents
    BY <2>1, TrustAssumption
  <2>. QED
    BY <2>1, <2>2 DEF Recorded
<1>3. CASE s \in Recording \cup Endorsing
  <2>1. s.was \in Recorded /\ s.agent \in Agents /\ s.pc \notin {"read", "written"}
    BY <1>3 DEF Recording, Endorsing
  <2>. QED
    BY <2>1 DEF Recorded
<1>. QED
  BY <1>1, <1>2, <1>3

(* What fits a history fits a longer one.                                  *)
LEMMA FitsLonger ==
  ASSUME NEW rec \in Record, NEW a, Fits(rec, a), NEW h \in History, NEW k \in History,
         hist[a] = h, hist'[a] = k,
         h.outcomes <= k.outcomes, h.successes <= k.successes,
         h.verdicts <= k.verdicts, h.flags <= k.flags, endorsed \subseteq endorsed'
  PROVE  Fits(rec, a)'
<1>1. /\ rec.total \in Nat /\ rec.good \in Nat /\ rec.penalty \in Nat /\ rec.disputes \in Nat
      /\ h.outcomes \in Nat /\ h.successes \in Nat /\ h.verdicts \in Nat /\ h.flags \in Nat
      /\ k.outcomes \in Nat /\ k.successes \in Nat /\ k.verdicts \in Nat /\ k.flags \in Nat
  BY DEF Record, History, Fraction
<1>2. rec.total <= k.outcomes /\ rec.good <= k.successes /\ rec.disputes <= k.flags
  BY <1>1 DEF Fits
<1>3. rec.penalty <= 150 * k.verdicts
  BY <1>1 DEF Fits
<1>4. \A e \in rec.endorsers : <<e, a>> \in endorsed'
  BY DEF Fits
<1>. QED
  BY <1>2, <1>3, <1>4 DEF Fits

(* Session r commits now, which fits the history the commit leaves, and    *)
(* shows what the commit adds to it.                                       *)
LEMMA CommitStep ==
  ASSUME IInv, NEW r \in Requests, NEW a \in Agents, NEW now \in Record,
         req[r].pc # "idle", req[r].was # NoRecord, a = About(r),
         trust' = [trust EXCEPT ![a] = IF Fresh(r) THEN now ELSE Merge(@, req[r].was, now)],
         req' = [req EXCEPT ![r] = Idle],
         dispute' \in [Disputes -> DisputeStatus], reviewed' \subseteq Disputes,
         NEW k \in History, hist' = [hist EXCEPT ![a] = k],
         hist[a].outcomes <= k.outcomes, hist[a].successes <= k.successes,
         hist[a].verdicts <= k.verdicts, hist[a].flags <= k.flags,
         endorsed \subseteq endorsed', endorsed' \subseteq Endorsement,
         \A p \in endorsed' \ endorsed : p[2] = a,
         Fits(now, a)',
         Grows(req[r].was.total, now.total, hist[a].outcomes, k.outcomes),
         Grows(req[r].was.good, now.good, hist[a].successes, k.successes),
         Grows(req[r].was.penalty, now.penalty, hist[a].verdicts, k.verdicts),
         Grows(req[r].was.disputes, now.disputes, hist[a].flags, k.flags),
         now.endorsers # req[r].was.endorsers \/ endorsed' # endorsed => now.endorsers # {}
  PROVE  IInv'
<1>. DEFINE was == req[r].was
<1>1. /\ req \in [Requests -> SessionType] /\ trust \in [Agents -> Recorded]
      /\ hist \in [Agents -> History] /\ endorsed \subseteq Endorsement
  BY DEF IInv, TypeOK, SessionType
<1>2. was \in Record
  BY <1>1 DEF SessionType, Recorded, Recording, Endorsing, Judging, Idle
<1>3. /\ CopyOK(r) /\ Remembers(a) /\ (trust[a] # NoRecord => Fits(trust[a], a))
  BY DEF IInv, NothingInvented, Fits
<1>4. ~Fresh(r) => trust[a] \in Record /\ trust[a] # NoRecord /\ Fits(was, a)
  BY <1>1, <1>3 DEF CopyOK, Recorded
<1>5. Fresh(r) => trust[a] = NoRecord /\ was = NewRecord
  BY <1>3 DEF CopyOK
<1>6. trust'[a] \in Record /\ trust'[a] # NoRecord
  BY <1>1, <1>2, <1>4, MergeColumns, NoRecordAssumption
<1>7. \A b \in Agents \ {a} : trust'[b] = trust[b] /\ hist'[b] = hist[b]
  BY <1>1
<1>8. hist'[a] = k
  BY <1>1
<1>9. TypeOK'
  <2>1. trust' \in [Agents -> Recorded]
    BY <1>1, <1>6, <1>7 DEF Recorded
  <2>. QED
    BY <1>1, <2>1 DEF IInv, TypeOK, SessionType
<1>10. Fits(trust[a], a)' /\ Remembers(a)'
  <2>1. CASE Fresh(r)
    <3>1. trust'[a] = now
      BY <1>1, <2>1
    <3>2. hist[a] = NoHistory /\ \A e \in Agents : <<e, a>> \notin endorsed
      <4>1. hist[a] = NoHistory
        BY <1>3, <1>5, <2>1 DEF Remembers
      <4>2. ASSUME NEW e \in Agents, <<e, a>> \in endorsed PROVE FALSE
        BY <1>5, <2>1, <4>2 DEF IInv, EndorsedHaveRecords
      <4>. QED
        BY <4>1, <4>2
    <3>3. /\ k.outcomes > 0 => now.total > 0
          /\ k.successes > 0 => now.good > 0
          /\ k.verdicts > 0 => now.penalty > 0
          /\ k.flags > 0 => now.disputes > 0
      BY <3>2 DEF NoHistory, Grows
    <3>4. (\E e \in Agents : <<e, a>> \in endorsed') => now.endorsers # {}
      BY <3>2
    <3>. QED
      BY <1>6, <1>8, <3>1, <3>3, <3>4 DEF Fits, Remembers
  <2>2. CASE ~Fresh(r)
    <3>. DEFINE row == trust[a]
    <3>1. trust'[a] = Merge(row, was, now)
      BY <1>1, <2>2
    <3>2. /\ row \in Record /\ row # NoRecord /\ Fits(was, a) /\ Fits(row, a)
      BY <1>3, <1>4, <2>2
    <3>3. /\ hist[a] \in History /\ k \in History
      BY <1>1
    <3>4. /\ trust'[a].total = IF now.total # was.total THEN now.total ELSE row.total
          /\ trust'[a].good = IF now.good # was.good THEN now.good ELSE row.good
          /\ trust'[a].penalty = IF now.penalty # was.penalty THEN now.penalty ELSE row.penalty
          /\ trust'[a].disputes = IF now.disputes # was.disputes THEN now.disputes ELSE row.disputes
          /\ trust'[a].endorsers = IF now.endorsers # was.endorsers THEN now.endorsers ELSE row.endorsers
      BY <1>2, <3>1, <3>2, MergeColumns
    <3>5. Fits(trust[a], a)'
      <4>1. PICK old \in Record : old = row
        BY <3>2
      <4>2. Fits(old, a)'
        BY <1>8, <3>2, <3>3, <4>1, FitsLonger
      <4>. QED
        BY <3>4, <4>1, <4>2 DEF Fits
    <3>6. /\ k.outcomes > 0 => trust'[a].total > 0
          /\ k.successes > 0 => trust'[a].good > 0
          /\ k.verdicts > 0 => trust'[a].penalty > 0
          /\ k.flags > 0 => trust'[a].disputes > 0
      <4>1. \A rec \in Record : /\ rec.total \in Nat /\ rec.good \in Nat
                                /\ rec.penalty \in Nat /\ rec.disputes \in Nat
        BY DEF Record, Fraction
      <4>2. \A h \in History : /\ h.outcomes \in Nat /\ h.successes \in Nat
                               /\ h.verdicts \in Nat /\ h.flags \in Nat
        BY DEF History
      <4>3. /\ was.total > 0 => hist[a].outcomes > 0
            /\ was.good > 0 => hist[a].successes > 0
            /\ was.penalty > 0 => hist[a].verdicts > 0
            /\ was.disputes > 0 => hist[a].flags > 0
        BY <1>2, <3>2, <3>3, <4>1, <4>2 DEF Fits
      <4>4. /\ hist[a].outcomes > 0 => row.total > 0
            /\ hist[a].successes > 0 => row.good > 0
            /\ hist[a].verdicts > 0 => row.penalty > 0
            /\ hist[a].flags > 0 => row.disputes > 0
        BY <1>3, <3>2 DEF Remembers
      <4>9. /\ Grows(was.total, now.total, hist[a].outcomes, k.outcomes)
            /\ Grows(was.good, now.good, hist[a].successes, k.successes)
            /\ Grows(was.penalty, now.penalty, hist[a].verdicts, k.verdicts)
            /\ Grows(was.disputes, now.disputes, hist[a].flags, k.flags)
        OBVIOUS
      <4>. HIDE DEF was, row
      <4>5. k.outcomes > 0 => trust'[a].total > 0
        <5>1. /\ was.total \in Nat /\ now.total \in Nat /\ row.total \in Nat
              /\ hist[a].outcomes \in Nat /\ k.outcomes \in Nat
          BY <1>2, <3>2, <3>3, <4>1, <4>2
        <5>2. k.outcomes > 0 => (IF now.total # was.total THEN now.total ELSE row.total) > 0
          BY <4>3, <4>4, <4>9, <5>1 DEF Grows
        <5>. QED
          BY <3>4, <5>2
      <4>6. k.successes > 0 => trust'[a].good > 0
        <5>1. /\ was.good \in Nat /\ now.good \in Nat /\ row.good \in Nat
              /\ hist[a].successes \in Nat /\ k.successes \in Nat
          BY <1>2, <3>2, <3>3, <4>1, <4>2
        <5>2. k.successes > 0 => (IF now.good # was.good THEN now.good ELSE row.good) > 0
          BY <4>3, <4>4, <4>9, <5>1 DEF Grows
        <5>. QED
          BY <3>4, <5>2
      <4>7. k.verdicts > 0 => trust'[a].penalty > 0
        <5>1. /\ was.penalty \in Nat /\ now.penalty \in Nat /\ row.penalty \in Nat
              /\ hist[a].verdicts \in Nat /\ k.verdicts \in Nat
          BY <1>2, <3>2, <3>3, <4>1, <4>2
        <5>2. k.verdicts > 0 => (IF now.penalty # was.penalty THEN now.penalty ELSE row.penalty) > 0
          BY <4>3, <4>4, <4>9, <5>1 DEF Grows
        <5>. QED
          BY <3>4, <5>2
      <4>8. k.flags > 0 => trust'[a].disputes > 0
        <5>1. /\ was.disputes \in Nat /\ now.disputes \in Nat /\ row.disputes \in Nat
              /\ hist[a].flags \in Nat /\ k.flags \in Nat
          BY <1>2, <3>2, <3>3, <4>1, <4>2
        <5>2. k.flags > 0 => (IF now.disputes # was.disputes THEN now.disputes ELSE row.disputes) > 0
          BY <4>3, <4>4, <4>9, <5>1 DEF Grows
        <5>. QED
          BY <3>4, <5>2
      <4>. QED
        BY <4>5, <4>6, <4>7, <4>8
    <3>7. (\E e \in Agents : <<e, a>> \in endorsed') => trust'[a].endorsers # {}
      <4>1. CASE now.endorsers # was.endorsers
        BY <3>4, <4>1
      <4>2. CASE now.endorsers = was.endorsers /\ endorsed' = endorsed
        BY <1>3, <3>2, <3>4, <4>2 DEF Remembers
      <4>3. CASE now.endorsers = was.endorsers /\ endorsed' # endorsed
        <5>1. was.endorsers # {} /\ was.endorsers \subseteq Agents
          BY <1>2, <4>3 DEF Record
        <5>2. \E e \in Agents : <<e, a>> \in endorsed
          BY <3>2, <5>1 DEF Fits
        <5>. QED
          BY <1>3, <3>2, <3>4, <4>3, <5>2 DEF Remembers
      <4>. QED
        BY <4>1, <4>2, <4>3
    <3>. QED
      BY <1>6, <1>8, <3>5, <3>6, <3>7 DEF Remembers
  <2>. QED
    BY <2>1, <2>2
<1>11. ASSUME NEW b \in Agents \ {a}
       PROVE  /\ Remembers(b)'
              /\ trust'[b] # NoRecord => Fits(trust[b], b)'
  <2>1. Remembers(b) /\ (trust[b] # NoRecord => Fits(trust[b], b))
    BY DEF IInv, NothingInvented, Fits
  <2>2. \A e \in Agents : <<e, b>> \in endorsed' <=> <<e, b>> \in endorsed
    BY <1>11
  <2>3. trust'[b] # NoRecord => Fits(trust[b], b)'
    BY <1>7, <1>11, <2>1 DEF Fits
  <2>. QED
    BY <1>7, <1>11, <2>1, <2>2, <2>3 DEF Remembers
<1>12. NothingInvented' /\ \A b \in Agents : Remembers(b)'
  BY <1>10, <1>11 DEF NothingInvented, Fits
<1>13. EndorsedHaveRecords'
  BY <1>6, <1>7 DEF IInv, EndorsedHaveRecords, Endorsement
<1>14. ASSUME NEW q \in Requests \ {r}
       PROVE  /\ req'[q] = req[q] /\ CopyOK(q)' /\ SeenOK(q)'
              /\ (Fresh(q)' <=> Fresh(q)) /\ About(q)' = About(q)
  <2>1. req'[q] = req[q]
    BY <1>14
  <2>2. (Fresh(q)' <=> Fresh(q)) /\ About(q)' = About(q)
    BY <2>1, SameSession
  <2>3. CopyOK(q) /\ SeenOK(q)
    BY <1>14 DEF IInv
  <2>4. SeenOK(q)'
    BY <2>1, <2>3 DEF SeenOK
  <2>5. CASE Fresh(q)
    <3>1. ~Fresh(r) => trust[a] # NoRecord
      BY <1>4
    <3>2. About(q) # a
      BY <1>14, <2>3, <2>5, <3>1 DEF IInv, OneCreator, CopyOK
    <3>3. trust'[About(q)] = trust[About(q)]
      BY <1>1, <3>2
    <3>. QED
      BY <2>1, <2>2, <2>3, <2>4, <2>5, <3>3 DEF CopyOK
  <2>6. CASE ~Fresh(q) /\ req[q].pc # "idle" /\ req[q].was # NoRecord
    <3>1. trust[About(q)] # NoRecord /\ Fits(req[q].was, About(q))
      BY <2>3, <2>6 DEF CopyOK
    <3>. DEFINE old == req[q].was
                b   == About(q)
    <3>2. old \in Record /\ b \in Agents
      BY <1>1, <2>6, CopyType DEF About
    <3>3. trust'[About(q)] # NoRecord
      BY <1>6, <1>7, <3>1, <3>2
    <3>4. PICK o \in Record, c \in Agents : o = old /\ c = b
      BY <3>2
    <3>5. /\ hist[c] \in History /\ hist'[c] \in History
          /\ hist[c].outcomes <= hist'[c].outcomes /\ hist[c].successes <= hist'[c].successes
          /\ hist[c].verdicts <= hist'[c].verdicts /\ hist[c].flags <= hist'[c].flags
      <4>1. CASE c = a
        BY <1>1, <1>8, <4>1
      <4>2. CASE c # a
        <5>1. hist'[c] = hist[c] /\ hist[c] \in History
          BY <1>1, <1>7, <4>2
        <5>. QED
          BY <5>1 DEF History
      <4>. QED
        BY <4>1, <4>2
    <3>6. Fits(o, c)'
      BY <3>1, <3>4, <3>5, FitsLonger
    <3>7. req'[q].was = o /\ About(q)' = c
      BY <2>1, <2>2, <3>4
    <3>8. CopyOK(q)'
      BY <2>2, <2>6, <3>3, <3>4, <3>6, <3>7 DEF CopyOK, Fits
    <3>. QED
      BY <2>1, <2>2, <2>4, <3>8
  <2>. QED
    BY <2>1, <2>2, <2>4, <2>5, <2>6 DEF CopyOK
<1>15. req'[r] = Idle
  BY <1>1
<1>16. CopyOK(r)' /\ SeenOK(r)' /\ ~Fresh(r)'
  BY <1>15 DEF CopyOK, SeenOK, Fresh, Creators, Idle
<1>17. OneCreator'
  BY <1>14, <1>16 DEF IInv, OneCreator
<1>. QED
  BY <1>9, <1>12, <1>13, <1>14, <1>16, <1>17 DEF IInv

(***************************************************************************)
(* The actions.                                                            *)
(***************************************************************************)
Before(r) ==
  \/ \E a \in Subjects, op \in {"success", "failure", "view"} : Load(r, op, a)
  \/ \E from \in Agents, to \in Subjects : EndorseAgent(r, from, to)
  \/ \E d \in Disputes : Flag(r, d) \/ ResolveDispute(r, d) \/ MarkUnderReview(r, d)
  \/ Create(r) \/ Endorse(r) \/ WriteDispute(r) \/ Abort(r)

(* A record that is there fits its history.                                *)
LEMMA LoadedFits ==
  ASSUME IInv, NEW a \in Agents
  PROVE  trust[a] \in Recorded /\ (trust[a] # NoRecord => Fits(trust[a], a))
  BY DEF IInv, TypeOK, NothingInvented, Fits

(* Whoever loads a record without writing gets a copy that is in order.    *)
LEMMA FreshlyLoaded ==
  ASSUME IInv, NEW r \in Requests, NEW x \in SessionType,
         UNCHANGED <<trust, endorsed, hist, dispute, reviewed>>, req' = [req EXCEPT ![r] = x],
         x.pc # "idle", x.pc \in Creators => ~x.fresh,
         x.pc # "endorsed",
         x.pc = "endorse" => x.from # x.agent,
         NEW a \in Agents, a = (IF x.pc \in {"read", "written"} THEN ReportedAgent[x.d] ELSE x.agent),
         x.was \in {trust[a], NoRecord}
  PROVE  IInv'
<1>1. req'[r] = x
  BY DEF IInv, TypeOK
<1>2. About(r)' = a /\ ~Fresh(r)'
  BY <1>1 DEF About, Fresh
<1>3. trust[a] # NoRecord => Fits(trust[a], a)
  BY LoadedFits
<1>4. CopyOK(r)'
  BY <1>1, <1>2, <1>3 DEF CopyOK, Fits
<1>5. SeenOK(r)'
  BY <1>1 DEF SeenOK
<1>6. dispute' \in [Disputes -> DisputeStatus] /\ reviewed' \subseteq Disputes
  BY DEF IInv, TypeOK
<1>. QED
  BY <1>2, <1>4, <1>5, <1>6, SessionStep

(* Leaving, whatever is left undone.                                       *)
LEMMA LeaveStep ==
  ASSUME IInv, NEW r \in Requests, UNCHANGED <<trust, endorsed, hist>>,
         dispute' \in [Disputes -> DisputeStatus], reviewed' \subseteq Disputes,
         req' = [req EXCEPT ![r] = Idle]
  PROVE  IInv'
<1>1. req'[r] = Idle
  BY DEF IInv, TypeOK
<1>2. CopyOK(r)' /\ SeenOK(r)' /\ ~Fresh(r)'
  BY <1>1 DEF CopyOK, SeenOK, Fresh, Creators, Idle
<1>. QED
  BY <1>2, SessionStep DEF SessionType

LEMMA BeforeStep == ASSUME IInv, NEW r \in Requests, Before(r) PROVE IInv'
<1>. USE TrustAssumption
<1>1. /\ req \in [Requests -> SessionType] /\ trust \in [Agents -> Recorded]
      /\ dispute \in [Disputes -> DisputeStatus] /\ reviewed \subseteq Disputes
  BY DEF IInv, TypeOK, SessionType
<1>2. UNCHANGED <<trust, endorsed, hist, dispute, reviewed>>
  BY DEF Before, Load, EndorseAgent, Flag, ResolveDispute, MarkUnderReview, ReadDispute,
         Create, Endorse, WriteDispute, Abort
<1>3. ASSUME NEW a \in Subjects, NEW op \in {"success", "failure", "view"}, Load(r, op, a)
      PROVE  IInv'
  <2>. DEFINE x == [pc |-> op, agent |-> a, was |-> trust[a], fresh |-> FALSE]
  <2>1. x \in SessionType
    BY <1>1 DEF SessionType, Recording
  <2>2. req' = [req EXCEPT ![r] = x]
    BY <1>3 DEF Load
  <2>. QED
    BY <1>2, <2>1, <2>2, FreshlyLoaded
<1>4. ASSUME NEW from \in Agents, NEW to \in Subjects, EndorseAgent(r, from, to)
      PROVE  IInv'
  <2>. DEFINE x == [pc |-> "endorse", agent |-> to, from |-> from, seen |-> {},
                    was |-> trust[to], fresh |-> FALSE]
  <2>1. x \in SessionType
    BY <1>1 DEF SessionType, Endorsing
  <2>2. req' = [req EXCEPT ![r] = x] /\ from # to
    BY <1>4 DEF EndorseAgent
  <2>. QED
    BY <1>2, <2>1, <2>2, FreshlyLoaded
<1>5. ASSUME NEW d \in Disputes, Flag(r, d)
      PROVE  IInv'
  <2>. DEFINE x == [pc |-> "written", d |-> d, to |-> "open", was |-> trust[ReportedAgent[d]]]
  <2>1. x \in SessionType
    BY <1>1 DEF SessionType, Judging, DisputeStatus, Reviewable
  <2>2. req' = [req EXCEPT ![r] = x]
    BY <1>5 DEF Flag
  <2>. QED
    BY <1>2, <2>1, <2>2, FreshlyLoaded DEF Creators
<1>6. ASSUME NEW d \in Disputes, ResolveDispute(r, d) \/ MarkUnderReview(r, d)
      PROVE  IInv'
  <2>1. PICK to \in DisputeStatus : ReadDispute(r, d, to)
    BY <1>6 DEF ResolveDispute, MarkUnderReview, DisputeStatus, Reviewable
  <2>. DEFINE x == [pc |-> "read", d |-> d, to |-> to, was |-> NoRecord]
  <2>2. x \in SessionType
    BY DEF SessionType, Judging, Recorded
  <2>3. req' = [req EXCEPT ![r] = x]
    BY <2>1 DEF ReadDispute
  <2>. QED
    BY <1>2, <2>2, <2>3, FreshlyLoaded DEF Creators
<1>7. ASSUME Create(r) PROVE IInv'
  <2>. DEFINE s == req[r]
              x == [s EXCEPT !.was = NewRecord, !.fresh = TRUE]
  <2>1. CASE trust[s.agent] = NoRecord
    <3>1. s \in Recording \cup Endorsing /\ s.pc \in Creators /\ s.pc # "endorsed"
      BY <1>1, <1>7 DEF Create, SessionType, Recording, Endorsing, Judging, Idle, Creators
    <3>2. x \in SessionType /\ x.pc = s.pc /\ x.agent = s.agent /\ x.fresh /\ x.was = NewRecord
      BY <3>1, NewRecordType DEF SessionType, Recording, Endorsing, Recorded
    <3>3. req' = [req EXCEPT ![r] = x] /\ req'[r] = x
      BY <1>1, <1>7, <2>1 DEF Create
    <3>4. Fresh(r)' /\ About(r)' = s.agent
      BY <3>1, <3>2, <3>3 DEF Fresh, About, Creators
    <3>5. CopyOK(r)'
      BY <1>2, <2>1, <3>2, <3>3, <3>4 DEF CopyOK
    <3>6. SeenOK(r)'
      <4>1. s.pc = "endorse" => s.from # s.agent
        BY DEF IInv, SeenOK
      <4>2. s.pc = "endorse" => x.from = s.from
        BY <3>1 DEF Recording, Endorsing
      <4>. QED
        BY <3>1, <3>2, <3>3, <4>1, <4>2 DEF SeenOK
    <3>7. ASSUME NEW q \in Requests \ {r}, Fresh(q) PROVE About(q) # s.agent
      BY <1>7, <3>7 DEF Create, NewRow, Fresh, About, Creators
    <3>. QED
      BY <1>1, <1>2, <3>2, <3>3, <3>4, <3>5, <3>6, <3>7, SessionStep
  <2>2. CASE trust[s.agent] # NoRecord
    BY <1>1, <1>2, <1>7, <2>2, LeaveStep DEF Create
  <2>. QED
    BY <2>1, <2>2
<1>8. ASSUME Endorse(r) PROVE IInv'
  <2>. DEFINE s    == req[r]
              seen == {a \in Agents : <<a, s.agent>> \in endorsed} \cup {s.from}
              x    == [s EXCEPT !.pc = "endorsed", !.seen = seen]
  <2>1. CASE <<s.from, s.agent>> \in endorsed
    BY <1>1, <1>2, <1>8, <2>1, LeaveStep DEF Endorse
  <2>2. CASE <<s.from, s.agent>> \notin endorsed
    <3>1. s \in Endorsing /\ s.pc = "endorse" /\ s.was # NoRecord
      BY <1>1, <1>8 DEF Endorse, SessionType, Recording, Endorsing, Judging, Idle
    <3>2. /\ x \in SessionType /\ x.pc = "endorsed" /\ x.agent = s.agent /\ x.from = s.from
          /\ x.seen = seen /\ x.was = s.was /\ x.fresh = s.fresh
      BY <3>1 DEF SessionType, Endorsing
    <3>3. req' = [req EXCEPT ![r] = x] /\ req'[r] = x
      BY <1>1, <1>8, <2>2 DEF Endorse
    <3>4. (Fresh(r)' <=> Fresh(r)) /\ About(r)' = About(r)
      BY <3>1, <3>2, <3>3 DEF Fresh, About, Creators
    <3>5. CopyOK(r)'
      <4>1. CopyOK(r)
        BY DEF IInv
      <4>. QED
        BY <1>2, <3>1, <3>2, <3>3, <3>4, <4>1 DEF CopyOK, Fits
    <3>6. SeenOK(r)'
      <4>1. s.from # s.agent
        BY <3>1 DEF IInv, SeenOK
      <4>. QED
        BY <1>2, <3>1, <3>2, <3>3, <4>1 DEF SeenOK
    <3>7. \A q \in Requests \ {r} : Fresh(r)' /\ Fresh(q) => About(q) # About(r)'
      BY <3>4 DEF IInv, OneCreator
    <3>. QED
      BY <1>1, <1>2, <3>2, <3>3, <3>5, <3>6, <3>7, SessionStep
  <2>. QED
    BY <2>1, <2>2
<1>9. ASSUME WriteDispute(r) PROVE IInv'
  <2>. DEFINE s == req[r]
              x == [s EXCEPT !.pc = "written", !.was = trust[ReportedAgent[s.d]]]
  <2>1. s \in Judging /\ ReportedAgent[s.d] \in Agents
    BY <1>1, <1>9 DEF WriteDispute, SessionType, Recording, Endorsing, Judging, Idle
  <2>2. x \in SessionType /\ x.pc = "written" /\ x.d = s.d /\ x.was = trust[ReportedAgent[s.d]]
    BY <1>1, <2>1 DEF SessionType, Judging
  <2>3. req' = [req EXCEPT ![r] = x]
    BY <1>1, <1>9 DEF WriteDispute
  <2>4. PICK a \in Agents : a = ReportedAgent[s.d]
    BY <2>1
  <2>. QED
    BY <1>2, <2>2, <2>3, <2>4, FreshlyLoaded DEF Creators
<1>10. ASSUME Abort(r) PROVE IInv'
  BY <1>1, <1>2, <1>10, LeaveStep DEF Abort, Finish
<1>. QED
  BY <1>3, <1>4, <1>5, <1>6, <1>7, <1>8, <1>9, <1>10 DEF Before

(* A session that has a record in its hands: what is known of both.        *)
LEMMA Holding ==
  ASSUME IInv, NEW r \in Requests, req[r].pc # "idle", req[r].was # NoRecord
  PROVE  /\ req[r] \in SessionType /\ req[r].was \in Record /\ About(r) \in Agents
         /\ hist \in [Agents -> History] /\ hist[About(r)] \in History
         /\ dispute \in [Disputes -> DisputeStatus] /\ reviewed \subseteq Disputes
         /\ endorsed \subseteq Endorsement
         /\ Fits(req[r].was, About(r))
<1>1. /\ req[r] \in SessionType /\ hist \in [Agents -> History]
      /\ dispute \in [Disputes -> DisputeStatus] /\ reviewed \subseteq Disputes
      /\ endorsed \subseteq Endorsement
  BY DEF IInv, TypeOK, SessionType
<1>2. req[r].was \in Record /\ About(r) \in Agents
  BY <1>1, CopyType DEF About
<1>3. CopyOK(r) /\ Remembers(About(r))
  BY <1>2 DEF IInv
<1>4. CASE Fresh(r)
  <2>1. req[r].was = NewRecord /\ hist[About(r)] = NoHistory
    BY <1>3, <1>4 DEF CopyOK, Remembers
  <2>. QED
    BY <1>1, <1>2, <2>1 DEF Fits, NewRecord, NoHistory
<1>5. CASE ~Fresh(r)
  BY <1>1, <1>2, <1>3, <1>5 DEF CopyOK
<1>. QED
  BY <1>1, <1>2, <1>4, <1>5

(* The columns of a record, and of a history.                              *)
LEMMA Columns ==
  /\ \A rec \in Record : /\ rec.total \in Nat /\ rec.good \in Nat
                         /\ rec.penalty \in Nat /\ rec.penalty <= 1000 /\ rec.disputes \in Nat
  /\ \A k \in History : /\ k.outcomes \in Nat /\ k.successes \in Nat
                        /\ k.verdicts \in Nat /\ k.flags \in Nat
  BY DEF Record, History, Fraction

LEMMA ViewStep == ASSUME IInv, NEW r \in Requests, GetTrustRecord(r) PROVE IInv'
<1>. DEFINE s == req[r]
<1>1. s.pc = "view" /\ s.was # NoRecord /\ About(r) = s.agent /\ (Fresh(r) <=> s.fresh)
  BY DEF GetTrustRecord, About, Fresh, Creators
<1>2. PICK a \in Agents, now \in Record, k \in History : a = s.agent /\ now = s.was /\ k = hist[a]
  BY <1>1, Holding
<1>3. trust' = [trust EXCEPT ![a] = IF Fresh(r) THEN now ELSE Merge(@, s.was, now)]
  BY <1>1, <1>2 DEF GetTrustRecord, Store
<1>4. hist' = [hist EXCEPT ![a] = k] /\ UNCHANGED <<hist, endorsed, dispute, reviewed>>
  BY <1>1, <1>2, Holding DEF GetTrustRecord
<1>5. Fits(now, a)'
  BY <1>1, <1>2, <1>4, Holding DEF Fits
<1>6. req' = [req EXCEPT ![r] = Idle]
  BY DEF GetTrustRecord, Finish
<1>7. /\ k.outcomes \in Nat /\ k.successes \in Nat /\ k.verdicts \in Nat /\ k.flags \in Nat
  BY Columns
<1>8. /\ Grows(s.was.total, now.total, hist[a].outcomes, k.outcomes)
      /\ Grows(s.was.good, now.good, hist[a].successes, k.successes)
      /\ Grows(s.was.penalty, now.penalty, hist[a].verdicts, k.verdicts)
      /\ Grows(s.was.disputes, now.disputes, hist[a].flags, k.flags)
  BY <1>2 DEF Grows
<1>9. /\ hist[a].outcomes <= k.outcomes /\ hist[a].successes <= k.successes
      /\ hist[a].verdicts <= k.verdicts /\ hist[a].flags <= k.flags
  BY <1>2, <1>7
<1>10. /\ endorsed \subseteq endorsed' /\ endorsed' \subseteq Endorsement
       /\ dispute' \in [Disputes -> DisputeStatus] /\ reviewed' \subseteq Disputes
  BY <1>1, <1>4, Holding
<1>. QED
  BY <1>1, <1>2, <1>3, <1>4, <1>5, <1>6, <1>8, <1>9, <1>10, CommitStep

LEMMA OutcomeStep == ASSUME IInv, NEW r \in Requests, RecordOutcome(r) PROVE IInv'
<1>. DEFINE s == req[r]
            success == s.pc = "success"
<1>1. /\ s.pc \in {"success", "failure"} /\ s.was # NoRecord
      /\ About(r) = s.agent /\ (Fresh(r) <=> s.fresh)
  BY DEF RecordOutcome, About, Fresh, Creators
<1>2. PICK o \in Observations :
        Store(s, AfterOutcome(s.was, success, LatencyAdherence(o[1], o[2])))
  BY DEF RecordOutcome
<1>3. PICK l \in Fraction : l = LatencyAdherence(o[1], o[2])
  BY LatencyType, TrustAssumption
<1>4. PICK a \in Agents, was \in Record, h \in History : a = s.agent /\ was = s.was /\ h = hist[a]
  BY <1>1, Holding
<1>5. PICK now \in Record :
        /\ now = AfterOutcome(was, success, l)
        /\ now.total = was.total + 1
        /\ now.good = IF success THEN was.good + 1 ELSE was.good
        /\ now.penalty = was.penalty /\ now.disputes = was.disputes /\ now.endorsers = was.endorsers
  BY AfterOutcomeType
<1>6. PICK k \in History :
        k = [h EXCEPT !.outcomes = @ + 1, !.successes = IF success THEN @ + 1 ELSE @]
  <2>1. PICK m \in Nat, n \in Nat : m = h.outcomes + 1 /\ n = IF success THEN h.successes + 1 ELSE h.successes
    BY Columns
  <2>2. [h EXCEPT !.outcomes = m, !.successes = n] \in History
    BY DEF History
  <2>. QED
    BY <2>1, <2>2
<1>7. /\ k.outcomes = h.outcomes + 1 /\ k.successes = (IF success THEN h.successes + 1 ELSE h.successes)
      /\ k.verdicts = h.verdicts /\ k.flags = h.flags
  BY <1>6 DEF History
<1>8. trust' = [trust EXCEPT ![a] = IF Fresh(r) THEN now ELSE Merge(@, s.was, now)]
  BY <1>1, <1>2, <1>3, <1>4, <1>5 DEF Store
<1>9. hist' = [hist EXCEPT ![a] = k] /\ hist'[a] = k
  BY <1>1, <1>4, <1>6, Holding DEF RecordOutcome
<1>10. UNCHANGED <<endorsed, dispute, reviewed>> /\ req' = [req EXCEPT ![r] = Idle]
  BY DEF RecordOutcome, Finish
<1>11. /\ was.total \in Nat /\ was.good \in Nat /\ was.penalty \in Nat /\ was.disputes \in Nat
       /\ h.outcomes \in Nat /\ h.successes \in Nat /\ h.verdicts \in Nat /\ h.flags \in Nat
  BY Columns
<1>12. /\ was.total <= h.outcomes /\ was.good <= h.successes /\ was.penalty <= 150 * h.verdicts
       /\ was.disputes <= h.flags /\ \A e \in was.endorsers : <<e, a>> \in endorsed
  BY <1>1, <1>4, Holding DEF Fits
<1>13. Fits(now, a)'
  BY <1>5, <1>7, <1>9, <1>10, <1>11, <1>12 DEF Fits
<1>14. /\ Grows(was.total, now.total, h.outcomes, k.outcomes)
       /\ Grows(was.good, now.good, h.successes, k.successes)
       /\ Grows(was.penalty, now.penalty, h.verdicts, k.verdicts)
       /\ Grows(was.disputes, now.disputes, h.flags, k.flags)
  BY <1>5, <1>7, <1>11 DEF Grows
<1>15. /\ h.outcomes <= k.outcomes /\ h.successes <= k.successes
       /\ h.verdicts <= k.verdicts /\ h.flags <= k.flags
  BY <1>7, <1>11
<1>16. /\ endorsed \subseteq endorsed' /\ endorsed' \subseteq Endorsement
       /\ dispute' \in [Disputes -> DisputeStatus] /\ reviewed' \subseteq Disputes
  BY <1>1, <1>10, Holding
<1>. HIDE DEF success
<1>. QED
  BY <1>1, <1>4, <1>5, <1>8, <1>9, <1>10, <1>13, <1>14, <1>15, <1>16, CommitStep

LEMMA EndorsementStep == ASSUME IInv, NEW r \in Requests, RecomputeEndorsements(r) PROVE IInv'
<1>. DEFINE s == req[r]
<1>1. /\ s.pc = "endorsed" /\ About(r) = s.agent /\ (Fresh(r) <=> s.fresh)
  BY DEF RecomputeEndorsements, About, Fresh, Creators
<1>2. /\ s.from # s.agent /\ s.was # NoRecord /\ s.from \in s.seen
      /\ \A e \in s.seen : e = s.from \/ <<e, s.agent>> \in endorsed
  BY <1>1 DEF IInv, SeenOK
<1>3. s.seen \in SUBSET Agents /\ s.from \in Agents
  BY <1>1, <1>2, Holding DEF SessionType, Recording, Endorsing, Judging, Idle
<1>4. PICK a \in Agents, was \in Record, k \in History : a = s.agent /\ was = s.was /\ k = hist[a]
  BY <1>1, <1>2, Holding
<1>5. PICK mid \in Record : /\ mid = [was EXCEPT !.endorsers = s.seen]
                            /\ mid.total = was.total /\ mid.good = was.good
                            /\ mid.penalty = was.penalty /\ mid.disputes = was.disputes
                            /\ mid.endorsers = s.seen
  <2>. DEFINE m == [was EXCEPT !.endorsers = s.seen]
  <2>1. /\ m \in Record /\ m.total = was.total /\ m.good = was.good
        /\ m.penalty = was.penalty /\ m.disputes = was.disputes /\ m.endorsers = s.seen
    BY <1>3 DEF Record
  <2>. QED
    BY <2>1
<1>6. PICK now \in Record : /\ now = Scored(mid)
                            /\ now.total = was.total /\ now.good = was.good
                            /\ now.penalty = was.penalty /\ now.disputes = was.disputes
                            /\ now.endorsers = s.seen
  <2>. DEFINE n == Scored(mid)
  <2>1. /\ n \in Record /\ n.total = mid.total /\ n.good = mid.good
        /\ n.penalty = mid.penalty /\ n.disputes = mid.disputes /\ n.endorsers = mid.endorsers
    BY ScoredType
  <2>. HIDE DEF n
  <2>2. n.total = was.total /\ n.good = was.good /\ n.penalty = was.penalty
        /\ n.disputes = was.disputes /\ n.endorsers = s.seen
    BY <1>5, <2>1
  <2>. QED
    BY <2>1, <2>2 DEF n
<1>7. trust' = [trust EXCEPT ![a] = IF Fresh(r) THEN now ELSE Merge(@, s.was, now)]
  BY <1>1, <1>4, <1>5, <1>6 DEF RecomputeEndorsements, Store
<1>8. UNCHANGED <<hist, dispute, reviewed>> /\ req' = [req EXCEPT ![r] = Idle]
  BY DEF RecomputeEndorsements, Finish
<1>9. hist' = [hist EXCEPT ![a] = k] /\ hist'[a] = k
  BY <1>1, <1>2, <1>4, <1>8, Holding
<1>10. endorsed' = endorsed \cup {<<s.from, a>>}
  BY <1>4 DEF RecomputeEndorsements
<1>11. /\ was.total \in Nat /\ was.good \in Nat /\ was.penalty \in Nat /\ was.disputes \in Nat
       /\ k.outcomes \in Nat /\ k.successes \in Nat /\ k.verdicts \in Nat /\ k.flags \in Nat
  BY Columns
<1>12. Fits(was, a)
  BY <1>1, <1>2, <1>4, Holding
<1>13. Fits(now, a)'
  <2>1. \A e \in now.endorsers : <<e, a>> \in endorsed'
    BY <1>2, <1>4, <1>6, <1>10
  <2>. QED
    BY <1>4, <1>6, <1>9, <1>12, <2>1 DEF Fits
<1>14. /\ Grows(was.total, now.total, k.outcomes, k.outcomes)
       /\ Grows(was.good, now.good, k.successes, k.successes)
       /\ Grows(was.penalty, now.penalty, k.verdicts, k.verdicts)
       /\ Grows(was.disputes, now.disputes, k.flags, k.flags)
  BY <1>6 DEF Grows
<1>15. /\ k.outcomes <= k.outcomes /\ k.successes <= k.successes
       /\ k.verdicts <= k.verdicts /\ k.flags <= k.flags
  BY <1>11
<1>16. /\ endorsed \subseteq endorsed' /\ endorsed' \subseteq Endorsement
       /\ dispute' \in [Disputes -> DisputeStatus] /\ reviewed' \subseteq Disputes
       /\ \A p \in endorsed' \ endorsed : p[2] = a
  BY <1>1, <1>2, <1>3, <1>4, <1>8, <1>10, Holding DEF Endorsement
<1>17. now.endorsers # {}
  BY <1>2, <1>6
<1>. QED
  BY <1>1, <1>2, <1>4, <1>7, <1>8, <1>9, <1>13, <1>14, <1>15, <1>16, <1>17, CommitStep

(* A flag, a verdict or a review as it changes the record.                 *)
LEMMA AfterDisputeType ==
  ASSUME NEW s \in Judging, s.was \in Record
  PROVE  LET new == AfterDispute(s)
         IN  /\ new \in Record
             /\ new.total = s.was.total /\ new.good = s.was.good /\ new.endorsers = s.was.endorsers
             /\ new.disputes = IF s.to = "open" THEN s.was.disputes + 1 ELSE s.was.disputes
             /\ new.penalty = IF s.to = "resolved_valid" THEN Clamped(s.was.penalty + 150) ELSE s.was.penalty
<1>. DEFINE was == s.was
<1>0. was.disputes \in Nat /\ was.penalty \in Nat /\ was.penalty + 150 \in Nat
  BY Columns
<1>1. CASE s.to = "open"
  <2>1. was.disputes + 1 \in Nat
    BY <1>0
  <2>2. AfterDispute(s) = [was EXCEPT !.disputes = was.disputes + 1]
    BY <1>1 DEF AfterDispute
  <2>. QED
    BY <1>1, <2>1, <2>2 DEF Record
<1>2. CASE s.to = "resolved_valid"
  <2>1. PICK p \in Fraction : p = Clamped(was.penalty + 150)
    BY <1>0, ClampedType
  <2>2. PICK mid \in Record : /\ mid = [was EXCEPT !.penalty = p]
                              /\ mid.total = was.total /\ mid.good = was.good /\ mid.penalty = p
                              /\ mid.endorsers = was.endorsers /\ mid.disputes = was.disputes
    <3>. DEFINE m == [was EXCEPT !.penalty = p]
    <3>1. /\ m \in Record /\ m.total = was.total /\ m.good = was.good /\ m.penalty = p
          /\ m.endorsers = was.endorsers /\ m.disputes = was.disputes
      BY DEF Record
    <3>. QED
      BY <3>1
  <2>3. AfterDispute(s) = Scored(mid)
    BY <1>2, <2>1, <2>2 DEF AfterDispute, AfterVerdict, Verdict
  <2>4. /\ Scored(mid) \in Record
        /\ Scored(mid).total = was.total /\ Scored(mid).good = was.good
        /\ Scored(mid).endorsers = was.endorsers /\ Scored(mid).disputes = was.disputes
        /\ Scored(mid).penalty = p
    BY <2>2, ScoredType
  <2>. QED
    BY <1>2, <2>1, <2>3, <2>4
<1>3. CASE s.to \in Verdict \ {"resolved_valid"}
  <2>1. AfterDispute(s) = Scored(was) /\ s.to # "open"
    BY <1>3 DEF AfterDispute, AfterVerdict, Verdict
  <2>. QED
    BY <1>3, <2>1, ScoredType
<1>4. CASE s.to \notin Verdict \cup {"open"}
  BY <1>4 DEF AfterDispute, Verdict
<1>. QED
  BY <1>1, <1>2, <1>3, <1>4

LEMMA DisputeStep == ASSUME IInv, NEW r \in Requests, CommitDispute(r) PROVE IInv'
<1>. DEFINE s == req[r]
<1>1. s.pc = "written" /\ About(r) = ReportedAgent[s.d] /\ ~Fresh(r)
  BY DEF CommitDispute, About, Fresh, Creators
<1>2. /\ s \in Judging /\ hist \in [Agents -> History]
      /\ dispute \in [Disputes -> DisputeStatus] /\ reviewed \subseteq Disputes
      /\ endorsed \subseteq Endorsement
  BY <1>1 DEF IInv, TypeOK, Recording, Endorsing, Idle
<1>3. /\ endorsed' = endorsed /\ req' = [req EXCEPT ![r] = Idle]
      /\ dispute' \in [Disputes -> DisputeStatus] /\ reviewed' \subseteq Disputes
  BY <1>2 DEF CommitDispute, Finish, Judging
<1>4. CASE s.was = NoRecord
  BY <1>3, <1>4, LeaveStep DEF CommitDispute
<1>5. CASE s.was # NoRecord
  <2>1. PICK a \in Agents, was \in Record, h \in History : a = About(r) /\ was = s.was /\ h = hist[a]
    BY <1>1, <1>5, Holding
  <2>2. PICK now \in Record :
          /\ now = AfterDispute(s)
          /\ now.total = was.total /\ now.good = was.good /\ now.endorsers = was.endorsers
          /\ now.disputes = IF s.to = "open" THEN was.disputes + 1 ELSE was.disputes
          /\ now.penalty = IF s.to = "resolved_valid" THEN Clamped(was.penalty + 150) ELSE was.penalty
    BY <1>2, <2>1, AfterDisputeType
  <2>3. /\ was.total \in Nat /\ was.good \in Nat
        /\ was.penalty \in Nat /\ was.penalty <= 1000 /\ was.disputes \in Nat
        /\ h.outcomes \in Nat /\ h.successes \in Nat /\ h.verdicts \in Nat /\ h.flags \in Nat
    BY Columns
  <2>4. PICK k \in History :
          k = [h EXCEPT !.flags = IF s.to = "open" THEN @ + 1 ELSE @,
                        !.verdicts = IF s.to = "resolved_valid" THEN @ + 1 ELSE @]
    <3>1. PICK m \in Nat, n \in Nat : /\ m = IF s.to = "open" THEN h.flags + 1 ELSE h.flags
                                      /\ n = IF s.to = "resolved_valid" THEN h.verdicts + 1 ELSE h.verdicts
      BY <2>3
    <3>2. [h EXCEPT !.flags = m, !.verdicts = n] \in History
      BY DEF History
    <3>. QED
      BY <3>1, <3>2
  <2>5. /\ k.outcomes = h.outcomes /\ k.successes = h.successes
        /\ k.flags = (IF s.to = "open" THEN h.flags + 1 ELSE h.flags)
        /\ k.verdicts = (IF s.to = "resolved_valid" THEN h.verdicts + 1 ELSE h.verdicts)
    BY <2>4 DEF History
  <2>6. trust' = [trust EXCEPT ![a] = IF Fresh(r) THEN now ELSE Merge(@, s.was, now)]
    BY <1>1, <1>5, <2>1, <2>2 DEF CommitDispute
  <2>7. hist' = [hist EXCEPT ![a] = k] /\ hist'[a] = k
    <3>1. hist' = [hist EXCEPT
            ![a].flags    = IF s.to = "open" THEN @ + 1 ELSE @,
            ![a].verdicts = IF s.to = "resolved_valid" THEN @ + 1 ELSE @]
      BY <1>1, <1>5, <2>1 DEF CommitDispute
    <3>2. hist' = [hist EXCEPT ![a] = k]
      BY <1>2, <2>1, <2>4, <3>1
    <3>. QED
      BY <1>2, <3>2
  <2>8. /\ was.total <= h.outcomes /\ was.good <= h.successes /\ was.penalty <= 150 * h.verdicts
        /\ was.disputes <= h.flags /\ \A e \in was.endorsers : <<e, a>> \in endorsed
    BY <1>1, <1>5, <2>1, Holding DEF Fits
  <2>9. now.penalty <= 150 * k.verdicts
    BY <2>2, <2>3, <2>5, <2>8 DEF Clamped
  <2>10. Fits(now, a)'
    BY <1>3, <2>2, <2>3, <2>5, <2>7, <2>8, <2>9 DEF Fits
  <2>11. Grows(was.penalty, now.penalty, h.verdicts, k.verdicts)
    BY <2>2, <2>3, <2>5 DEF Grows, Clamped
  <2>12. /\ Grows(was.total, now.total, h.outcomes, k.outcomes)
         /\ Grows(was.good, now.good, h.successes, k.successes)
         /\ Grows(was.disputes, now.disputes, h.flags, k.flags)
    BY <2>2, <2>3, <2>5 DEF Grows
  <2>13. /\ h.outcomes <= k.outcomes /\ h.successes <= k.successes
         /\ h.verdicts <= k.verdicts /\ h.flags <= k.flags
    BY <2>3, <2>5
  <2>14. endorsed \subseteq endorsed' /\ endorsed' \subseteq Endorsement
    BY <1>2, <1>3
  <2>. QED
    BY <1>1, <1>3, <1>5, <2>1, <2>2, <2>6, <2>7, <2>10, <2>11, <2>12, <2>13, <2>14, CommitStep
<1>. QED
  BY <1>4, <1>5

LEMMA NextIInv == IInv /\ [Next]_vars => IInv'
<1>. SUFFICES ASSUME IInv, [Next]_vars PROVE IInv'
  OBVIOUS
<1>1. CASE UNCHANGED vars
  <2>1. UNCHANGED <<trust, endorsed, dispute, reviewed, req, hist>>
    BY <1>1 DEF vars
  <2>2. TypeOK' /\ NothingInvented' /\ EndorsedHaveRecords' /\ \A a \in Agents : Remembers(a)'
    BY <2>1 DEF IInv, TypeOK, NothingInvented, EndorsedHaveRecords, Remembers
  <2>3. \A q : (Fresh(q)' <=> Fresh(q)) /\ About(q)' = About(q)
    BY <2>1, SameSession
  <2>4. OneCreator'
    BY <2>3 DEF IInv, OneCreator
  <2>5. \A q \in Requests : CopyOK(q)' /\ SeenOK(q)'
    BY <2>1, <2>3 DEF IInv, CopyOK, SeenOK, Fits
  <2>. QED
    BY <2>2, <2>4, <2>5 DEF IInv
<1>2. CASE Next
  <2>1. PICK r \in Requests : \/ Before(r) \/ GetTrustRecord(r) \/ RecordOutcome(r)
                              \/ RecomputeEndorsements(r) \/ CommitDispute(r)
    BY <1>2 DEF Next, Before
  <2>. QED
    BY <2>1, BeforeStep, ViewStep, OutcomeStep, EndorsementStep, DisputeStep
<1>. QED
  BY <1>1, <1>2

(***************************************************************************)
(* The theorems.                                                           *)
(***************************************************************************)
(* The strengthened invariant holds in every state of the program.         *)
THEOREM Invariance == Spec => []IInv
  BY InitIInv, NextIInv, PTL DEF Spec

(* Records and sessions are well-formed; a score keeps the range of its    *)
(* CHECK constraint, whatever rate the lost updates leave.                 *)
THEOREM TypeCorrect == Spec => []TypeOK
<1>1. IInv => TypeOK
  BY DEF IInv
<1>. QED
  BY <1>1, Invariance, PTL

(* A record claims no more than was committed, however requests interleave. *)
THEOREM NeverInvents == Spec => []NothingInvented
<1>1. IInv => NothingInvented
  BY DEF IInv
<1>. QED
  BY <1>1, Invariance, PTL

(* A record that has a history shows it, and so does the timeline of an    *)
(* agent that was endorsed: lost updates never take the last one away.     *)
THEOREM NeverForgets == Spec => []NothingForgotten
<1>1. IInv => NothingForgotten
  <2>. SUFFICES ASSUME IInv PROVE NothingForgotten
    OBVIOUS
  <2>1. \A a \in Agents : Remembers(a)
    BY DEF IInv
  <2>2. ASSUME NEW p \in endorsed
        PROVE  ~GetEventsFails(p[2]) /\ Received(p[1]) \in GetEvents(p[2])
    <3>1. trust[p[2]] # NoRecord /\ p \in Endorsement
      BY DEF IInv, EndorsedHaveRecords, TypeOK
    <3>2. p[1] \in {x \in Agents : <<x, p[2]>> \in endorsed}
      BY <3>1 DEF Endorsement
    <3>. QED
      BY <3>1, <3>2 DEF GetEventsFails, GetEvents
  <2>. QED
    BY <2>1, <2>2 DEF NothingForgotten, Remembers
<1>. QED
  BY <1>1, Invariance, PTL
===============================================================================
