--------------------------- MODULE NegotiationProofs ---------------------------
(***************************************************************************)
(* Proofs about Negotiation, for any number of negotiations and requests   *)
(* and any limit on the rounds.                                            *)
(***************************************************************************)
EXTENDS Negotiation, TLAPS

(***************************************************************************)
(* The inductive invariant.  The types alone are not inductive: what a     *)
(* request copies is well typed because the row it is about exists.  What  *)
(* a decided request holds is what the commit relies on.                   *)
(***************************************************************************)

RequestsHaveRows ==
  \A r \in Requests :
    req[r].stage # "idle" =>
      req[r].about \in Negotiations /\ status[req[r].about] # "absent"

CopiesWereOpen ==
  \A r \in Requests :
    req[r].stage = "decided" =>
      /\ req[r].was \in Open
      /\ req[r].about \notin req[r].expires
      /\ req[r].decision = "countered" => req[r].rounds + 1 <= MAX_ROUNDS

IInv ==
  /\ TypeOK
  /\ RequestsHaveRows
  /\ CopiesWereOpen
  /\ RoundsBelowMax
  /\ OneContract

(* What a request's session sees of the row it is about, and what being    *)
(* admissible means for it.                                                *)
LEMMA AdmissibleSeesOpen ==
  ASSUME TypeOK, RequestsHaveRows, NEW r \in Requests, req[r].stage # "idle"
  PROVE  /\ Sees(r) \in Open \cup Closed
         /\ round_count[req[r].about] \in Nat
         /\ Admissible(r) =>
              /\ Sees(r) \in Open
              /\ req[r].about \notin req[r].expires
              /\ Sees(r) = status[req[r].about]
<1>1. /\ req[r].about \in Negotiations
      /\ status[req[r].about] \in Open \cup Closed
  BY DEF RequestsHaveRows, TypeOK
<1>2. Sees(r) \in Open \cup Closed
  BY <1>1 DEF Sees, Closed
<1>3. ASSUME Admissible(r)
      PROVE  Sees(r) \in Open
  BY <1>2, <1>3 DEF Admissible, VALID_TRANSITIONS
<1>4. Sees(r) \in Open => req[r].about \notin req[r].expires
  BY DEF Sees, Open
<1>. QED
  BY <1>1, <1>2, <1>3, <1>4 DEF TypeOK, Sees

LEMMA InitIInv == Init => IInv
<1>. SUFFICES ASSUME Init PROVE IInv
  OBVIOUS
<1>1. TypeOK
  BY ConstantsAssumption
  DEF Init, TypeOK, Idle, NoMoves, Request, Open, Closed, Decisions
<1>2. RequestsHaveRows /\ CopiesWereOpen
  BY DEF Init, RequestsHaveRows, CopiesWereOpen, Idle
<1>3. RoundsBelowMax
  BY ConstantsAssumption DEF Init, RoundsBelowMax
<1>4. OneContract
  BY DEF Init, OneContract, NoMoves, Decisions
<1>. QED
  BY <1>1, <1>2, <1>3, <1>4 DEF IInv

(***************************************************************************)
(* The steps, in three groups: the ones about a proposal, the ones that    *)
(* only change a request, and the commit.                                  *)
(***************************************************************************)

LEMMA ProposalSteps ==
  ASSUME IInv, NEW n \in Negotiations, Propose(n) \/ ComeDue(n)
  PROVE  IInv'
<1>1. TypeOK'
  BY DEF IInv, TypeOK, Propose, ComeDue, Open
<1>2. RequestsHaveRows'
  BY DEF IInv, TypeOK, RequestsHaveRows, Propose, ComeDue
<1>3. CopiesWereOpen' /\ RoundsBelowMax'
  BY DEF IInv, CopiesWereOpen, RoundsBelowMax, Propose, ComeDue
<1>4. OneContract'
  BY DEF IInv, TypeOK, OneContract, Propose, ComeDue
<1>. QED
  BY <1>1, <1>2, <1>3, <1>4 DEF IInv

RequestStep(r) ==
  \/ Sweep(r) \/ Decide(r) \/ Refuse(r) \/ Abort(r)
  \/ \E n \in Negotiations, d \in Decisions : SelectDue(r, n, d)

LEMMA IdleIsARequest == Idle \in Request
  BY ConstantsAssumption DEF Idle, Request, Open, Closed, Decisions

(* What Decide leaves in the request.                                      *)
LEMMA DecidedRequest ==
  ASSUME IInv, NEW r \in Requests, Decide(r)
  PROVE  /\ req'[r] \in Request
         /\ req'[r].about = req[r].about
         /\ req'[r].was \in Open
         /\ req'[r].about \notin req'[r].expires
         /\ req'[r].decision = "countered" => req'[r].rounds + 1 <= MAX_ROUNDS
<1>. DEFINE s == Sees(r)
            k == round_count[req[r].about]
<1>1. /\ TypeOK /\ RequestsHaveRows
      /\ req[r].stage # "idle"
      /\ Admissible(r)
  BY DEF IInv, Decide
<1>2. /\ s \in Open \cup Closed
      /\ k \in Nat
      /\ s \in Open
      /\ req[r].about \notin req[r].expires
  BY <1>1, AdmissibleSeesOpen
<1>3. req[r].decision = "countered" => k + 1 <= MAX_ROUNDS
  BY <1>1 DEF Admissible, RoundsLeft
<1>4. req' = [req EXCEPT ![r].stage = "decided", ![r].was = s, ![r].rounds = k]
  BY DEF Decide
<1>5. req \in [Requests -> Request]
  BY <1>1 DEF TypeOK
<1>. HIDE DEF s, k
<1>. QED
  BY <1>2, <1>3, <1>4, <1>5 DEF Request

LEMMA RequestSteps ==
  ASSUME IInv, NEW r \in Requests, RequestStep(r)
  PROVE  IInv'
<1>0. /\ UNCHANGED <<row, contract, moves>>
      /\ req \in [Requests -> Request]
  BY DEF IInv, TypeOK, RequestStep, Sweep, Decide, Refuse, Abort, SelectDue
<1>1. /\ req' \in [Requests -> Request]
      /\ \A q \in Requests \ {r} : req'[q] = req[q]
  <2>1. CASE Decide(r)
    BY <1>0, <2>1, DecidedRequest DEF Decide
  <2>2. CASE Sweep(r)
    BY <1>0, <2>2 DEF Sweep, Request
  <2>3. CASE Refuse(r) \/ Abort(r)
    BY <1>0, <2>3, IdleIsARequest DEF Refuse, Abort
  <2>4. ASSUME NEW n \in Negotiations, NEW d \in Decisions, SelectDue(r, n, d)
        PROVE  <1>1
    BY <1>0, <2>4, IdleIsARequest DEF SelectDue, IInv, TypeOK, Request
  <2>. QED
    BY <2>1, <2>2, <2>3, <2>4 DEF RequestStep
<1>2. /\ req'[r].stage # "idle" =>
           req'[r].about \in Negotiations /\ status[req'[r].about] # "absent"
      /\ req'[r].stage = "decided" =>
           /\ req'[r].was \in Open
           /\ req'[r].about \notin req'[r].expires
           /\ req'[r].decision = "countered" => req'[r].rounds + 1 <= MAX_ROUNDS
  <2>1. CASE Decide(r)
    BY <2>1, DecidedRequest DEF Decide, IInv, RequestsHaveRows
  <2>2. CASE Sweep(r)
    BY <1>0, <2>2 DEF Sweep, IInv, RequestsHaveRows
  <2>3. CASE Refuse(r) \/ Abort(r)
    BY <1>0, <2>3 DEF Refuse, Abort, Idle
  <2>4. ASSUME NEW n \in Negotiations, NEW d \in Decisions, SelectDue(r, n, d)
        PROVE  <1>2
    BY <1>0, <2>4 DEF SelectDue, Idle
  <2>. QED
    BY <2>1, <2>2, <2>3, <2>4 DEF RequestStep
<1>3. TypeOK'
  BY <1>0, <1>1 DEF IInv, TypeOK, row
<1>4. RequestsHaveRows' /\ CopiesWereOpen'
  BY <1>0, <1>1, <1>2 DEF IInv, RequestsHaveRows, CopiesWereOpen, row
<1>5. RoundsBelowMax' /\ OneContract'
  BY <1>0 DEF IInv, RoundsBelowMax, OneContract, row
<1>. QED
  BY <1>3, <1>4, <1>5 DEF IInv

LEMMA CommitStep ==
  ASSUME IInv, NEW r \in Requests, Commit(r)
  PROVE  IInv'
<1>. DEFINE q == req[r]
            n == q.about
<1>1. /\ q \in Request
      /\ q.stage = "decided"
      /\ n \in Negotiations
      /\ q.decision \in Decisions /\ q.rounds \in Nat
      /\ q.decision = "countered" => q.rounds + 1 <= MAX_ROUNDS
  BY DEF IInv, TypeOK, RequestsHaveRows, CopiesWereOpen, Commit, Request
<1>2. status' \in [Negotiations -> Open \cup Closed \cup {"absent"}]
  <2>1. \A m \in Negotiations :
          Written(q.decision, q.was, status[m]) \in Open \cup Closed \cup {"absent"}
    BY <1>1 DEF IInv, TypeOK, Written, Decisions, Open, Closed
  <2>. QED
    BY <2>1 DEF Commit, Closed, IInv, TypeOK
<1>3. \A m \in Negotiations : status[m] # "absent" => status'[m] # "absent"
  BY <1>1 DEF Commit, Written, Decisions
<1>4. /\ round_count' \in [Negotiations -> Nat]
      /\ RoundsBelowMax'
  BY <1>1 DEF Commit, IInv, TypeOK, RoundsBelowMax
<1>5. /\ due' \in SUBSET Negotiations
      /\ response' \in [Negotiations -> Decisions \cup {"none"}]
      /\ contract' \in [Negotiations -> {"none", "active"}]
  BY <1>1 DEF Commit, IInv, TypeOK
<1>6. moves' \in [Negotiations -> [Decisions -> Nat]]
  BY <1>1 DEF Commit, IInv, TypeOK
<1>7. req' = [req EXCEPT ![r] = Idle]
  BY DEF Commit
<1>8. TypeOK'
  <2>1. req' \in [Requests -> Request]
    BY <1>7, IdleIsARequest DEF IInv, TypeOK
  <2>. QED
    BY <2>1, <1>2, <1>4, <1>5, <1>6 DEF TypeOK
<1>9. RequestsHaveRows' /\ CopiesWereOpen'
  BY <1>3, <1>7 DEF IInv, TypeOK, RequestsHaveRows, CopiesWereOpen, Idle
<1>10. OneContract'
  <2>. SUFFICES ASSUME NEW m \in Negotiations
                PROVE  /\ moves'[m]["accepted"] = IF contract'[m] = "active" THEN 1 ELSE 0
                       /\ status'[m] = "accepted" => contract'[m] = "active"
    BY DEF OneContract
  <2>1. /\ moves[m]["accepted"] = IF contract[m] = "active" THEN 1 ELSE 0
        /\ status[m] = "accepted" => contract[m] = "active"
    BY DEF IInv, OneContract
  <2>2. CASE m # n
    BY <2>1, <2>2 DEF Commit, IInv, TypeOK
  <2>3. CASE m = n /\ q.decision = "accepted"
    <3>1. contract[n] = "none" /\ contract'[n] = "active"
      BY <1>1, <2>3 DEF Commit, ContractInsertable, IInv, TypeOK
    <3>2. moves'[n]["accepted"] = moves[n]["accepted"] + 1
      BY <1>1, <2>3 DEF Commit, IInv, TypeOK, Decisions
    <3>. QED
      BY <2>1, <2>3, <3>1, <3>2
  <2>4. CASE m = n /\ q.decision # "accepted"
    <3>1. contract'[n] = contract[n]
      BY <1>1, <2>4 DEF Commit, IInv, TypeOK
    <3>2. moves'[n]["accepted"] = moves[n]["accepted"]
      BY <1>1, <2>4 DEF Commit, IInv, TypeOK, Decisions
    <3>3. status'[n] = "accepted" => status[n] = "accepted"
      BY <1>1, <2>4 DEF Commit, Written
    <3>. QED
      BY <2>1, <2>4, <3>1, <3>2, <3>3
  <2>. QED
    BY <2>2, <2>3, <2>4
<1>. QED
  BY <1>4, <1>8, <1>9, <1>10 DEF IInv

LEMMA NextIInv == IInv /\ [Next]_vars => IInv'
<1>. SUFFICES ASSUME IInv, [Next]_vars PROVE IInv'
  OBVIOUS
<1>1. ASSUME NEW n \in Negotiations, Propose(n) \/ ComeDue(n)
      PROVE  IInv'
  BY <1>1, ProposalSteps
<1>2. ASSUME NEW r \in Requests, RequestStep(r)
      PROVE  IInv'
  BY <1>2, RequestSteps
<1>3. ASSUME NEW r \in Requests, Commit(r)
      PROVE  IInv'
  BY <1>3, CommitStep
<1>4. CASE UNCHANGED vars
  BY <1>4
  DEF vars, row, IInv, TypeOK, RequestsHaveRows, CopiesWereOpen, RoundsBelowMax, OneContract
<1>. QED
  BY <1>1, <1>2, <1>3, <1>4 DEF Next, RequestStep

LEMMA Invariance == Spec => []IInv
  BY InitIInv, NextIInv, PTL DEF Spec

(* Every variable of the negotiation keeps its type.                       *)
THEOREM TypeCorrect == Spec => []TypeOK
<1>1. IInv => TypeOK
  BY DEF IInv
<1>. QED
  BY <1>1, Invariance, PTL

(* The unique key of task_contracts is enough: whatever overlaps, a        *)
(* negotiation is accepted at most once and its acceptance has a contract. *)
THEOREM AtMostOneContract == Spec => []OneContract
<1>1. IInv => OneContract
  BY DEF IInv
<1>. QED
  BY <1>1, Invariance, PTL

(* The round counter stays within its limit, although every increment      *)
(* starts from a copy.                                                     *)
THEOREM RoundCounterBounded == Spec => []RoundsBelowMax
<1>1. IInv => RoundsBelowMax
  BY DEF IInv
<1>. QED
  BY <1>1, Invariance, PTL

(***************************************************************************)
(* What a step may do to a negotiation nobody in flight saw open, and to   *)
(* one that everybody in flight found due.                                 *)
(***************************************************************************)

(* Only a commit changes rows that exist.                                  *)
LEMMA RowSteps ==
  ASSUME [Next]_vars, NEW n \in Negotiations, status[n] # "absent", TypeOK
  PROVE  \/ UNCHANGED <<status[n], round_count[n], response[n], contract[n], moves[n]>>
         \/ \E r \in Requests : Commit(r)
<1>1. ASSUME NEW m \in Negotiations, Propose(m) \/ ComeDue(m)
      PROVE  UNCHANGED <<status[n], round_count[n], response[n], contract[n], moves[n]>>
  BY <1>1 DEF Propose, ComeDue, TypeOK
<1>2. ASSUME NEW r \in Requests, RequestStep(r)
      PROVE  UNCHANGED <<status[n], round_count[n], response[n], contract[n], moves[n]>>
  BY <1>2 DEF RequestStep, Sweep, Decide, Refuse, Abort, SelectDue, row
<1>3. CASE UNCHANGED vars
  BY <1>3 DEF vars, row
<1>. QED
  BY <1>1, <1>2, <1>3 DEF Next, RequestStep

(* A commit writes the row it is about and the status of those it expires. *)
LEMMA CommitWrites ==
  ASSUME IInv, NEW r \in Requests, Commit(r), NEW n \in Negotiations
  PROVE  /\ req[r].about # n =>
              /\ UNCHANGED <<round_count[n], response[n], contract[n], moves[n]>>
              /\ n \notin req[r].expires => UNCHANGED status[n]
              /\ n \in req[r].expires => status'[n] = "expired"
         /\ req[r].about \in Negotiations
         /\ moves'[req[r].about] # moves[req[r].about]
<1>1. /\ req[r].about \in Negotiations
      /\ req[r].decision \in Decisions
  BY DEF IInv, TypeOK, RequestsHaveRows, Commit, Request
<1>2. moves'[req[r].about][req[r].decision] = moves[req[r].about][req[r].decision] + 1
  BY <1>1 DEF Commit, IInv, TypeOK
<1>3. moves[req[r].about][req[r].decision] \in Nat
  BY <1>1 DEF IInv, TypeOK
<1>4. moves'[req[r].about] # moves[req[r].about]
  BY <1>2, <1>3
<1>5. req[r].about # n =>
        /\ UNCHANGED <<round_count[n], response[n], contract[n], moves[n]>>
        /\ n \notin req[r].expires => UNCHANGED status[n]
        /\ n \in req[r].expires => status'[n] = "expired"
  BY DEF Commit, IInv, TypeOK
<1>. QED
  BY <1>1, <1>4, <1>5

SettledStep ==
  \A n \in Negotiations : Settled(n) =>
        /\ UNCHANGED <<status[n], round_count[n], response[n], contract[n], moves[n]>>
        /\ Settled(n)'

LEMMA SettledPreserved == IInv /\ [Next]_vars => SettledStep
<1>. SUFFICES ASSUME IInv, [Next]_vars, NEW n \in Negotiations, Settled(n)
              PROVE  /\ UNCHANGED <<status[n], round_count[n], response[n], contract[n], moves[n]>>
                     /\ Settled(n)'
  BY DEF SettledStep
<1>0. TypeOK /\ RequestsHaveRows /\ status[n] # "absent"
  BY DEF IInv, Settled, Closed
<1>1. UNCHANGED <<status[n], round_count[n], response[n], contract[n], moves[n]>>
  <2>1. ASSUME NEW r \in Requests, Commit(r)
        PROVE  UNCHANGED <<status[n], round_count[n], response[n], contract[n], moves[n]>>
    <3>1. req[r].about # n /\ n \notin req[r].expires
      BY <2>1 DEF Commit, Settled
    <3>. QED
      BY <2>1, <3>1, CommitWrites
  <2>. QED
    BY <1>0, <2>1, RowSteps
<1>2. ASSUME NEW r \in Requests
      PROVE  /\ req'[r].stage = "decided" => req'[r].about # n
             /\ n \notin req'[r].expires
  <2>0. /\ req[r].stage = "decided" => req[r].about # n
        /\ n \notin req[r].expires
        /\ req \in [Requests -> Request]
    BY <1>0 DEF Settled, TypeOK
  <2>1. ASSUME NEW q \in Requests, Decide(q)
        PROVE  /\ req'[r].stage = "decided" => req'[r].about # n
               /\ n \notin req'[r].expires
    <3>1. CASE q # r
      BY <2>0, <2>1, <3>1 DEF Decide
    <3>2. CASE q = r
      <4>1. req[r].stage # "idle" /\ Admissible(r)
        BY <2>1, <3>2 DEF Decide
      <4>2. Sees(r) \in Open /\ Sees(r) = status[req[r].about]
        BY <1>0, <4>1, AdmissibleSeesOpen
      <4>3. req[r].about # n
        BY <4>2 DEF Settled, Open, Closed
      <4>4. req'[r].about = req[r].about /\ req'[r].expires = req[r].expires
        BY <2>0, <2>1, <3>2 DEF Decide, Request
      <4>. QED
        BY <2>0, <4>3, <4>4
    <3>. QED
      BY <3>1, <3>2
  <2>2. ASSUME NEW q \in Requests, Sweep(q) \/ Refuse(q) \/ Abort(q) \/ Commit(q)
        PROVE  /\ req'[r].stage = "decided" => req'[r].about # n
               /\ n \notin req'[r].expires
    BY <2>0, <2>2 DEF Sweep, Refuse, Abort, Commit, Idle, Request
  <2>3. ASSUME NEW q \in Requests, NEW m \in Negotiations, NEW d \in Decisions,
               SelectDue(q, m, d)
        PROVE  /\ req'[r].stage = "decided" => req'[r].about # n
               /\ n \notin req'[r].expires
    BY <2>0, <2>3 DEF SelectDue, Settled, Idle, Open, Closed
  <2>4. CASE UNCHANGED req
    BY <2>0, <2>4
  <2>. QED
    BY <2>1, <2>2, <2>3, <2>4 DEF Next, Propose, ComeDue, vars
<1>. QED
  BY <1>1, <1>2 DEF Settled

(* A closed negotiation that nobody in flight saw open never changes.      *)
THEOREM SettledNegotiationsAreFinal == Spec => SettledIsFinal
<1>1. IInv /\ [Next]_vars => [SettledStep]_vars
  BY SettledPreserved
<1>. QED
  BY <1>1, Invariance, PTL DEF Spec, SettledIsFinal, SettledStep

OverdueStep ==
  \A n \in Negotiations : Overdue(n) =>
        \/ UNCHANGED <<status[n], contract[n], moves[n]>>
        \/ /\ status'[n] = "expired"
           /\ UNCHANGED <<contract[n], moves[n]>>
           /\ \E m \in Negotiations \ {n} : moves'[m] # moves[m]

LEMMA OverdueAnswered == IInv /\ [Next]_vars => OverdueStep
<1>. SUFFICES ASSUME IInv, [Next]_vars, NEW n \in Negotiations, Overdue(n)
              PROVE  \/ UNCHANGED <<status[n], contract[n], moves[n]>>
                     \/ /\ status'[n] = "expired"
                        /\ UNCHANGED <<contract[n], moves[n]>>
                        /\ \E m \in Negotiations \ {n} : moves'[m] # moves[m]
  BY DEF OverdueStep
<1>1. TypeOK /\ status[n] # "absent"
  BY DEF IInv, Overdue, Open
<1>2. ASSUME NEW r \in Requests, Commit(r)
      PROVE  \/ UNCHANGED <<status[n], contract[n], moves[n]>>
             \/ /\ status'[n] = "expired"
                /\ UNCHANGED <<contract[n], moves[n]>>
                /\ \E m \in Negotiations \ {n} : moves'[m] # moves[m]
  <2>1. req[r].about # n
    BY <1>2 DEF IInv, CopiesWereOpen, Commit, Overdue
  <2>. QED
    BY <1>2, <2>1, CommitWrites
<1>. QED
  BY <1>1, <1>2, RowSteps

(* An overdue negotiation is answered by nobody: it can only expire, and   *)
(* only together with the answer to another one.                           *)
THEOREM OverdueNegotiationsOnlyExpire == Spec => OverdueOnlyExpires
<1>1. IInv /\ [Next]_vars => [OverdueStep]_vars
  BY OverdueAnswered
<1>. QED
  BY <1>1, Invariance, PTL DEF Spec, OverdueOnlyExpires, OverdueStep
================================================================================
